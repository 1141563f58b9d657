--------------------------- MODULE DeliveryProofs ---------------------------
(***************************************************************************)
(* Proofs about Delivery, for tables of any size.                          *)
(***************************************************************************)
EXTENDS Delivery, TLAPS

-----------------------------------------------------------------------------
(* What the constructors and methods of the aggregates return.             *)

(* Rows that are not there, and new ones. *)
LEMMA NewRows ==
  /\ NoOrder \in OrderRow /\ NoOrder.status = "ABSENT" /\ NoOrder.drone = Nil
  /\ NoDrone \in DroneRow /\ NoDrone.status = "ABSENT" /\ NoDrone.order = Nil
  /\ NoJob \in JobRow /\ NoJob.status = "ABSENT" /\ NoJob.order = Nil
  /\ \A r \in Route : /\ NewOrder(r) \in OrderRow
                      /\ NewOrder(r).status = "PENDING" /\ NewOrder(r).drone = Nil
  /\ NewDrone \in DroneRow /\ NewDrone.status = "IDLE" /\ NewDrone.order = Nil
  /\ \A o \in OrderID : /\ NewJob(o) \in JobRow
                        /\ NewJob(o).status = "OPEN" /\ NewJob(o).order = o
BY DEF NoOrder, NoDrone, NoJob, NewOrder, NewDrone, NewJob, OrderRow, DroneRow, JobRow,
       OrderStatus, DroneStatus, JobStatus

(* Fields of the order rows the methods return. *)
LEMMA OrderRows ==
  ASSUME NEW o \in OrderRow
  PROVE  /\ \A d \in DroneID : /\ Assign(o, d) \in OrderRow
                               /\ Assign(o, d).status = "ASSIGNED"
                               /\ Assign(o, d).drone = d
         /\ MarkPickedUp(o) \in OrderRow
         /\ MarkPickedUp(o).status = "PICKED_UP" /\ MarkPickedUp(o).drone = o.drone
         /\ \A s \in {"DELIVERED", "FAILED"} : /\ MarkFinished(o, s) \in OrderRow
                                               /\ MarkFinished(o, s).status = s
                                               /\ MarkFinished(o, s).drone = Nil
         /\ AwaitHandoff(o) \in OrderRow
         /\ AwaitHandoff(o).status = "AWAITING_HANDOFF" /\ AwaitHandoff(o).drone = Nil
         /\ CancelOrder(o) \in OrderRow
         /\ CancelOrder(o).status = "CANCELLED" /\ CancelOrder(o).drone = o.drone
         /\ \A r \in Route \cup {Nil} : /\ Reroute(o, r) \in OrderRow
                                        /\ Reroute(o, r).status = o.status
                                        /\ Reroute(o, r).drone = o.drone
<1> USE DEF OrderRow, OrderStatus
<1>1. \A d \in DroneID : /\ Assign(o, d) \in OrderRow
                         /\ Assign(o, d).status = "ASSIGNED"
                         /\ Assign(o, d).drone = d
  BY DEF Assign
<1>2. /\ MarkPickedUp(o) \in OrderRow
      /\ MarkPickedUp(o).status = "PICKED_UP" /\ MarkPickedUp(o).drone = o.drone
  BY DEF MarkPickedUp
<1>3. \A s \in {"DELIVERED", "FAILED"} : /\ MarkFinished(o, s) \in OrderRow
                                         /\ MarkFinished(o, s).status = s
                                         /\ MarkFinished(o, s).drone = Nil
  BY DEF MarkFinished
<1>4. /\ AwaitHandoff(o) \in OrderRow
      /\ AwaitHandoff(o).status = "AWAITING_HANDOFF" /\ AwaitHandoff(o).drone = Nil
  BY DEF AwaitHandoff
<1>5. /\ CancelOrder(o) \in OrderRow
      /\ CancelOrder(o).status = "CANCELLED" /\ CancelOrder(o).drone = o.drone
  BY DEF CancelOrder
<1>6. \A r \in Route \cup {Nil} : /\ Reroute(o, r) \in OrderRow
                                  /\ Reroute(o, r).status = o.status
                                  /\ Reroute(o, r).drone = o.drone
  BY DEF Reroute
<1> QED
  BY <1>1, <1>2, <1>3, <1>4, <1>5, <1>6

(* Fields of the drone rows the methods return. *)
LEMMA DroneRows ==
  ASSUME NEW d \in DroneRow
  PROVE  /\ \A o \in OrderID : /\ ReserveDrone(d, o) \in DroneRow
                               /\ ReserveDrone(d, o).status = "EN_ROUTE_PICKUP"
                               /\ ReserveDrone(d, o).order = o
         /\ StartDelivery(d) \in DroneRow
         /\ StartDelivery(d).status = "EN_ROUTE_DELIVERY"
         /\ StartDelivery(d).order = d.order
         /\ GoIdle(d) \in DroneRow /\ GoIdle(d).status = "IDLE" /\ GoIdle(d).order = Nil
         /\ MarkBroken(d) \in DroneRow
         /\ MarkBroken(d).status = "BROKEN" /\ MarkBroken(d).order = Nil
         /\ MarkFixed(d) \in DroneRow
         /\ MarkFixed(d).status = "IDLE" /\ MarkFixed(d).order = Nil
<1> USE DEF DroneRow, DroneStatus
<1>1. \A o \in OrderID : /\ ReserveDrone(d, o) \in DroneRow
                         /\ ReserveDrone(d, o).status = "EN_ROUTE_PICKUP"
                         /\ ReserveDrone(d, o).order = o
  BY DEF ReserveDrone
<1>2. /\ StartDelivery(d) \in DroneRow
      /\ StartDelivery(d).status = "EN_ROUTE_DELIVERY"
      /\ StartDelivery(d).order = d.order
  BY DEF StartDelivery
<1>3. GoIdle(d) \in DroneRow /\ GoIdle(d).status = "IDLE" /\ GoIdle(d).order = Nil
  BY DEF GoIdle
<1>4. /\ MarkBroken(d) \in DroneRow
      /\ MarkBroken(d).status = "BROKEN" /\ MarkBroken(d).order = Nil
  BY DEF MarkBroken
<1>5. /\ MarkFixed(d) \in DroneRow
      /\ MarkFixed(d).status = "IDLE" /\ MarkFixed(d).order = Nil
  BY DEF MarkFixed
<1> QED
  BY <1>1, <1>2, <1>3, <1>4, <1>5

(* Fields of the job rows the methods return. *)
LEMMA JobRows ==
  ASSUME NEW j \in JobRow
  PROVE  /\ \A d \in DroneID : /\ ReserveJob(j, d) \in JobRow
                               /\ ReserveJob(j, d).status = "RESERVED"
                               /\ ReserveJob(j, d).order = j.order
                               /\ ReserveJob(j, d).drone = d
         /\ CompleteJob(j) \in JobRow /\ CompleteJob(j).status = "COMPLETED"
         /\ CompleteJob(j).order = j.order /\ CompleteJob(j).drone = j.drone
         /\ CancelJob(j) \in JobRow /\ CancelJob(j).status = "CANCELLED"
         /\ CancelJob(j).order = j.order
<1> USE DEF JobRow, JobStatus
<1>1. \A d \in DroneID : /\ ReserveJob(j, d) \in JobRow
                         /\ ReserveJob(j, d).status = "RESERVED"
                         /\ ReserveJob(j, d).order = j.order
                         /\ ReserveJob(j, d).drone = d
  BY DEF ReserveJob
<1>2. /\ CompleteJob(j) \in JobRow /\ CompleteJob(j).status = "COMPLETED"
      /\ CompleteJob(j).order = j.order /\ CompleteJob(j).drone = j.drone
  BY DEF CompleteJob
<1>3. /\ CancelJob(j) \in JobRow /\ CancelJob(j).status = "CANCELLED"
      /\ CancelJob(j).order = j.order
  BY DEF CancelJob
<1> QED
  BY <1>1, <1>2, <1>3

(* CancelByOrderID leaves every job its order, cancels the jobs of o that  *)
(* are not completed and touches no other row.                             *)
LEMMA CancelledJobs ==
  ASSUME NEW js \in [JobID -> JobRow], NEW o \in OrderID
  PROVE  /\ CancelByOrderID(js, o) \in [JobID -> JobRow]
         /\ \A j \in JobID :
              /\ CancelByOrderID(js, o)[j].order = js[j].order
              /\ CanCancelJob(js[j], o) => CancelByOrderID(js, o)[j].status = "CANCELLED"
              /\ ~CanCancelJob(js[j], o) => CancelByOrderID(js, o)[j] = js[j]
<1>1. \A j \in JobID :
        /\ CancelJob(js[j]) \in JobRow /\ CancelJob(js[j]).status = "CANCELLED"
        /\ CancelJob(js[j]).order = js[j].order
  BY JobRows
<1>2. \A j \in JobID : CancelByOrderID(js, o)[j] =
                         IF CanCancelJob(js[j], o) THEN CancelJob(js[j]) ELSE js[j]
  BY DEF CancelByOrderID
<1>3. CancelByOrderID(js, o) \in [JobID -> JobRow]
  BY <1>1 DEF CancelByOrderID
<1> QED
  BY <1>1, <1>2, <1>3

-----------------------------------------------------------------------------
(* Type correctness. *)

(* The tables are well formed at first. *)
LEMMA TypeInit == Init => TypeOK
BY NewRows DEF Init, TypeOK

(* The fields of a row, and the rows' tables. *)
LEMMA Fields ==
  ASSUME TypeOK
  PROVE  /\ \A o \in OrderID : orders[o] \in OrderRow /\ orders[o].drone \in DroneID \cup {Nil}
         /\ \A d \in DroneID : drones[d] \in DroneRow /\ drones[d].order \in OrderID \cup {Nil}
         /\ \A j \in JobID : jobs[j] \in JobRow /\ jobs[j].order \in OrderID \cup {Nil}
BY DEF TypeOK, OrderRow, DroneRow, JobRow

(* Every identifier has a row. *)
LEMMA Domains == TypeOK => /\ DOMAIN orders = OrderID
                           /\ DOMAIN drones = DroneID
                           /\ DOMAIN jobs = JobID
BY DEF TypeOK

(* CancelByOrderID keeps the jobs table well formed. *)
LEMMA CancelledJobsType ==
  ASSUME TypeOK, NEW o \in OrderID
  PROVE  /\ CancelByOrderID(jobs, o) \in [JobID -> JobRow]
         /\ \A j \in JobID : CancelByOrderID(jobs, o)[j].order = Nil
                              <=> CancelByOrderID(jobs, o)[j].status = "ABSENT"
<1>1. jobs \in [JobID -> JobRow]
  BY DEF TypeOK
<1>2. ASSUME NEW j \in JobID
      PROVE  CancelByOrderID(jobs, o)[j].order = Nil
               <=> CancelByOrderID(jobs, o)[j].status = "ABSENT"
  <2>1. CASE CanCancelJob(jobs[j], o)
    <3>1. jobs[j].order = o
      BY <2>1 DEF CanCancelJob
    <3>2. /\ CancelByOrderID(jobs, o)[j].order = o
          /\ CancelByOrderID(jobs, o)[j].status = "CANCELLED"
      BY <1>1, <2>1, <3>1, CancelledJobs
    <3> QED
      BY <3>2, NilAssumption
  <2>2. CASE ~CanCancelJob(jobs[j], o)
    BY <1>1, <2>2, CancelledJobs DEF TypeOK
  <2> QED
    BY <2>1, <2>2
<1> QED
  BY <1>1, <1>2, CancelledJobs

(* Every request leaves the tables well formed. *)
LEMMA TypeStep == TypeOK /\ [Next]_vars => TypeOK'
<1> SUFFICES ASSUME TypeOK, [Next]_vars PROVE TypeOK'
  OBVIOUS
<1> USE NilAssumption, Fields DEF TypeOK
<1>1. ASSUME NEW r \in Route, NEW o \in OrderID, NEW j \in JobID,
             CreateOrderAndJob(r, o, j)
      PROVE  TypeOK'
  BY <1>1, NewRows DEF CreateOrderAndJob
<1>2. ASSUME NEW o \in OrderID, CancelOrderAndJob(o) PROVE TypeOK'
  <2>1. orders' \in [OrderID -> OrderRow] /\ drones' \in [DroneID -> DroneRow]
    BY <1>2, OrderRows DEF CancelOrderAndJob
  <2>2. /\ jobs' \in [JobID -> JobRow]
        /\ \A j \in JobID : jobs'[j].order = Nil <=> jobs'[j].status = "ABSENT"
    BY <1>2, CancelledJobsType DEF CancelOrderAndJob
  <2> QED
    BY <2>1, <2>2
<1>3. ASSUME NEW o \in OrderID, NEW r \in Route \cup {Nil}, AdminUpdateOrder(o, r)
      PROVE  TypeOK'
  BY <1>3, OrderRows DEF AdminUpdateOrder
<1>4. ASSUME NEW d \in DroneID, NEW j \in JobID, ReserveJobAndAssign(j, d)
      PROVE  TypeOK'
  <2>1. jobs[j].order \in OrderID
    BY <1>4 DEF ReserveJobAndAssign, CanReserve, CanReserveJob
  <2>2. orders' \in [OrderID -> OrderRow]
    BY <1>4, <2>1, OrderRows DEF ReserveJobAndAssign
  <2>3. drones' \in [DroneID -> DroneRow]
    BY <1>4, <2>1, DroneRows DEF ReserveJobAndAssign
  <2>4. /\ jobs' \in [JobID -> JobRow]
        /\ \A i \in JobID : jobs'[i].order = Nil <=> jobs'[i].status = "ABSENT"
    <3>1. jobs' = [jobs EXCEPT ![j] = ReserveJob(jobs[j], d)]
      BY <1>4 DEF ReserveJobAndAssign
    <3>2. /\ ReserveJob(jobs[j], d) \in JobRow /\ ReserveJob(jobs[j], d).status = "RESERVED"
          /\ ReserveJob(jobs[j], d).order = jobs[j].order
      <4>1. jobs[j] \in JobRow
        OBVIOUS
      <4> HIDE Fields, NilAssumption DEF TypeOK
      <4> QED
        BY <4>1, JobRows
    <3> QED
      BY <2>1, <3>1, <3>2
  <2> QED
    BY <2>2, <2>3, <2>4
<1>5. ASSUME NEW d \in DroneID, NEW o \in OrderID, GrabOrder(o, d)
      PROVE  TypeOK'
  BY <1>5, OrderRows, DroneRows DEF GrabOrder
<1>6. ASSUME NEW d \in DroneID, NEW o \in OrderID,
             NEW outcome \in {"DELIVERED", "FAILED"}, CompleteDelivery(o, d, outcome)
      PROVE  TypeOK'
  BY <1>6, OrderRows, DroneRows, JobRows DEF CompleteDelivery, CanCompleteJob
<1>7. ASSUME NEW d \in DroneID, BreakFree(d) PROVE TypeOK'
  BY <1>7, DroneRows DEF BreakFree
<1>8. ASSUME NEW d \in DroneID, NEW new \in JobID, BreakCarrying(d, new)
      PROVE  TypeOK'
  <2>1. drones[d].order \in OrderID
    BY <1>8 DEF BreakCarrying
  <2>2. orders' \in [OrderID -> OrderRow]
    BY <1>8, <2>1, OrderRows DEF BreakCarrying
  <2>3. drones' \in [DroneID -> DroneRow]
    BY <1>8, DroneRows DEF BreakCarrying
  <2>4. /\ jobs' \in [JobID -> JobRow]
        /\ \A i \in JobID : jobs'[i].order = Nil <=> jobs'[i].status = "ABSENT"
    BY <1>8, <2>1, CancelledJobsType, NewRows DEF BreakCarrying
  <2> QED
    BY <2>2, <2>3, <2>4
<1>9. ASSUME NEW d \in DroneID, MarkDroneFixed(d) PROVE TypeOK'
  BY <1>9, DroneRows DEF MarkDroneFixed
<1>10. ASSUME NEW d \in DroneID, Heartbeat(d) PROVE TypeOK'
  BY <1>10, NewRows DEF Heartbeat
<1>11. CASE UNCHANGED vars
  BY <1>11 DEF vars
<1> QED
  BY <1>1, <1>2, <1>3, <1>4, <1>5, <1>6, <1>7, <1>8, <1>9, <1>10, <1>11
     DEF Next, HandleDroneBroken

(* The tables always hold well-formed rows. *)
THEOREM TypeCorrect == Spec => []TypeOK
BY TypeInit, TypeStep, PTL DEF Spec

-----------------------------------------------------------------------------
(* The three tables agree.  Linked is about drones and the orders they     *)
(* hold, Offered about orders and their jobs.  Neither half is inductive   *)
(* without the other: a reservation moves a drone because of a job, and a  *)
(* breakdown offers a new job because of a drone.                          *)

Linked  == Mirror /\ DroneFollowsOrder /\ CarrierBound
Offered == OneLiveJob /\ JobFollowsOrder /\ OrderHasJob
IInv    == TypeOK /\ Linked /\ Offered

(* Empty tables agree, whichever drones are registered. *)
LEMMA InitIInv == Init => IInv
<1> SUFFICES ASSUME Init PROVE IInv
  OBVIOUS
<1>1. TypeOK
  BY TypeInit
<1>2. Linked
  BY NewRows, NilAssumption
     DEF Init, Linked, Mirror, DroneFollowsOrder, CarrierBound
<1>3. Offered
  BY NewRows DEF Init, Offered, OneLiveJob, JobFollowsOrder, OrderHasJob
<1> QED
  BY <1>1, <1>2, <1>3 DEF IInv

(* What the invariant says of the rows a request meets. *)
LEMMA Facts ==
  ASSUME IInv
  PROVE  /\ \A o \in OrderID : orders[o].status \notin {"ASSIGNED", "PICKED_UP", "CANCELLED"}
                               => orders[o].drone = Nil
         /\ \A d \in DroneID : drones[d].status \notin {"EN_ROUTE_PICKUP", "EN_ROUTE_DELIVERY"}
                               => drones[d].order = Nil
<1>1. ASSUME NEW o \in OrderID,
             orders[o].status \notin {"ASSIGNED", "PICKED_UP", "CANCELLED"},
             orders[o].drone # Nil
      PROVE  FALSE
  <2>1. PICK d \in DroneID : orders[o].drone = d
    BY <1>1, Fields DEF IInv
  <2>2. drones[d].order = o
    BY <2>1 DEF IInv, Linked, Mirror
  <2> QED
    BY <1>1, <2>2, NilAssumption DEF IInv, Linked, DroneFollowsOrder
<1>2. ASSUME NEW d \in DroneID,
             drones[d].status \notin {"EN_ROUTE_PICKUP", "EN_ROUTE_DELIVERY"},
             drones[d].order # Nil
      PROVE  FALSE
  BY <1>2 DEF IInv, Linked, DroneFollowsOrder
<1> QED
  BY <1>1, <1>2

(* ReserveJobAndAssign binds order, drone and job to each other. *)
LEMMA ReserveStep ==
  ASSUME IInv, NEW j \in JobID, NEW d \in DroneID, ReserveJobAndAssign(j, d)
  PROVE  Linked' /\ Offered'
<1> DEFINE o == jobs[j].order
<1>0. TypeOK
  BY DEF IInv
<1>1. /\ o \in OrderID
      /\ jobs[j].status = "OPEN"
      /\ orders[o].status \in {"PENDING", "AWAITING_HANDOFF"} /\ orders[o].drone = Nil
      /\ drones[d].status = "IDLE" /\ drones[d].order = Nil
  BY Facts DEF IInv, TypeOK, JobRow, ReserveJobAndAssign, CanReserve, CanReserveJob, CanAssign,
               CanReserveDrone
<1>2. /\ orders'[o].status = "ASSIGNED" /\ orders'[o].drone = d
      /\ \A x \in OrderID : x # o => orders'[x] = orders[x]
  <2>1. orders' = [orders EXCEPT ![o] = Assign(orders[o], d)]
    BY DEF ReserveJobAndAssign
  <2>2. Assign(orders[o], d).status = "ASSIGNED" /\ Assign(orders[o], d).drone = d
    BY <1>0, <1>1, OrderRows, Fields
  <2> QED
    BY <1>0, <1>1, <2>1, <2>2, Domains
<1>3. /\ drones'[d].status = "EN_ROUTE_PICKUP" /\ drones'[d].order = o
      /\ \A x \in DroneID : x # d => drones'[x] = drones[x]
  <2>1. drones' = [drones EXCEPT ![d] = ReserveDrone(drones[d], o)]
    BY DEF ReserveJobAndAssign
  <2> QED
    BY <1>0, <1>1, <2>1, DroneRows, Fields, Domains
<1>4. /\ jobs'[j].status = "RESERVED" /\ jobs'[j].drone = d /\ jobs'[j].order = o
      /\ \A x \in JobID : x # j => jobs'[x] = jobs[x]
  <2>1. jobs' = [jobs EXCEPT ![j] = ReserveJob(jobs[j], d)]
    BY DEF ReserveJobAndAssign
  <2> QED
    BY <1>0, <1>1, <2>1, JobRows, Fields, Domains
<1> HIDE DEF o
<1> USE NilAssumption
<1>5. Mirror'
  BY <1>1, <1>2, <1>3, Fields DEF IInv, Linked, Mirror
<1>6. DroneFollowsOrder'
  BY <1>1, <1>2, <1>3, Fields DEF IInv, Linked, DroneFollowsOrder, Mirror
<1>7. CarrierBound'
  BY <1>1, <1>2, <1>3 DEF IInv, Linked, CarrierBound
<1>8. OneLiveJob'
  BY <1>1, <1>4 DEF o, IInv, Offered, OneLiveJob
<1>9. JobFollowsOrder'
  <2> SUFFICES ASSUME NEW i \in JobID PROVE JobFollowsOrder!(i)'
    BY DEF JobFollowsOrder
  <2>1. CASE i = j
    BY <1>1, <1>2, <1>4, <2>1
  <2>2. CASE i # j /\ jobs[i].order = o
    BY <1>0, <1>1, <1>4, <2>2, Fields DEF o, IInv, Offered, OneLiveJob, JobFollowsOrder
  <2>3. CASE i # j /\ jobs[i].order # o
    BY <1>0, <1>1, <1>2, <1>4, <2>3, Fields DEF IInv, TypeOK, Offered, JobFollowsOrder
  <2> QED
    BY <2>1, <2>2, <2>3
<1>10. OrderHasJob'
  BY <1>1, <1>2, <1>4 DEF o, IInv, Offered, OrderHasJob, IsJobOf
<1> QED
  BY <1>5, <1>6, <1>7, <1>8, <1>9, <1>10 DEF Linked, Offered

(* CreateOrderAndJob adds an order with its only job. *)
LEMMA CreateStep ==
  ASSUME IInv, NEW r \in Route, NEW o \in OrderID, NEW j \in JobID,
         CreateOrderAndJob(r, o, j)
  PROVE  Linked' /\ Offered'
<1>0. TypeOK
  BY DEF IInv
<1>1. /\ orders[o].status = "ABSENT" /\ orders[o].drone = Nil
      /\ jobs[j].status = "ABSENT"
      /\ drones' = drones
  BY Facts DEF CreateOrderAndJob
<1>2. /\ orders'[o].status = "PENDING" /\ orders'[o].drone = Nil
      /\ \A x \in OrderID : x # o => orders'[x] = orders[x]
  BY <1>0, NewRows, Domains DEF CreateOrderAndJob
<1>3. /\ jobs'[j].status = "OPEN" /\ jobs'[j].order = o
      /\ \A x \in JobID : x # j => jobs'[x] = jobs[x]
  BY <1>0, NewRows, Domains DEF CreateOrderAndJob
<1> USE NilAssumption
<1>4. Mirror'
  BY <1>1, <1>2 DEF IInv, Linked, Mirror
<1>5. DroneFollowsOrder'
  BY <1>0, <1>1, <1>2, Fields DEF IInv, Linked, DroneFollowsOrder, Mirror
<1>6. CarrierBound'
  BY <1>1, <1>2 DEF IInv, Linked, CarrierBound
<1>7. \A i \in JobID : jobs[i].order = o => jobs[i].status \in {"ABSENT", "CANCELLED"}
  BY <1>0, <1>1, Fields DEF IInv, Offered, JobFollowsOrder, JobRow, JobStatus
<1>8. OneLiveJob'
  BY <1>1, <1>3, <1>7 DEF IInv, Offered, OneLiveJob
<1>9. JobFollowsOrder'
  <2> SUFFICES ASSUME NEW i \in JobID PROVE JobFollowsOrder!(i)'
    BY DEF JobFollowsOrder
  <2>1. CASE i = j
    BY <1>1, <1>2, <1>3, <2>1
  <2>2. CASE i # j /\ jobs[i].order = o
    BY <1>3, <1>7, <2>2
  <2>3. CASE i # j /\ jobs[i].order # o
    BY <1>0, <1>2, <1>3, <2>3, Fields DEF IInv, TypeOK, Offered, JobFollowsOrder
  <2> QED
    BY <2>1, <2>2, <2>3
<1>10. OrderHasJob'
  <2> SUFFICES ASSUME NEW p \in OrderID, orders'[p].status \notin {"ABSENT", "CANCELLED"}
               PROVE  \E i \in JobID : IsJobOf(jobs'[i], p)
    BY DEF OrderHasJob
  <2>1. CASE p = o
    BY <1>3, <2>1 DEF IsJobOf
  <2>2. CASE p # o
    <3>1. PICK i \in JobID : jobs[i].order = p /\ jobs[i].status # "CANCELLED"
      BY <1>2, <2>2 DEF IInv, Offered, OrderHasJob, IsJobOf
    <3>2. i # j
      BY <1>0, <1>1, <3>1 DEF TypeOK
    <3> QED
      BY <1>3, <3>1, <3>2 DEF IsJobOf
  <2> QED
    BY <2>1, <2>2
<1> QED
  BY <1>4, <1>5, <1>6, <1>8, <1>9, <1>10 DEF Linked, Offered

(* CancelOrderAndJob closes the job with the order, and leaves the drone.   *)
LEMMA CancelStep ==
  ASSUME IInv, NEW o \in OrderID, CancelOrderAndJob(o)
  PROVE  Linked' /\ Offered'
<1>0. TypeOK
  BY DEF IInv
<1>1. drones' = drones
  BY DEF CancelOrderAndJob
<1>2. /\ orders'[o].status = "CANCELLED" /\ orders'[o].drone = orders[o].drone
      /\ \A x \in OrderID : x # o => orders'[x] = orders[x]
  <2>1. orders' = [orders EXCEPT ![o] = CancelOrder(orders[o])]
    BY DEF CancelOrderAndJob
  <2>2. /\ CancelOrder(orders[o]).status = "CANCELLED"
        /\ CancelOrder(orders[o]).drone = orders[o].drone
    BY <1>0, OrderRows, Fields
  <2> QED
    BY <1>0, <2>1, <2>2, Domains
<1>3. \A i \in JobID : IsJobOf(jobs[i], o) => CanCancelJob(jobs[i], o)
  <2>1. PICK j \in JobID : CanCancelJob(jobs[j], o)
    BY DEF CancelOrderAndJob
  <2>2. jobs[j].status \in {"OPEN", "RESERVED"} /\ jobs[j].order = o
    BY <1>0, <2>1, NilAssumption DEF TypeOK, CanCancelJob, JobRow, JobStatus
  <2> QED
    BY <2>2 DEF IInv, Offered, JobFollowsOrder, IsJobOf, CanCancelJob
<1>4. \A i \in JobID : /\ jobs'[i].order = jobs[i].order
                       /\ jobs[i].order = o => jobs'[i].status = "CANCELLED"
                       /\ jobs[i].order # o => jobs'[i] = jobs[i]
  <2>1. jobs' = CancelByOrderID(jobs, o) /\ jobs \in [JobID -> JobRow]
    BY <1>0 DEF CancelOrderAndJob, TypeOK
  <2>2. ASSUME NEW i \in JobID, jobs[i].order = o PROVE jobs'[i].status = "CANCELLED"
    BY <1>3, <2>1, <2>2, CancelledJobs DEF IsJobOf
  <2>3. ASSUME NEW i \in JobID, jobs[i].order # o PROVE jobs'[i] = jobs[i]
    BY <2>1, <2>3, CancelledJobs DEF CanCancelJob
  <2> QED
    BY <2>1, <2>2, <2>3, CancelledJobs
<1> USE NilAssumption
<1>5. Mirror'
  BY <1>1, <1>2 DEF IInv, Linked, Mirror
<1>6. DroneFollowsOrder'
  BY <1>0, <1>1, <1>2, Fields DEF IInv, Linked, DroneFollowsOrder
<1>7. CarrierBound'
  BY <1>1, <1>2 DEF IInv, Linked, CarrierBound
<1>8. OneLiveJob'
  BY <1>4 DEF IInv, Offered, OneLiveJob
<1>9. JobFollowsOrder'
  <2> SUFFICES ASSUME NEW i \in JobID PROVE JobFollowsOrder!(i)'
    BY DEF JobFollowsOrder
  <2>1. CASE jobs[i].order = o
    BY <1>4, <2>1
  <2>2. CASE jobs[i].order # o
    BY <1>0, <1>2, <1>4, <2>2, Fields DEF IInv, TypeOK, Offered, JobFollowsOrder
  <2> QED
    BY <2>1, <2>2
<1>10. OrderHasJob'
  BY <1>2, <1>4 DEF IInv, Offered, OrderHasJob, IsJobOf
<1> QED
  BY <1>5, <1>6, <1>7, <1>8, <1>9, <1>10 DEF Linked, Offered

(* AdminUpdateOrder changes no status and no drone. *)
LEMMA AdminUpdateStep ==
  ASSUME IInv, NEW o \in OrderID, NEW r \in Route \cup {Nil}, AdminUpdateOrder(o, r)
  PROVE  Linked' /\ Offered'
<1>0. TypeOK
  BY DEF IInv
<1>1. drones' = drones /\ jobs' = jobs
  BY DEF AdminUpdateOrder
<1>2. \A x \in OrderID : /\ orders'[x].status = orders[x].status
                         /\ orders'[x].drone = orders[x].drone
  <2>1. orders' = [orders EXCEPT ![o] = Reroute(orders[o], r)]
    BY DEF AdminUpdateOrder
  <2>2. /\ Reroute(orders[o], r).status = orders[o].status
        /\ Reroute(orders[o], r).drone = orders[o].drone
    BY <1>0, OrderRows, Fields
  <2> QED
    BY <1>0, <2>1, <2>2, Domains
<1>3. Linked'
  BY <1>0, <1>1, <1>2, Fields
     DEF IInv, Linked, Mirror, DroneFollowsOrder, CarrierBound
<1>4. OneLiveJob'
  BY <1>1 DEF IInv, Offered, OneLiveJob
<1>5. JobFollowsOrder'
  <2>1. ASSUME NEW i \in JobID PROVE JobFollowsOrder!(i)'
    <3>1. CASE jobs[i].status = "ABSENT"
      BY <1>1, <3>1
    <3>2. CASE jobs[i].status # "ABSENT"
      BY <1>0, <1>1, <1>2, <3>2, Fields DEF IInv, TypeOK, Offered, JobFollowsOrder
    <3> QED
      BY <3>1, <3>2
  <2> QED
    BY <2>1 DEF JobFollowsOrder
<1>6. OrderHasJob'
  BY <1>1, <1>2 DEF IInv, Offered, OrderHasJob
<1> QED
  BY <1>3, <1>4, <1>5, <1>6 DEF Offered

(* GrabOrder moves the order and its drone on together. *)
LEMMA GrabStep ==
  ASSUME IInv, NEW o \in OrderID, NEW d \in DroneID, GrabOrder(o, d)
  PROVE  Linked' /\ Offered'
<1>0. TypeOK
  BY DEF IInv
<1>1. /\ orders[o].status = "ASSIGNED" /\ orders[o].drone = d
      /\ drones[d].order = o
      /\ jobs' = jobs
  BY DEF IInv, Linked, Mirror, GrabOrder, CanPickUp
<1>2. /\ orders'[o].status = "PICKED_UP" /\ orders'[o].drone = d
      /\ \A x \in OrderID : x # o => orders'[x] = orders[x]
  <2>1. orders' = [orders EXCEPT ![o] = MarkPickedUp(orders[o])]
    BY DEF GrabOrder
  <2>2. /\ MarkPickedUp(orders[o]).status = "PICKED_UP"
        /\ MarkPickedUp(orders[o]).drone = orders[o].drone
    BY <1>0, OrderRows, Fields
  <2> QED
    BY <1>0, <1>1, <2>1, <2>2, Domains
<1>3. /\ drones'[d].status = "EN_ROUTE_DELIVERY" /\ drones'[d].order = o
      /\ \A x \in DroneID : x # d => drones'[x] = drones[x]
  BY <1>0, <1>1, DroneRows, Fields, Domains DEF GrabOrder
<1> USE NilAssumption
<1>4. Mirror'
  BY <1>1, <1>2, <1>3 DEF IInv, Linked, Mirror
<1>5. DroneFollowsOrder'
  BY <1>0, <1>1, <1>2, <1>3, Fields DEF IInv, Linked, DroneFollowsOrder, Mirror
<1>6. CarrierBound'
  BY <1>1, <1>2, <1>3 DEF IInv, Linked, CarrierBound
<1>7. OneLiveJob'
  BY <1>1 DEF IInv, Offered, OneLiveJob
<1>8. JobFollowsOrder'
  <2>1. ASSUME NEW i \in JobID PROVE JobFollowsOrder!(i)'
    <3>1. CASE jobs[i].order = o
      BY <1>1, <1>2, <3>1 DEF IInv, Offered, JobFollowsOrder
    <3>2. CASE jobs[i].order # o
      BY <1>0, <1>1, <1>2, <3>2, Fields DEF IInv, TypeOK, Offered, JobFollowsOrder
    <3> QED
      BY <3>1, <3>2
  <2> QED
    BY <2>1 DEF JobFollowsOrder
<1>9. OrderHasJob'
  BY <1>1, <1>2 DEF IInv, Offered, OrderHasJob
<1> QED
  BY <1>4, <1>5, <1>6, <1>7, <1>8, <1>9 DEF Linked, Offered

(* CompleteDelivery lets go of the drone and closes the one live job.       *)
LEMMA CompleteStep ==
  ASSUME IInv, NEW o \in OrderID, NEW d \in DroneID,
         NEW outcome \in {"DELIVERED", "FAILED"}, CompleteDelivery(o, d, outcome)
  PROVE  Linked' /\ Offered'
<1>0. TypeOK
  BY DEF IInv
<1>1. orders[o].status = "PICKED_UP" /\ orders[o].drone = d /\ drones[d].order = o
  BY DEF IInv, Linked, Mirror, CompleteDelivery, CanFinish
<1>2. /\ orders'[o].status = outcome /\ orders'[o].drone = Nil
      /\ \A x \in OrderID : x # o => orders'[x] = orders[x]
  <2>1. orders' = [orders EXCEPT ![o] = MarkFinished(orders[o], outcome)]
    BY DEF CompleteDelivery
  <2>2. /\ MarkFinished(orders[o], outcome).status = outcome
        /\ MarkFinished(orders[o], outcome).drone = Nil
    BY <1>0, OrderRows, Fields
  <2> QED
    BY <1>0, <2>1, <2>2, Domains
<1>3. /\ drones'[d].status = "IDLE" /\ drones'[d].order = Nil
      /\ \A x \in DroneID : x # d => drones'[x] = drones[x]
  BY <1>0, DroneRows, Fields, Domains DEF CompleteDelivery
<1>4. PICK j \in JobID : /\ IsJobOf(jobs[j], o) /\ jobs[j].status = "RESERVED"
                        /\ jobs' = [jobs EXCEPT ![j] = CompleteJob(jobs[j])]
  BY DEF CompleteDelivery, CanCompleteJob
<1>5. /\ jobs[j].order = o
      /\ jobs'[j].status = "COMPLETED" /\ jobs'[j].order = o
      /\ \A x \in JobID : x # j => jobs'[x] = jobs[x]
  BY <1>0, <1>4, JobRows, Fields, Domains DEF IsJobOf
<1> USE NilAssumption
<1>6. Mirror'
  BY <1>1, <1>2, <1>3 DEF IInv, Linked, Mirror
<1>7. DroneFollowsOrder'
  BY <1>0, <1>1, <1>2, <1>3, Fields DEF IInv, Linked, DroneFollowsOrder, Mirror
<1>8. CarrierBound'
  BY <1>1, <1>2, <1>3 DEF IInv, Linked, CarrierBound
<1>9. OneLiveJob'
  BY <1>4, <1>5 DEF IInv, Offered, OneLiveJob
<1>10. JobFollowsOrder'
  <2> SUFFICES ASSUME NEW i \in JobID PROVE JobFollowsOrder!(i)'
    BY DEF JobFollowsOrder
  <2>1. CASE i = j
    BY <1>2, <1>5, <2>1
  <2>2. CASE i # j /\ jobs[i].order = o
    <3>1. jobs[i].status \in {"ABSENT", "CANCELLED"}
      BY <1>4, <1>5, <2>2 DEF IInv, Offered, OneLiveJob
    <3> QED
      BY <1>5, <2>2, <3>1
  <2>3. CASE i # j /\ jobs[i].order # o
    BY <1>0, <1>2, <1>5, <2>3, Fields DEF IInv, TypeOK, Offered, JobFollowsOrder
  <2> QED
    BY <2>1, <2>2, <2>3
<1>11. OrderHasJob'
  <2> SUFFICES ASSUME NEW p \in OrderID, orders'[p].status \notin {"ABSENT", "CANCELLED"}
               PROVE  \E i \in JobID : IsJobOf(jobs'[i], p)
    BY DEF OrderHasJob
  <2>1. CASE p = o
    BY <1>5, <2>1 DEF IsJobOf
  <2>2. CASE p # o
    BY <1>2, <1>5, <2>2 DEF IInv, Offered, OrderHasJob, IsJobOf
  <2> QED
    BY <2>1, <2>2
<1> QED
  BY <1>6, <1>7, <1>8, <1>9, <1>10, <1>11 DEF Linked, Offered

(* A drone without an order changes its status, and nothing else changes:  *)
(* the common part of BreakFree, MarkDroneFixed and Heartbeat.             *)
LEMMA FreeDroneStep ==
  ASSUME IInv, NEW d \in DroneID,
         orders' = orders, jobs' = jobs,
         drones[d].order = Nil, drones'[d].order = Nil,
         drones'[d].status \notin {"EN_ROUTE_PICKUP", "EN_ROUTE_DELIVERY"},
         \A x \in DroneID : x # d => drones'[x] = drones[x]
  PROVE  Linked' /\ Offered'
<1> USE NilAssumption
<1>1. Linked'
  <2>1. Mirror'
    BY DEF IInv, Linked, Mirror
  <2>2. DroneFollowsOrder'
    BY DEF IInv, Linked, DroneFollowsOrder
  <2>3. CarrierBound'
    BY DEF IInv, Linked, CarrierBound
  <2> QED
    BY <2>1, <2>2, <2>3 DEF Linked
<1>2. Offered'
  BY DEF IInv, Offered, OneLiveJob, JobFollowsOrder, OrderHasJob
<1> QED
  BY <1>1, <1>2

(* The breakdown of a drone without an order. *)
LEMMA BreakFreeStep ==
  ASSUME IInv, NEW d \in DroneID, BreakFree(d)
  PROVE  Linked' /\ Offered'
<1>1. drones'[d].order = Nil /\ drones'[d].status = "BROKEN"
  BY DroneRows, Fields, Domains DEF IInv, BreakFree
<1> QED
  BY <1>1, FreeDroneStep DEF BreakFree

(* MarkDroneFixed finds no order on a broken drone. *)
LEMMA FixedStep ==
  ASSUME IInv, NEW d \in DroneID, MarkDroneFixed(d)
  PROVE  Linked' /\ Offered'
<1>1. drones'[d].order = Nil /\ drones'[d].status = "IDLE"
  BY DroneRows, Fields, Domains DEF IInv, MarkDroneFixed
<1>2. drones[d].order = Nil
  BY Facts DEF MarkDroneFixed, CanFix
<1> QED
  BY <1>1, <1>2, FreeDroneStep DEF MarkDroneFixed

(* Heartbeat adds a drone without an order, or nothing. *)
LEMMA HeartbeatStep ==
  ASSUME IInv, NEW d \in DroneID, Heartbeat(d)
  PROVE  Linked' /\ Offered'
<1>0. TypeOK
  BY DEF IInv
<1>1. CASE drones[d].status = "ABSENT"
  <2>1. drones'[d] = NewDrone
    BY <1>0, <1>1, Domains DEF Heartbeat
  <2>2. drones[d].order = Nil
    BY <1>1, Facts
  <2> QED
    BY <2>1, <2>2, NewRows, FreeDroneStep DEF Heartbeat
<1>2. CASE drones[d].status # "ABSENT"
  <2>1. UNCHANGED vars
    BY <1>0, <1>2 DEF Heartbeat, TypeOK, vars
  <2> QED
    BY <2>1 DEF vars, IInv, Linked, Offered, Mirror, DroneFollowsOrder, CarrierBound,
                OneLiveJob, JobFollowsOrder, OrderHasJob
<1> QED
  BY <1>1, <1>2

(* The breakdown of a drone with an order swaps its job for a new one.      *)
LEMMA BreakCarryingStep ==
  ASSUME IInv, NEW d \in DroneID, NEW new \in JobID, BreakCarrying(d, new)
  PROVE  Linked' /\ Offered'
<1> DEFINE o == drones[d].order
<1>0. TypeOK
  BY DEF IInv
<1>1. /\ o \in OrderID
      /\ orders[o].status \in {"ASSIGNED", "PICKED_UP"} /\ orders[o].drone = d
      /\ jobs[new].status = "ABSENT" /\ jobs[new].order = Nil
  BY <1>0, Fields DEF IInv, TypeOK, Linked, Mirror, BreakCarrying, CanHandleBroken, CanAwaitHandoff
<1>2. /\ orders'[o].status = "AWAITING_HANDOFF" /\ orders'[o].drone = Nil
      /\ \A x \in OrderID : x # o => orders'[x] = orders[x]
  <2>1. orders' = [orders EXCEPT ![o] = AwaitHandoff(orders[o])]
    BY DEF BreakCarrying
  <2>2. /\ AwaitHandoff(orders[o]).status = "AWAITING_HANDOFF"
        /\ AwaitHandoff(orders[o]).drone = Nil
    BY <1>0, <1>1, OrderRows, Fields
  <2> QED
    BY <1>0, <1>1, <2>1, <2>2, Domains
<1>3. /\ drones'[d].status = "BROKEN" /\ drones'[d].order = Nil
      /\ \A x \in DroneID : x # d => drones'[x] = drones[x]
  BY <1>0, DroneRows, Fields, Domains DEF BreakCarrying
<1>4. /\ jobs'[new].status = "OPEN" /\ jobs'[new].order = o
      /\ \A x \in JobID : x # new =>
           /\ jobs'[x].order = jobs[x].order
           /\ jobs[x].order = o => jobs'[x].status = "CANCELLED"
           /\ jobs[x].order # o => jobs'[x] = jobs[x]
  <2>1. /\ jobs' = [CancelByOrderID(jobs, o) EXCEPT ![new] = NewJob(o)]
        /\ jobs \in [JobID -> JobRow]
    BY <1>0 DEF BreakCarrying, TypeOK
  <2>2. jobs'[new].status = "OPEN" /\ jobs'[new].order = o
    BY <1>1, <2>1, NewRows, CancelledJobs
  <2>3. \A x \in JobID : x # new => jobs'[x] = CancelByOrderID(jobs, o)[x]
    BY <1>1, <2>1, CancelledJobs
  <2>4. ASSUME NEW x \in JobID, jobs[x].order = o, jobs[x].status # "CANCELLED"
        PROVE  CanCancelJob(jobs[x], o)
    BY <1>1, <2>4 DEF IInv, Offered, JobFollowsOrder, CanCancelJob
  <2>5. ASSUME NEW x \in JobID, x # new, jobs[x].order = o
        PROVE  jobs'[x].status = "CANCELLED"
    BY <1>1, <2>1, <2>3, <2>4, <2>5, CancelledJobs
  <2>6. ASSUME NEW x \in JobID, x # new, jobs[x].order # o
        PROVE  jobs'[x] = jobs[x]
    BY <1>1, <2>1, <2>3, <2>6, CancelledJobs DEF CanCancelJob
  <2> QED
    BY <1>1, <2>1, <2>2, <2>3, <2>5, <2>6, CancelledJobs
<1>5. drones[d].order = o
  OBVIOUS
<1> HIDE DEF o
<1> USE NilAssumption
<1>6. Mirror'
  BY <1>1, <1>2, <1>3, <1>5 DEF IInv, Linked, Mirror
<1>7. DroneFollowsOrder'
  BY <1>0, <1>1, <1>2, <1>3, Fields DEF IInv, Linked, DroneFollowsOrder, Mirror
<1>8. CarrierBound'
  BY <1>1, <1>2, <1>3 DEF IInv, Linked, CarrierBound
<1>9. OneLiveJob'
  BY <1>4 DEF IInv, Offered, OneLiveJob
<1>10. JobFollowsOrder'
  <2> SUFFICES ASSUME NEW i \in JobID PROVE JobFollowsOrder!(i)'
    BY DEF JobFollowsOrder
  <2>1. CASE i = new
    BY <1>2, <1>4, <2>1
  <2>2. CASE i # new /\ jobs[i].order = o
    BY <1>4, <2>2
  <2>3. CASE i # new /\ jobs[i].order # o
    BY <1>0, <1>2, <1>4, <2>3, Fields DEF IInv, TypeOK, Offered, JobFollowsOrder
  <2> QED
    BY <2>1, <2>2, <2>3
<1>11. OrderHasJob'
  <2> SUFFICES ASSUME NEW p \in OrderID, orders'[p].status \notin {"ABSENT", "CANCELLED"}
               PROVE  \E i \in JobID : IsJobOf(jobs'[i], p)
    BY DEF OrderHasJob
  <2>1. CASE p = o
    BY <1>4, <2>1 DEF IsJobOf
  <2>2. CASE p # o
    BY <1>1, <1>2, <1>4, <2>2 DEF IInv, Offered, OrderHasJob, IsJobOf
  <2> QED
    BY <2>1, <2>2
<1> QED
  BY <1>6, <1>7, <1>8, <1>9, <1>10, <1>11 DEF Linked, Offered

(* Every request keeps the tables in agreement. *)
LEMMA StepIInv == IInv /\ [Next]_vars => IInv'
<1> SUFFICES ASSUME IInv, [Next]_vars PROVE Linked' /\ Offered'
  BY TypeStep DEF IInv
<1>1. CASE UNCHANGED vars
  BY <1>1 DEF vars, IInv, Linked, Offered, Mirror, DroneFollowsOrder, CarrierBound,
              OneLiveJob, JobFollowsOrder, OrderHasJob
<1>2. CASE Next
  BY <1>2, CreateStep, CancelStep, AdminUpdateStep, ReserveStep, GrabStep, CompleteStep,
     BreakFreeStep, BreakCarryingStep, FixedStep, HeartbeatStep
     DEF Next, HandleDroneBroken
<1> QED
  BY <1>1, <1>2

(* In every state the service can reach the three tables agree.            *)
THEOREM Consistent == Spec => []IInv
BY InitIInv, StepIInv, PTL DEF Spec

(* The drone an order names and the order a drone names are always the     *)
(* same pair, so no drone ever has two orders and no order two drones.     *)
THEOREM AlwaysMirrored == Spec => []Mirror
<1>1. IInv => Mirror
  BY DEF IInv, Linked
<1> QED
  BY <1>1, Consistent, PTL

(* An order is never on offer twice, or on offer and under way.            *)
THEOREM NeverOfferedTwice == Spec => []OneLiveJob
<1>1. IInv => OneLiveJob
  BY DEF IInv, Offered
<1> QED
  BY <1>1, Consistent, PTL

(* A job is exactly as far as its order, and reserved by its drone.        *)
THEOREM JobsFollowOrders == Spec => []JobFollowsOrder
<1>1. IInv => JobFollowsOrder
  BY DEF IInv, Offered
<1> QED
  BY <1>1, Consistent, PTL

(* No order that is not withdrawn is ever left without a job.              *)
THEOREM NeverOrphaned == Spec => []OrderHasJob
<1>1. IInv => OrderHasJob
  BY DEF IInv, Offered
<1> QED
  BY <1>1, Consistent, PTL

(* The status of a drone and that of the order it holds always match. *)
THEOREM DronesFollowOrders == Spec => []DroneFollowsOrder
<1>1. IInv => DroneFollowsOrder
  BY DEF IInv, Linked
<1> QED
  BY <1>1, Consistent, PTL

(* An order on its way always has a drone, a drone on its way an order. *)
THEOREM NeverLost == Spec => []CarrierBound
<1>1. IInv => CarrierBound
  BY DEF IInv, Linked
<1> QED
  BY <1>1, Consistent, PTL

-----------------------------------------------------------------------------
(* Action properties. *)

(* The withdrawal of a finished order is refused because of its job: the   *)
(* UPDATE of orders alone would accept it.                                 *)
LEMMA FinishedNotCancellable ==
  ASSUME IInv, NEW o \in OrderID, CancelOrderAndJob(o)
  PROVE  orders[o].status \notin {"DELIVERED", "FAILED", "CANCELLED"}
<1>1. PICK j \in JobID : CanCancelJob(jobs[j], o)
  BY DEF CancelOrderAndJob
<1>2. jobs[j].order = o /\ jobs[j].status \in {"OPEN", "RESERVED"}
  BY <1>1, NilAssumption DEF IInv, TypeOK, CanCancelJob, JobRow, JobStatus
<1> QED
  BY <1>2 DEF IInv, Offered, JobFollowsOrder, CancelOrderAndJob, CanCancelOrder

(* No request touches a finished order. *)
LEMMA FrozenStep ==
  ASSUME IInv, Next, NEW o \in OrderID,
         orders[o].status \in {"DELIVERED", "FAILED", "CANCELLED"}
  PROVE  /\ orders[o].status \in {"DELIVERED", "FAILED"} => orders'[o] = orders[o]
         /\ orders'[o].status = orders[o].status
         /\ orders'[o].drone = orders[o].drone
<1>0. TypeOK
  BY DEF IInv
<1> USE Domains
<1>1. ASSUME NEW r \in Route, NEW p \in OrderID, NEW j \in JobID,
             CreateOrderAndJob(r, p, j)
      PROVE  orders'[o] = orders[o]
  BY <1>0, <1>1 DEF CreateOrderAndJob
<1>2. ASSUME NEW p \in OrderID, CancelOrderAndJob(p) PROVE orders'[o] = orders[o]
  <2>1. p # o
    BY <1>2, FinishedNotCancellable
  <2> QED
    BY <1>0, <1>2, <2>1 DEF CancelOrderAndJob
<1>3. ASSUME NEW p \in OrderID, NEW r \in Route \cup {Nil}, AdminUpdateOrder(p, r)
      PROVE  /\ orders[o].status \in {"DELIVERED", "FAILED"} => orders'[o] = orders[o]
             /\ orders'[o].status = orders[o].status
             /\ orders'[o].drone = orders[o].drone
  <2>1. CASE p = o
    <3>1. orders'[o] = Reroute(orders[o], r)
      BY <1>0, <1>3, <2>1 DEF AdminUpdateOrder
    <3>2. orders[o].status \in {"DELIVERED", "FAILED"} => orders'[o] = orders[o]
      BY <1>3, <2>1, <3>1 DEF AdminUpdateOrder, CanReroute, IsTerminal, Reroute
    <3>3. /\ Reroute(orders[o], r).status = orders[o].status
          /\ Reroute(orders[o], r).drone = orders[o].drone
      BY <1>0, OrderRows, Fields
    <3> QED
      BY <3>1, <3>2, <3>3
  <2>2. CASE p # o
    BY <1>0, <1>3, <2>2 DEF AdminUpdateOrder
  <2> QED
    BY <2>1, <2>2
<1>4. ASSUME NEW d \in DroneID, NEW j \in JobID, ReserveJobAndAssign(j, d)
      PROVE  orders'[o] = orders[o]
  BY <1>0, <1>4 DEF ReserveJobAndAssign, CanReserve, CanAssign
<1>5. ASSUME NEW d \in DroneID, NEW p \in OrderID, GrabOrder(p, d)
      PROVE  orders'[o] = orders[o]
  BY <1>0, <1>5 DEF GrabOrder, CanPickUp
<1>6. ASSUME NEW d \in DroneID, NEW p \in OrderID,
             NEW outcome \in {"DELIVERED", "FAILED"}, CompleteDelivery(p, d, outcome)
      PROVE  orders'[o] = orders[o]
  BY <1>0, <1>6 DEF CompleteDelivery, CanFinish
<1>7. ASSUME NEW d \in DroneID, HandleDroneBroken(d) PROVE orders'[o] = orders[o]
  BY <1>0, <1>7 DEF HandleDroneBroken, BreakFree, BreakCarrying, CanHandleBroken, CanAwaitHandoff
<1>8. ASSUME NEW d \in DroneID, MarkDroneFixed(d) \/ Heartbeat(d)
      PROVE  orders'[o] = orders[o]
  BY <1>8 DEF MarkDroneFixed, Heartbeat
<1> QED
  BY <1>1, <1>2, <1>3, <1>4, <1>5, <1>6, <1>7, <1>8 DEF Next

(* Nothing ever changes a delivered or failed order, and a withdrawn one   *)
(* keeps its status and the drone that holds it.                           *)
THEOREM FinishedStayFrozen == Spec => FinishedOrdersFrozen
<1> DEFINE A == \A o \in OrderID :
       /\ orders[o].status \in {"DELIVERED", "FAILED"} => orders'[o] = orders[o]
       /\ orders[o].status = "CANCELLED" =>
            /\ orders'[o].status = "CANCELLED"
            /\ orders'[o].drone = orders[o].drone
<1>1. IInv /\ [Next]_vars => [A]_vars
  BY FrozenStep
<1>2. Spec => [][A]_vars
  BY <1>1, Consistent, PTL DEF Spec
<1> QED
  BY <1>2 DEF FinishedOrdersFrozen

(* A drone that lets go of its order has finished it, or handed it back.   *)
LEMMA ReleaseStep ==
  ASSUME IInv, Next, NEW d \in DroneID,
         drones[d].order # Nil, drones'[d].order # drones[d].order
  PROVE  /\ drones'[d].order = Nil
         /\ orders'[drones[d].order].status \in {"DELIVERED", "FAILED", "AWAITING_HANDOFF"}
         /\ orders'[drones[d].order].drone = Nil
<1> DEFINE Released == /\ drones'[d].order = Nil
                       /\ orders'[drones[d].order].status
                            \in {"DELIVERED", "FAILED", "AWAITING_HANDOFF"}
                       /\ orders'[drones[d].order].drone = Nil
<1>0. TypeOK
  BY DEF IInv
<1>a. /\ drones[d].order \in OrderID
      /\ drones[d].status \in {"EN_ROUTE_PICKUP", "EN_ROUTE_DELIVERY"}
      /\ \A o \in OrderID : orders[o].drone = d <=> drones[d].order = o
  BY <1>0, Fields, Facts DEF IInv, Linked, Mirror
<1> USE Domains
<1>1. ASSUME NEW x \in DroneID, NEW j \in JobID, ReserveJobAndAssign(j, x) PROVE FALSE
  BY <1>0, <1>a, <1>1 DEF ReserveJobAndAssign, CanReserve, CanReserveDrone
<1>2. ASSUME NEW x \in DroneID, NEW o \in OrderID, GrabOrder(o, x) PROVE FALSE
  <2>1. StartDelivery(drones[d]).order = drones[d].order
    BY <1>0, DroneRows, Fields
  <2> QED
    BY <1>0, <1>2, <2>1 DEF GrabOrder
<1>3. ASSUME NEW x \in DroneID, NEW o \in OrderID,
             NEW outcome \in {"DELIVERED", "FAILED"}, CompleteDelivery(o, x, outcome)
      PROVE  Released
  <2>1. x = d
    BY <1>0, <1>3 DEF CompleteDelivery
  <2>2. o = drones[d].order
    BY <1>a, <1>3, <2>1 DEF CompleteDelivery
  <2>3. drones'[d] = GoIdle(drones[d]) /\ orders'[o] = MarkFinished(orders[o], outcome)
    BY <1>0, <1>3, <2>1 DEF CompleteDelivery
  <2> QED
    BY <1>0, <2>2, <2>3, OrderRows, DroneRows, Fields
<1>4. ASSUME NEW x \in DroneID, HandleDroneBroken(x) PROVE Released
  <2>1. x = d
    BY <1>0, <1>4 DEF HandleDroneBroken, BreakFree, BreakCarrying
  <2>2. PICK new \in JobID : BreakCarrying(d, new)
    BY <1>4, <2>1 DEF HandleDroneBroken, BreakFree
  <2>3. /\ drones'[d] = MarkBroken(drones[d])
        /\ orders'[drones[d].order] = AwaitHandoff(orders[drones[d].order])
    BY <1>0, <1>a, <2>2 DEF BreakCarrying
  <2> QED
    BY <1>0, <1>a, <2>3, OrderRows, DroneRows, Fields
<1>5. ASSUME NEW x \in DroneID, MarkDroneFixed(x) PROVE FALSE
  BY <1>0, <1>a, <1>5 DEF MarkDroneFixed, CanFix
<1>6. ASSUME NEW x \in DroneID, Heartbeat(x) PROVE FALSE
  BY <1>0, <1>a, <1>6 DEF Heartbeat
<1> QED
  BY <1>1, <1>2, <1>3, <1>4, <1>5, <1>6
     DEF Next, CreateOrderAndJob, CancelOrderAndJob, AdminUpdateOrder

(* A drone gets rid of an order only in the step that finishes the order   *)
(* or puts it up for another drone.                                        *)
THEOREM AlwaysReleasedTogether == Spec => ReleasedTogether
<1> DEFINE A == \A d \in DroneID :
       LET o == drones[d].order IN
       o # Nil /\ drones'[d].order # o =>
         /\ drones'[d].order = Nil
         /\ orders'[o].status \in {"DELIVERED", "FAILED", "AWAITING_HANDOFF"}
         /\ orders'[o].drone = Nil
<1>1. IInv /\ [Next]_vars => [A]_vars
  BY ReleaseStep
<1>2. Spec => [][A]_vars
  BY <1>1, Consistent, PTL DEF Spec
<1> QED
  BY <1>2 DEF ReleasedTogether

(* What a request may do to a job: closed jobs stay, and a reserved one is *)
(* completed for the drone that carries its order.                         *)
LEMMA CreditStep ==
  ASSUME IInv, Next, NEW j \in JobID
  PROVE  /\ jobs[j].status = "RESERVED" /\ jobs'[j].status = "COMPLETED" =>
              \E d \in DroneID :
                /\ jobs[j].drone = d
                /\ drones[d] = [status |-> "EN_ROUTE_DELIVERY", order |-> jobs[j].order]
         /\ jobs[j].status \in {"COMPLETED", "CANCELLED"} => jobs'[j] = jobs[j]
<1> DEFINE Credited == \E d \in DroneID :
                         /\ jobs[j].drone = d
                         /\ drones[d] = [status |-> "EN_ROUTE_DELIVERY", order |-> jobs[j].order]
           Good == /\ jobs[j].status = "RESERVED" /\ jobs'[j].status = "COMPLETED" => Credited
                   /\ jobs[j].status \in {"COMPLETED", "CANCELLED"} => jobs'[j] = jobs[j]
<1>0. TypeOK
  BY DEF IInv
<1> USE Domains
<1>1. ASSUME NEW r \in Route, NEW o \in OrderID, NEW i \in JobID,
             CreateOrderAndJob(r, o, i)
      PROVE  Good
  BY <1>0, <1>1, NewRows DEF CreateOrderAndJob
<1>2. ASSUME NEW o \in OrderID, CancelOrderAndJob(o) PROVE Good
  <2>1. jobs' = CancelByOrderID(jobs, o)
    BY <1>2 DEF CancelOrderAndJob
  <2>2. jobs[j].status \in {"COMPLETED", "CANCELLED"} => jobs'[j] = jobs[j]
    BY <1>0, <2>1, CancelledJobs DEF TypeOK, CanCancelJob
  <2>3. jobs'[j].status = "COMPLETED" => jobs'[j] = jobs[j]
    BY <1>0, <2>1, CancelledJobs DEF TypeOK
  <2> QED
    BY <2>2, <2>3
<1>3. ASSUME NEW x \in DroneID, NEW i \in JobID, ReserveJobAndAssign(i, x) PROVE Good
  <2>1. ReserveJob(jobs[i], x).status = "RESERVED" /\ jobs[i].status = "OPEN"
    BY <1>0, <1>3, JobRows DEF TypeOK, ReserveJobAndAssign, CanReserve, CanReserveJob
  <2> QED
    BY <1>0, <1>3, <2>1 DEF ReserveJobAndAssign
<1>4. ASSUME NEW x \in DroneID, NEW o \in OrderID,
             NEW outcome \in {"DELIVERED", "FAILED"}, CompleteDelivery(o, x, outcome)
      PROVE  Good
  <2>1. PICK i \in JobID : /\ IsJobOf(jobs[i], o) /\ CanCompleteJob(jobs[i])
                           /\ jobs' = [jobs EXCEPT ![i] = CompleteJob(@)]
    BY <1>4 DEF CompleteDelivery
  <2>2. CASE i # j
    BY <1>0, <2>1, <2>2
  <2>3. CASE i = j
    <3>1. jobs[j].order = o /\ jobs[j].status = "RESERVED"
      BY <2>1, <2>3 DEF IsJobOf, CanCompleteJob
    <3>2. jobs[j].drone = x
      BY <1>4, <3>1 DEF IInv, Offered, JobFollowsOrder, CompleteDelivery
    <3>3. drones[x].order = o /\ orders[o].status = "PICKED_UP"
      BY <1>4 DEF IInv, Linked, Mirror, CompleteDelivery, CanFinish
    <3>4. drones[x].status = "EN_ROUTE_DELIVERY"
      BY <3>3, NilAssumption DEF IInv, Linked, DroneFollowsOrder
    <3>5. drones[x] = [status |-> "EN_ROUTE_DELIVERY", order |-> o]
      BY <1>0, <3>3, <3>4, Fields DEF DroneRow
    <3> QED
      BY <3>1, <3>2, <3>5
  <2> QED
    BY <2>2, <2>3
<1>5. ASSUME NEW x \in DroneID, HandleDroneBroken(x) PROVE Good
  <2>1. CASE BreakFree(x)
    BY <2>1 DEF BreakFree
  <2>2. ASSUME NEW new \in JobID, BreakCarrying(x, new) PROVE Good
    <3> DEFINE o == drones[x].order
    <3>1. /\ o \in OrderID
          /\ jobs[new].status = "ABSENT"
          /\ jobs' = [CancelByOrderID(jobs, o) EXCEPT ![new] = NewJob(o)]
      BY <1>0, <2>2, Fields DEF BreakCarrying
    <3>2. CASE j = new
      <4>1. NewJob(o).status = "OPEN"
        BY DEF NewJob
      <4> HIDE DEF o
      <4> QED
        BY <1>0, <3>1, <3>2, <4>1, CancelledJobs DEF TypeOK
    <3>3. CASE j # new
      <4>1. jobs'[j] = CancelByOrderID(jobs, o)[j]
        BY <1>0, <3>1, <3>3, CancelledJobs DEF TypeOK
      <4> HIDE DEF o
      <4>2. jobs[j].status \in {"COMPLETED", "CANCELLED"} => jobs'[j] = jobs[j]
        BY <1>0, <3>1, <4>1, CancelledJobs DEF TypeOK, CanCancelJob
      <4>3. jobs'[j].status = "COMPLETED" => jobs'[j] = jobs[j]
        BY <1>0, <3>1, <4>1, CancelledJobs DEF TypeOK
      <4> QED
        BY <4>2, <4>3
    <3> QED
      BY <3>2, <3>3
  <2> QED
    BY <1>5, <2>1, <2>2 DEF HandleDroneBroken
<1>6. ASSUME jobs' = jobs PROVE Good
  BY <1>6
<1> QED
  BY <1>1, <1>2, <1>3, <1>4, <1>5, <1>6
     DEF Next, GrabOrder, MarkDroneFixed, Heartbeat, AdminUpdateOrder

(* A job is completed only for the drone that carries its order, and       *)
(* completed and cancelled jobs never change.                              *)
THEOREM AlwaysCredited == Spec => CreditedToCarrier
<1> DEFINE A == \A j \in JobID :
       /\ jobs[j].status = "RESERVED" /\ jobs'[j].status = "COMPLETED" =>
            \E d \in DroneID :
              /\ jobs[j].drone = d
              /\ drones[d] = [status |-> "EN_ROUTE_DELIVERY", order |-> jobs[j].order]
       /\ jobs[j].status \in {"COMPLETED", "CANCELLED"} => jobs'[j] = jobs[j]
<1>1. IInv /\ [Next]_vars => [A]_vars
  BY CreditStep
<1>2. Spec => [][A]_vars
  BY <1>1, Consistent, PTL DEF Spec
<1> QED
  BY <1>2 DEF CreditedToCarrier
=============================================================================
