---------------------------- MODULE CustodyProofs ----------------------------
(***************************************************************************)
(* Delivery implements Custody: the state of the promise can be read off   *)
(* the orders table alone, because the invariant ties the jobs to it.      *)
(***************************************************************************)
EXTENDS DeliveryProofs

(* Where an order is, and who carries it, by its row alone. *)
Where(row) ==
  CASE row.status = "ABSENT"                         -> "unknown"
    [] row.status \in {"PENDING", "AWAITING_HANDOFF"} -> "offered"
    [] row.status \in {"ASSIGNED", "PICKED_UP"}       -> "carried"
    [] row.status \in {"DELIVERED", "FAILED"}         -> "done"
    [] OTHER                                          -> "withdrawn"

Bearer(row) == IF row.status \in {"ASSIGNED", "PICKED_UP"} THEN row.drone ELSE Nil

(* The job of an order and the row of the order tell the same. *)
ByRow ==
  \A o \in OrderID : Place(o) = Where(orders[o]) /\ Carrier(o) = Bearer(orders[o])

LEMMA PlaceByRow == IInv => ByRow
<1> SUFFICES ASSUME IInv, NEW o \in OrderID
             PROVE  Place(o) = Where(orders[o]) /\ Carrier(o) = Bearer(orders[o])
  BY DEF ByRow
<1>0. orders[o].status \in OrderStatus \cup {"ABSENT"}
  BY DEF IInv, TypeOK, OrderRow
<1>1. /\ HasJob(o, "OPEN") => orders[o].status \in {"PENDING", "AWAITING_HANDOFF"}
      /\ HasJob(o, "RESERVED") => orders[o].status \in {"ASSIGNED", "PICKED_UP"}
      /\ HasJob(o, "COMPLETED") => orders[o].status \in {"DELIVERED", "FAILED"}
  BY DEF IInv, Offered, JobFollowsOrder, HasJob
<1>2. orders[o].status \notin {"ABSENT", "CANCELLED"} =>
        HasJob(o, "OPEN") \/ HasJob(o, "RESERVED") \/ HasJob(o, "COMPLETED")
  <2> SUFFICES ASSUME orders[o].status \notin {"ABSENT", "CANCELLED"}
               PROVE  HasJob(o, "OPEN") \/ HasJob(o, "RESERVED") \/ HasJob(o, "COMPLETED")
    OBVIOUS
  <2>1. PICK j \in JobID : IsJobOf(jobs[j], o)
    BY DEF IInv, Offered, OrderHasJob
  <2>2. jobs[j].status \in {"OPEN", "RESERVED", "COMPLETED"}
    BY <2>1, NilAssumption DEF IInv, TypeOK, JobRow, JobStatus, IsJobOf
  <2> QED
    BY <2>1, <2>2 DEF HasJob, IsJobOf
<1>3. Place(o) = Where(orders[o])
  BY <1>0, <1>1, <1>2 DEF Place, Where, OrderStatus
<1>4. Where(orders[o]) = "carried" <=> orders[o].status \in {"ASSIGNED", "PICKED_UP"}
  BY <1>0 DEF Where, OrderStatus
<1> QED
  BY <1>3, <1>4 DEF Carrier, Bearer

LEMMA PlaceByNextRow == IInv' => ByRow'
BY PlaceByRow, PTL

-----------------------------------------------------------------------------
(* The state of the promise before and after a step. *)
place   == [o \in OrderID |-> Place(o)]
carrier == [o \in OrderID |-> Carrier(o)]

(* A step that writes one order, or none, moves that order alone. *)
LEMMA OneMoves ==
  ASSUME IInv, IInv', NEW o \in OrderID, orders' = [orders EXCEPT ![o] = orders'[o]]
  PROVE  /\ place' = [place EXCEPT ![o] = Where(orders'[o])]
         /\ carrier' = [carrier EXCEPT ![o] = Bearer(orders'[o])]
         /\ place[o] = Where(orders[o]) /\ carrier[o] = Bearer(orders[o])
<1>1. \A x \in OrderID : place[x] = Where(orders[x]) /\ carrier[x] = Bearer(orders[x])
  BY PlaceByRow DEF ByRow, place, carrier
<1>2. \A x \in OrderID : x # o => orders'[x] = orders[x]
  BY DEF IInv, TypeOK
<1>3. /\ place' = [x \in OrderID |-> Where(orders'[x])]
      /\ carrier' = [x \in OrderID |-> Bearer(orders'[x])]
  BY PlaceByNextRow DEF ByRow, place, carrier
<1>4. place' = [place EXCEPT ![o] = Where(orders'[o])]
  BY <1>1, <1>2, <1>3 DEF place
<1>5. carrier' = [carrier EXCEPT ![o] = Bearer(orders'[o])]
  BY <1>1, <1>2, <1>3 DEF carrier
<1> QED
  BY <1>1, <1>4, <1>5

(* A step that takes no order elsewhere moves none. *)
LEMMA NoneMoves ==
  ASSUME IInv, IInv',
         \A o \in OrderID : /\ Where(orders'[o]) = Where(orders[o])
                            /\ Bearer(orders'[o]) = Bearer(orders[o])
  PROVE  UNCHANGED Promise!vars
<1>1. ByRow /\ ByRow'
  BY PlaceByRow, PlaceByNextRow
<1>2. place' = place /\ carrier' = carrier
  BY <1>1 DEF ByRow, place, carrier
<1> QED
  BY <1>2 DEF Promise!vars, place, carrier

(* No order is anywhere at first. *)
LEMMA CustodyInit == Init => Promise!Init
<1> SUFFICES ASSUME Init PROVE Promise!Init
  OBVIOUS
<1>1. ByRow
  BY InitIInv, PlaceByRow
<1>2. \A o \in OrderID : Where(orders[o]) = "unknown" /\ Bearer(orders[o]) = Nil
  BY NewRows DEF Init, Where, Bearer
<1> QED
  BY <1>1, <1>2 DEF ByRow, Promise!Init

-----------------------------------------------------------------------------
(* Every request moves at most one order, and only along Custody's ways. *)

(* A move of one order, in terms of its row. *)
LEMMA MoveByRow ==
  ASSUME IInv, IInv', NEW o \in OrderID, NEW row,
         orders' = [orders EXCEPT ![o] = row], NEW from, Where(orders[o]) \in from
  PROVE  Promise!Move(o, from, Where(row), Bearer(row))
<1>1. orders'[o] = row
  BY DEF IInv, TypeOK
<1> QED
  BY <1>1, OneMoves DEF Promise!Move, place, carrier

LEMMA CustodyStep == IInv /\ IInv' /\ [Next]_vars => [Promise!Next]_(Promise!vars)
<1> SUFFICES ASSUME IInv, IInv', [Next]_vars
             PROVE  Promise!Next \/ UNCHANGED Promise!vars
  OBVIOUS
<1>0. TypeOK
  BY DEF IInv
<1>1. ASSUME orders' = orders PROVE UNCHANGED Promise!vars
  BY <1>1, NoneMoves
<1>2. ASSUME NEW r \in Route, NEW o \in OrderID, NEW j \in JobID, CreateOrderAndJob(r, o, j)
      PROVE  Promise!Next
  <2>1. Where(orders[o]) = "unknown" /\ Where(NewOrder(r)) = "offered" /\ Bearer(NewOrder(r)) = Nil
    BY <1>2 DEF CreateOrderAndJob, Where, Bearer, NewOrder
  <2>2. Promise!Offer(o)
    BY <1>2, <2>1, MoveByRow DEF CreateOrderAndJob, Promise!Offer
  <2> QED
    BY <2>2 DEF Promise!Next
<1>3. ASSUME NEW o \in OrderID, CancelOrderAndJob(o) PROVE Promise!Next
  <2>1. /\ orders[o].status \in {"PENDING", "AWAITING_HANDOFF", "ASSIGNED", "PICKED_UP"}
        /\ CancelOrder(orders[o]).status = "CANCELLED"
    <3>1. PICK j \in JobID : CanCancelJob(jobs[j], o)
      BY <1>3 DEF CancelOrderAndJob
    <3>2. jobs[j].order = o /\ jobs[j].status \in {"OPEN", "RESERVED"}
      BY <1>0, <3>1, NilAssumption DEF TypeOK, CanCancelJob, JobRow, JobStatus
    <3> QED
      BY <1>0, <3>2, Fields DEF IInv, Offered, JobFollowsOrder, CancelOrder, OrderRow
  <2>2. /\ Where(orders[o]) \in {"offered", "carried"}
        /\ Where(CancelOrder(orders[o])) = "withdrawn"
        /\ Bearer(CancelOrder(orders[o])) = Nil
    BY <2>1 DEF Where, Bearer
  <2>3. Promise!Withdraw(o)
    BY <1>3, <2>2, MoveByRow DEF CancelOrderAndJob, Promise!Withdraw
  <2> QED
    BY <2>3 DEF Promise!Next
<1>4. ASSUME NEW o \in OrderID, NEW r \in Route \cup {Nil}, AdminUpdateOrder(o, r)
      PROVE  UNCHANGED Promise!vars
  <2>1. /\ Reroute(orders[o], r).status = orders[o].status
        /\ Reroute(orders[o], r).drone = orders[o].drone
    BY <1>0, OrderRows, Fields
  <2>2. orders' = [orders EXCEPT ![o] = Reroute(orders[o], r)] /\ orders'[o] = Reroute(orders[o], r)
    BY <1>0, <1>4, Domains DEF AdminUpdateOrder
  <2>3. Where(orders'[o]) = Where(orders[o]) /\ Bearer(orders'[o]) = Bearer(orders[o])
    BY <2>1, <2>2 DEF Where, Bearer
  <2>4. \A x \in OrderID : x # o => orders'[x] = orders[x]
    BY <1>0, <2>2 DEF TypeOK
  <2> QED
    BY <2>3, <2>4, NoneMoves
<1>5. ASSUME NEW d \in DroneID, NEW j \in JobID, ReserveJobAndAssign(j, d) PROVE Promise!Next
  <2> DEFINE o == jobs[j].order
  <2>1. o \in OrderID /\ orders[o].status \in {"PENDING", "AWAITING_HANDOFF"}
    BY <1>0, <1>5 DEF ReserveJobAndAssign, CanReserve, CanReserveJob, CanAssign, TypeOK, JobRow
  <2>2. orders' = [orders EXCEPT ![o] = Assign(orders[o], d)]
    BY <1>5 DEF ReserveJobAndAssign
  <2>3. drones[d].order = Nil
    BY <1>5, Facts DEF ReserveJobAndAssign, CanReserve, CanReserveDrone
  <2>4. Assign(orders[o], d).status = "ASSIGNED" /\ Assign(orders[o], d).drone = d
    <3>1. orders[o] \in OrderRow
      BY <1>0, <2>1, Fields
    <3> QED
      BY <3>1 DEF Assign, OrderRow
  <2> HIDE DEF o
  <2>5. /\ Where(orders[o]) = "offered" /\ Where(Assign(orders[o], d)) = "carried"
        /\ Bearer(Assign(orders[o], d)) = d
    BY <2>1, <2>4 DEF Where, Bearer
  <2>6. \A x \in OrderID : Carrier(x) # d
    <3> SUFFICES ASSUME NEW x \in OrderID, Carrier(x) = d PROVE FALSE
      OBVIOUS
    <3>1. orders[x].drone = d
      BY PlaceByRow, NilAssumption DEF ByRow, Bearer
    <3> QED
      BY <2>3, <3>1, NilAssumption DEF IInv, Linked, Mirror
  <2>7. Promise!Move(o, {"offered"}, "carried", d)
    BY <2>1, <2>2, <2>5, MoveByRow
  <2>8. Promise!Take(o, d)
    BY <2>6, <2>7 DEF Promise!Take
  <2> QED
    BY <2>1, <2>8 DEF Promise!Next
<1>6. ASSUME NEW d \in DroneID, NEW o \in OrderID, GrabOrder(o, d)
      PROVE  UNCHANGED Promise!vars
  <2>1. /\ orders[o].status = "ASSIGNED"
        /\ MarkPickedUp(orders[o]).status = "PICKED_UP"
        /\ MarkPickedUp(orders[o]).drone = orders[o].drone
    BY <1>0, <1>6, OrderRows, Fields DEF GrabOrder, CanPickUp
  <2>2. orders' = [orders EXCEPT ![o] = MarkPickedUp(orders[o])] /\ orders'[o] = MarkPickedUp(orders[o])
    BY <1>0, <1>6, Domains DEF GrabOrder
  <2>3. Where(orders'[o]) = Where(orders[o]) /\ Bearer(orders'[o]) = Bearer(orders[o])
    BY <2>1, <2>2 DEF Where, Bearer
  <2>4. \A x \in OrderID : x # o => orders'[x] = orders[x]
    BY <1>0, <2>2 DEF TypeOK
  <2> QED
    BY <2>3, <2>4, NoneMoves
<1>7. ASSUME NEW d \in DroneID, NEW o \in OrderID,
             NEW outcome \in {"DELIVERED", "FAILED"}, CompleteDelivery(o, d, outcome)
      PROVE  Promise!Next
  <2>1. orders[o].status = "PICKED_UP" /\ MarkFinished(orders[o], outcome).status = outcome
    BY <1>0, <1>7, OrderRows, Fields DEF CompleteDelivery, CanFinish
  <2>2. /\ Where(orders[o]) = "carried"
        /\ Where(MarkFinished(orders[o], outcome)) = "done"
        /\ Bearer(MarkFinished(orders[o], outcome)) = Nil
    BY <2>1 DEF Where, Bearer
  <2>3. Promise!Finish(o)
    BY <1>7, <2>2, MoveByRow DEF CompleteDelivery, Promise!Finish
  <2> QED
    BY <2>3 DEF Promise!Next
<1>8. ASSUME NEW d \in DroneID, NEW new \in JobID, BreakCarrying(d, new) PROVE Promise!Next
  <2> DEFINE o == drones[d].order
  <2>1. /\ o \in OrderID /\ orders[o].status \in {"ASSIGNED", "PICKED_UP"}
        /\ orders' = [orders EXCEPT ![o] = AwaitHandoff(orders[o])]
    BY <1>0, <1>8, Fields DEF BreakCarrying, CanHandleBroken, CanAwaitHandoff
  <2> HIDE DEF o
  <2>2. AwaitHandoff(orders[o]).status = "AWAITING_HANDOFF"
    BY <1>0, <2>1, OrderRows, Fields
  <2>3. /\ Where(orders[o]) = "carried"
        /\ Where(AwaitHandoff(orders[o])) = "offered"
        /\ Bearer(AwaitHandoff(orders[o])) = Nil
    BY <2>1, <2>2 DEF Where, Bearer
  <2>4. Promise!HandBack(o)
    BY <2>1, <2>3, MoveByRow DEF Promise!HandBack
  <2> QED
    BY <2>1, <2>4 DEF Promise!Next
<1> QED
  BY <1>1, <1>2, <1>3, <1>4, <1>5, <1>6, <1>7, <1>8
     DEF Next, vars, HandleDroneBroken, BreakFree, MarkDroneFixed, Heartbeat

(* The tables of the service keep the promise of Custody: whatever the     *)
(* requests, every order is offered, in the hands of one drone, or done    *)
(* with, and goes from drone to drone only through another offer.          *)
THEOREM DeliveryKeepsCustody == Spec => ImplementsCustody
<1>1. Spec => Init /\ [][Next]_vars /\ []IInv
  BY Consistent DEF Spec
<1>2. Spec => Promise!Init /\ [][Promise!Next]_(Promise!vars)
  BY <1>1, CustodyInit, CustodyStep, PTL
<1> QED
  BY <1>2 DEF ImplementsCustody, Promise!Spec

-----------------------------------------------------------------------------
(* What each request does to the jobs that exist: the facts that make a    *)
(* repeated request harmless (ServiceProofs).                              *)

Closed(j) == jobs[j].status \in {"COMPLETED", "CANCELLED"}

(* The row of an existing job changes, or the order of a reserved one goes *)
(* on.                                                                     *)
Moves(j) ==
  \/ jobs[j].status # "ABSENT" /\ jobs'[j] # jobs[j]
  \/ /\ jobs[j].status = "RESERVED"
     /\ orders'[jobs[j].order].status # orders[jobs[j].order].status

(* The order of a job that is not closed has no other such job. *)
LEMMA JobTypes ==
  ASSUME IInv, NEW j \in JobID
  PROVE  /\ jobs[j] \in JobRow /\ jobs[j].status \in JobStatus \cup {"ABSENT"}
         /\ jobs[j].status # "ABSENT" => jobs[j].order \in OrderID
         /\ jobs[j].status = "RESERVED" =>
              orders[jobs[j].order].status \in {"ASSIGNED", "PICKED_UP"}
BY DEF IInv, TypeOK, JobRow, Offered, JobFollowsOrder

(* A new order moves no job. *)
LEMMA CreateMoves ==
  ASSUME IInv, NEW r \in Route, NEW o \in OrderID, NEW i \in JobID,
         CreateOrderAndJob(r, o, i), NEW j \in JobID
  PROVE  ~Moves(j)
<1>1. TypeOK
  BY DEF IInv
<1>2. jobs[j].status # "ABSENT" => jobs'[j] = jobs[j]
  BY <1>1, Domains DEF CreateOrderAndJob
<1>3. jobs[j].status = "RESERVED" => jobs[j].order # o
  BY JobTypes DEF CreateOrderAndJob
<1>4. \A x \in OrderID : x # o => orders'[x] = orders[x]
  BY <1>1, Domains DEF CreateOrderAndJob
<1> QED
  BY <1>2, <1>3, <1>4, JobTypes DEF Moves

(* Cancelling by order closes every job it moves. *)
LEMMA CancelByOrderMoves ==
  ASSUME IInv, NEW o \in OrderID, NEW j \in JobID, jobs'[j] = CancelByOrderID(jobs, o)[j],
         \A x \in OrderID : x # o => orders'[x] = orders[x],
         Moves(j)
  PROVE  ~Closed(j) /\ Closed(j)'
<1>1. jobs \in [JobID -> JobRow]
  BY DEF IInv, TypeOK
<1>2. CanCancelJob(jobs[j], o)
  <2> SUFFICES ASSUME ~CanCancelJob(jobs[j], o) PROVE FALSE
    OBVIOUS
  <2>1. jobs'[j] = jobs[j]
    BY <1>1, CancelledJobs
  <2>2. jobs[j].status = "RESERVED" /\ jobs[j].order = o
    BY <2>1, JobTypes DEF Moves
  <2> QED
    BY <2>2 DEF CanCancelJob
<1>3. jobs'[j].status = "CANCELLED"
  BY <1>1, <1>2, CancelledJobs
<1> QED
  BY <1>2, <1>3 DEF CanCancelJob, Closed

LEMMA WithdrawMoves ==
  ASSUME IInv, NEW o \in OrderID, CancelOrderAndJob(o), NEW j \in JobID, Moves(j)
  PROVE  ~Closed(j) /\ Closed(j)'
<1>1. /\ jobs'[j] = CancelByOrderID(jobs, o)[j]
      /\ \A x \in OrderID : x # o => orders'[x] = orders[x]
  BY Domains DEF IInv, CancelOrderAndJob
<1> QED
  BY <1>1, CancelByOrderMoves

LEMMA BrokenMoves ==
  ASSUME IInv, NEW d \in DroneID, HandleDroneBroken(d), NEW j \in JobID, Moves(j)
  PROVE  ~Closed(j) /\ Closed(j)'
<1>1. PICK new \in JobID : BreakCarrying(d, new)
  BY DEF HandleDroneBroken, BreakFree, Moves
<1> DEFINE o == drones[d].order
<1>2. TypeOK /\ o \in OrderID
  BY <1>1, Fields DEF IInv, BreakCarrying
<1>3. /\ \A x \in OrderID : x # o => orders'[x] = orders[x]
      /\ jobs[new].status = "ABSENT"
      /\ jobs' = [CancelByOrderID(jobs, o) EXCEPT ![new] = NewJob(o)]
  BY <1>1, <1>2, Domains DEF BreakCarrying
<1> HIDE DEF o
<1>4. j # new
  BY <1>3 DEF Moves
<1>5. jobs'[j] = CancelByOrderID(jobs, o)[j]
  BY <1>2, <1>3, <1>4, CancelledJobs DEF TypeOK
<1> QED
  BY <1>2, <1>3, <1>5, CancelByOrderMoves

LEMMA CompleteMoves ==
  ASSUME IInv, NEW o \in OrderID, NEW d \in DroneID, NEW outcome \in {"DELIVERED", "FAILED"},
         CompleteDelivery(o, d, outcome), NEW j \in JobID, Moves(j)
  PROVE  ~Closed(j) /\ Closed(j)'
<1>0. TypeOK
  BY DEF IInv
<1>1. PICK i \in JobID : /\ IsJobOf(jobs[i], o) /\ CanCompleteJob(jobs[i])
                         /\ jobs' = [jobs EXCEPT ![i] = CompleteJob(@)]
  BY DEF CompleteDelivery
<1>2. \A x \in OrderID : x # o => orders'[x] = orders[x]
  BY <1>0, Domains DEF CompleteDelivery
<1>3. j = i
  <2> SUFFICES ASSUME j # i PROVE FALSE
    OBVIOUS
  <2>1. jobs'[j] = jobs[j]
    BY <1>0, <1>1, Domains
  <2>2. jobs[j].status = "RESERVED" /\ jobs[j].order = o
    BY <1>2, <2>1, JobTypes DEF Moves
  <2> QED
    BY <1>1, <2>2 DEF IInv, Offered, OneLiveJob, IsJobOf, CanCompleteJob
<1>4. jobs'[j] = CompleteJob(jobs[j]) /\ CompleteJob(jobs[j]).status = "COMPLETED"
  BY <1>0, <1>1, <1>3, Domains, JobRows, JobTypes
<1> QED
  BY <1>1, <1>3, <1>4 DEF Closed, CanCompleteJob

(* A reservation moves its own job, from open to reserved. *)
LEMMA ReserveMoves ==
  ASSUME IInv, NEW i \in JobID, NEW d \in DroneID, ReserveJobAndAssign(i, d),
         NEW j \in JobID, Moves(j)
  PROVE  jobs[j].status = "OPEN" /\ jobs'[j].status = "RESERVED"
<1>0. TypeOK
  BY DEF IInv
<1> DEFINE o == jobs[i].order
<1>1. /\ jobs[i].status = "OPEN" /\ o \in OrderID
      /\ orders[o].status \in {"PENDING", "AWAITING_HANDOFF"}
      /\ \A x \in OrderID : x # o => orders'[x] = orders[x]
      /\ \A x \in JobID : x # i => jobs'[x] = jobs[x]
      /\ jobs'[i] = ReserveJob(jobs[i], d)
  BY <1>0, Domains, JobTypes
     DEF ReserveJobAndAssign, CanReserve, CanReserveJob, CanAssign
<1> HIDE DEF o
<1>2. j = i
  BY <1>1, JobTypes DEF Moves
<1>3. ReserveJob(jobs[i], d).status = "RESERVED"
  BY JobRows, JobTypes
<1> QED
  BY <1>1, <1>2, <1>3

(* A grab moves the reserved job of the order it picks up. *)
LEMMA GrabMoves ==
  ASSUME IInv, NEW o \in OrderID, NEW d \in DroneID, GrabOrder(o, d), NEW j \in JobID, Moves(j)
  PROVE  /\ jobs[j].status = "RESERVED" /\ jobs'[j] = jobs[j]
         /\ orders[jobs[j].order].status = "ASSIGNED"
         /\ orders'[jobs[j].order].status = "PICKED_UP"
<1>0. TypeOK
  BY DEF IInv
<1>1. /\ jobs' = jobs /\ orders[o].status = "ASSIGNED"
      /\ \A x \in OrderID : x # o => orders'[x] = orders[x]
      /\ orders'[o] = MarkPickedUp(orders[o])
  BY <1>0, Domains DEF GrabOrder, CanPickUp
<1>2. MarkPickedUp(orders[o]).status = "PICKED_UP"
  BY <1>0, OrderRows, Fields
<1> QED
  BY <1>1, <1>2, JobTypes DEF Moves

(* Repairs, heartbeats and new addresses move no job. *)
LEMMA NothingMoves ==
  ASSUME IInv, NEW j \in JobID,
         \/ \E d \in DroneID : MarkDroneFixed(d) \/ Heartbeat(d)
         \/ \E o \in OrderID, r \in Route \cup {Nil} : AdminUpdateOrder(o, r)
  PROVE  ~Moves(j)
<1>1. CASE \E d \in DroneID : MarkDroneFixed(d) \/ Heartbeat(d)
  BY <1>1 DEF MarkDroneFixed, Heartbeat, Moves
<1>2. ASSUME NEW o \in OrderID, NEW r \in Route \cup {Nil}, AdminUpdateOrder(o, r)
      PROVE  ~Moves(j)
  <2>0. TypeOK
    BY DEF IInv
  <2>1. /\ jobs' = jobs /\ orders'[o] = Reroute(orders[o], r)
        /\ \A x \in OrderID : x # o => orders'[x] = orders[x]
    BY <1>2, <2>0, Domains DEF AdminUpdateOrder
  <2>2. Reroute(orders[o], r).status = orders[o].status
    BY <2>0, OrderRows, Fields
  <2> QED
    BY <2>1, <2>2, JobTypes DEF Moves
<1> QED
  BY <1>1, <1>2

(* Of a reserved job: it is closed, or it stays as it is and its order at  *)
(* most gets picked up.                                                    *)
LEMMA ReservedStep ==
  ASSUME IInv, Next, NEW j \in JobID, jobs[j].status = "RESERVED"
  PROVE  \/ Closed(j)'
         \/ /\ jobs'[j] = jobs[j]
            /\ orders'[jobs[j].order].status \in {orders[jobs[j].order].status, "PICKED_UP"}
<1> SUFFICES ASSUME Moves(j)
             PROVE  Closed(j)' \/ (jobs'[j] = jobs[j] /\ orders'[jobs[j].order].status = "PICKED_UP")
  BY DEF Moves
<1> QED
  BY CreateMoves, WithdrawMoves, BrokenMoves, CompleteMoves, ReserveMoves, GrabMoves, NothingMoves
     DEF Next
=============================================================================
