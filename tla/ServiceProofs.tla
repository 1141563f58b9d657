---------------------------- MODULE ServiceProofs ----------------------------
(***************************************************************************)
(* The routes as a whole, for any number of requests, keys, orders, drones *)
(* and jobs: the middleware behaves as Gateway says, the tables as         *)
(* Delivery says as long as no stale row is written back, and no key       *)
(* changes the row of a job twice even then.                               *)
(***************************************************************************)
EXTENDS Service, GatewayProofs

P == INSTANCE CustodyProofs

(* T and P are the same module twice. *)
LEMMA SameRequests ==
  /\ \A r, o, j : T!CreateOrderAndJob(r, o, j) <=> P!CreateOrderAndJob(r, o, j)
  /\ \A o : T!CancelOrderAndJob(o) <=> P!CancelOrderAndJob(o)
  /\ \A j, d : T!ReserveJobAndAssign(j, d) <=> P!ReserveJobAndAssign(j, d)
  /\ \A o, d : T!GrabOrder(o, d) <=> P!GrabOrder(o, d)
  /\ \A o, d, s : T!CompleteDelivery(o, d, s) <=> P!CompleteDelivery(o, d, s)
  /\ \A d : T!HandleDroneBroken(d) <=> P!HandleDroneBroken(d)
<1>1. \A r, o, j : T!CreateOrderAndJob(r, o, j) <=> P!CreateOrderAndJob(r, o, j)
  BY DEF T!CreateOrderAndJob, P!CreateOrderAndJob, T!NewOrder, P!NewOrder,
        T!NewJob, P!NewJob
<1>2. \A o : T!CancelOrderAndJob(o) <=> P!CancelOrderAndJob(o)
  BY DEF T!CancelOrderAndJob, P!CancelOrderAndJob, T!CanCancelOrder,
        P!CanCancelOrder, T!CancelOrder, P!CancelOrder, T!CanCancelJob,
        P!CanCancelJob, T!CancelByOrderID, P!CancelByOrderID, T!CancelJob,
        P!CancelJob
<1>3. \A j, d : T!ReserveJobAndAssign(j, d) <=> P!ReserveJobAndAssign(j, d)
  BY DEF T!ReserveJobAndAssign, P!ReserveJobAndAssign, T!CanReserve,
        P!CanReserve, T!CanReserveJob, P!CanReserveJob, T!CanAssign,
        P!CanAssign, T!CanReserveDrone, P!CanReserveDrone, T!ReserveJob,
        P!ReserveJob, T!Assign, P!Assign, T!ReserveDrone, P!ReserveDrone
<1>4. \A o, d : T!GrabOrder(o, d) <=> P!GrabOrder(o, d)
  BY DEF T!GrabOrder, P!GrabOrder, T!CanPickUp, P!CanPickUp,
        T!CanStartDelivery, P!CanStartDelivery, T!MarkPickedUp,
        P!MarkPickedUp, T!StartDelivery, P!StartDelivery
<1>5. \A o, d, s : T!CompleteDelivery(o, d, s) <=> P!CompleteDelivery(o, d, s)
  BY DEF T!CompleteDelivery, P!CompleteDelivery, T!CanFinish, P!CanFinish,
        T!IsJobOf, P!IsJobOf, T!CanCompleteJob, P!CanCompleteJob,
        T!CompleteJob, P!CompleteJob, T!MarkFinished, P!MarkFinished,
        T!GoIdle, P!GoIdle
<1>6. \A d : T!HandleDroneBroken(d) <=> P!HandleDroneBroken(d)
  BY DEF T!HandleDroneBroken, P!HandleDroneBroken, T!BreakFree, P!BreakFree,
        T!BreakCarrying, P!BreakCarrying, T!CanHandleBroken,
        P!CanHandleBroken, T!CanBreak, P!CanBreak, T!CanAwaitHandoff,
        P!CanAwaitHandoff, T!CanCancelJob, P!CanCancelJob, T!MarkBroken,
        P!MarkBroken, T!AwaitHandoff, P!AwaitHandoff, T!NewJob, P!NewJob,
        T!CancelByOrderID, P!CancelByOrderID, T!CancelJob, P!CancelJob
<1> QED
  BY <1>1, <1>2, <1>3, <1>4, <1>5, <1>6

-----------------------------------------------------------------------------
(* The middleware. *)

(* Around the handlers, the service takes the steps of Gateway. *)
THEOREM ServiceUsesGateway == ServiceSpec => Spec
<1>1. ServiceInit => Init
  BY DEF ServiceInit
<1>2. [ServiceNext]_serviceVars => [Next]_vars
  BY DEF ServiceNext, serviceVars, Serve, Read, Upsert, Update, Handler, Next, vars
<1> QED
  BY <1>1, <1>2, PTL DEF ServiceSpec, Spec

(* The bulkheads of the service balance, and no operation takes effect     *)
(* again without an excuse.                                                *)
THEOREM ServiceMiddleware == ServiceSpec => [](TypeOK /\ PermitsBalance /\ RepeatsExcused)
BY ServiceUsesGateway, TypeCorrect, PermitsAlwaysBalance, RepeatsAlwaysExcused, PTL

-----------------------------------------------------------------------------
(* The handlers with a transaction. *)

(* Every operation names rows of the right tables. *)
LEMMA OperationTypes ==
  ASSUME NEW g \in Groups, NEW a \in Operations(g)
  PROVE  /\ a.kind \in {"withdraw", "grab", "complete", "reroute"} => a.order \in OrderID
         /\ a.kind = "reserve" => a.job \in JobID
         /\ a.kind \in {"reserve", "grab", "complete", "broken", "fixed", "heartbeat"} =>
              a.drone \in DroneID
         /\ a.kind = "reroute" => a.route \in Route \cup {Nil}
<1>1. g \in {"enduser", "drone", "heartbeat", "admin"}
  BY GatewayAssumption DEF Mutations
<1>2. CASE g = "enduser"
  BY <1>2 DEF Operations
<1>3. CASE g = "drone"
  BY <1>3 DEF Operations
<1>4. CASE g = "heartbeat"
  BY <1>4 DEF Operations
<1>5. CASE g = "admin"
  BY <1>5 DEF Operations
<1> QED
  BY <1>1, <1>2, <1>3, <1>4, <1>5

(* What is done is an operation of a route. *)
Ops == UNION {Operations(g) : g \in Groups}

(* ... and one of the six. *)
LEMMA HandlerCases ==
  ASSUME NEW a \in Ops, Handle(a)
  PROVE  \/ a.kind = "place" /\ \E r \in Route, o \in OrderID, j \in JobID : P!CreateOrderAndJob(r, o, j)
         \/ a.kind = "withdraw" /\ a.order \in OrderID /\ P!CancelOrderAndJob(a.order)
         \/ /\ a.kind = "reserve" /\ a.job \in JobID /\ a.drone \in DroneID
            /\ P!ReserveJobAndAssign(a.job, a.drone)
         \/ a.kind = "grab" /\ a.order \in OrderID /\ a.drone \in DroneID /\ P!GrabOrder(a.order, a.drone)
         \/ /\ a.kind = "complete" /\ a.order \in OrderID /\ a.drone \in DroneID
            /\ \E s \in {"DELIVERED", "FAILED"} : P!CompleteDelivery(a.order, a.drone, s)
         \/ a.kind = "broken" /\ a.drone \in DroneID /\ P!HandleDroneBroken(a.drone)
<1>1. PICK g \in Groups : a \in Operations(g)
  BY DEF Ops
<1>2. CASE a.kind = "place"
  BY <1>2, SameRequests DEF Handle
<1>3. CASE a.kind = "withdraw"
  BY <1>1, <1>3, OperationTypes, SameRequests DEF Handle
<1>4. CASE a.kind = "reserve"
  BY <1>1, <1>4, OperationTypes, SameRequests DEF Handle
<1>5. CASE a.kind = "grab"
  BY <1>1, <1>5, OperationTypes, SameRequests DEF Handle
<1>6. CASE a.kind = "complete"
  BY <1>1, <1>6, OperationTypes, SameRequests DEF Handle
<1>7. CASE a.kind = "broken"
  BY <1>1, <1>7, OperationTypes, SameRequests DEF Handle
<1> QED
  BY <1>2, <1>3, <1>4, <1>5, <1>6, <1>7 DEF Handle

LEMMA HandlerStep ==
  ASSUME NEW a \in Ops, Handle(a)
  PROVE  P!Next
BY HandlerCases DEF P!Next

(* What they do to the row of a job that exists, whatever the other tables *)
(* hold: no row that is closed changes, and only a reservation reserves.   *)
LEMMA HandlerRows ==
  ASSUME P!TypeOK, NEW a \in Ops, Handle(a), NEW j \in JobID, jobs[j].status # "ABSENT"
  PROVE  \/ jobs'[j] = jobs[j]
         \/ a.kind = "reserve" /\ jobs[j].status = "OPEN" /\ jobs'[j].status = "RESERVED"
         \/ /\ a.kind # "reserve" /\ jobs[j].status \in {"OPEN", "RESERVED"}
            /\ jobs'[j].status \in {"COMPLETED", "CANCELLED"}
<1> USE NilAssumption
<1>0. /\ jobs \in [JobID -> P!JobRow] /\ jobs[j] \in P!JobRow
      /\ jobs[j].status \in {"OPEN", "RESERVED", "COMPLETED", "CANCELLED"}
  BY DEF P!TypeOK, P!JobRow, P!JobStatus
<1>c. ASSUME NEW o \in OrderID, jobs'[j] = P!CancelByOrderID(jobs, o)[j]
      PROVE  \/ jobs'[j] = jobs[j]
             \/ jobs[j].status \in {"OPEN", "RESERVED"} /\ jobs'[j].status = "CANCELLED"
  BY <1>0, <1>c, P!CancelledJobs DEF P!CanCancelJob
<1>1. CASE \E r \in Route, o \in OrderID, i \in JobID : P!CreateOrderAndJob(r, o, i)
  BY <1>0, <1>1 DEF P!CreateOrderAndJob
<1>2. CASE a.kind = "withdraw" /\ a.order \in OrderID /\ P!CancelOrderAndJob(a.order)
  BY <1>2, <1>c DEF P!CancelOrderAndJob
<1>3. CASE a.kind = "reserve" /\ a.job \in JobID /\ a.drone \in DroneID /\ P!ReserveJobAndAssign(a.job, a.drone)
  <2>1. jobs[a.job].status = "OPEN" /\ jobs' = [jobs EXCEPT ![a.job] = P!ReserveJob(@, a.drone)]
    BY <1>3 DEF P!ReserveJobAndAssign, P!CanReserve, P!CanReserveJob
  <2>2. P!ReserveJob(jobs[j], a.drone).status = "RESERVED"
    BY <1>0, <1>3, P!JobRows
  <2> QED
    BY <1>0, <1>3, <2>1, <2>2
<1>4. CASE P!GrabOrder(a.order, a.drone)
  BY <1>4 DEF P!GrabOrder
<1>5. CASE /\ a.kind = "complete"
           /\ \E s \in {"DELIVERED", "FAILED"} : P!CompleteDelivery(a.order, a.drone, s)
  <2>1. PICK i \in JobID : /\ jobs[i].status = "RESERVED"
                           /\ jobs' = [jobs EXCEPT ![i] = P!CompleteJob(@)]
    BY <1>5 DEF P!CompleteDelivery, P!CanCompleteJob
  <2>2. P!CompleteJob(jobs[j]).status = "COMPLETED"
    BY <1>0, P!JobRows
  <2> QED
    BY <1>0, <1>5, <2>1, <2>2
<1>6. CASE a.kind = "broken" /\ a.drone \in DroneID /\ P!HandleDroneBroken(a.drone)
  <2> DEFINE o == drones[a.drone].order
  <2>1. CASE jobs' = jobs
    BY <2>1
  <2>2. ASSUME NEW new \in JobID, P!BreakCarrying(a.drone, new)
        PROVE  o \in OrderID /\ jobs'[j] = P!CancelByOrderID(jobs, o)[j]
    <3>1. o \in OrderID
      BY <1>6, <2>2, P!Fields DEF P!BreakCarrying
    <3>2. /\ jobs[new].status = "ABSENT"
          /\ jobs' = [P!CancelByOrderID(jobs, o) EXCEPT ![new] = P!NewJob(o)]
      BY <2>2 DEF P!BreakCarrying
    <3>3. P!CancelByOrderID(jobs, o) \in [JobID -> P!JobRow]
      BY <1>0, <3>1, P!CancelledJobs
    <3> HIDE DEF o
    <3> QED
      BY <3>1, <3>2, <3>3
  <2> HIDE DEF o
  <2> QED
    BY <1>6, <1>c, <2>1, <2>2 DEF P!HandleDroneBroken, P!BreakFree
<1> QED
  BY HandlerCases, <1>1, <1>2, <1>3, <1>4, <1>5, <1>6

-----------------------------------------------------------------------------
(* Retries of one operation. *)

(* Operation a can do nothing more to the row of job j. *)
RowSpent(a, j) ==
  \/ jobs[j].status \in {"COMPLETED", "CANCELLED"}
  \/ a.kind = "reserve" /\ jobs[j].status = "RESERVED"

(* ... and never can again; what changes a row has done its part.          *)
LEMMA RowSpentStays ==
  ASSUME P!TypeOK, NEW a \in Ops, Handle(a), NEW j \in JobID
  PROVE  /\ \A b : RowSpent(b, j) => RowSpent(b, j)'
         /\ j \in Changed => ~RowSpent(a, j) /\ RowSpent(a, j)'
<1>1. jobs[j].status = "ABSENT" => j \notin Changed /\ \A b : ~RowSpent(b, j)
  BY DEF Changed, RowSpent
<1>2. ASSUME NEW b, RowSpent(b, j) PROVE RowSpent(b, j)'
  BY <1>1, <1>2, HandlerRows DEF RowSpent
<1>3. ASSUME j \in Changed PROVE ~RowSpent(a, j) /\ RowSpent(a, j)'
  BY <1>1, <1>3, HandlerRows DEF RowSpent, Changed
<1> QED
  BY <1>2, <1>3

(* The same for the row and the order of a reserved job, while the tables  *)
(* agree.                                                                  *)
Spent(a, j) ==
  \/ RowSpent(a, j)
  \/ /\ a.kind = "grab" /\ jobs[j].status = "RESERVED"
     /\ orders[jobs[j].order].status = "PICKED_UP"

LEMMA SpentStays ==
  ASSUME P!IInv, P!Next, NEW a, NEW j \in JobID, Spent(a, j)
  PROVE  Spent(a, j)'
<1>1. CASE jobs[j].status \in {"COMPLETED", "CANCELLED"}
  <2>1. jobs'[j] = jobs[j]
    BY <1>1, P!CreditStep, NilAssumption
  <2> QED
    BY <1>1, <2>1 DEF Spent, RowSpent
<1>2. CASE jobs[j].status = "RESERVED"
  <2>1. \/ jobs'[j].status \in {"COMPLETED", "CANCELLED"}
        \/ /\ jobs'[j] = jobs[j]
           /\ orders'[jobs[j].order].status \in {orders[jobs[j].order].status, "PICKED_UP"}
    BY <1>2, P!ReservedStep, NilAssumption DEF P!Closed
  <2> QED
    BY <1>2, <2>1 DEF Spent, RowSpent
<1> QED
  BY <1>1, <1>2 DEF Spent, RowSpent

(* An operation moves only jobs it is not done with, and is then. *)
LEMMA HandlerMoves ==
  ASSUME P!IInv, NEW a \in Ops, Handle(a), NEW j \in JobID, j \in Moved
  PROVE  ~Spent(a, j) /\ Spent(a, j)'
<1>0. P!Moves(j) /\ (P!Closed(j) <=> jobs[j].status \in {"COMPLETED", "CANCELLED"})
      /\ (P!Closed(j)' <=> jobs'[j].status \in {"COMPLETED", "CANCELLED"})
  BY DEF Moved, Changed, P!Moves, P!Closed
<1> USE NilAssumption DEF Spent, RowSpent
<1>1. CASE a.kind = "place" /\ \E r \in Route, o \in OrderID, i \in JobID : P!CreateOrderAndJob(r, o, i)
  BY <1>0, <1>1, P!CreateMoves
<1>2. CASE a.kind = "withdraw" /\ a.order \in OrderID /\ P!CancelOrderAndJob(a.order)
  BY <1>0, <1>2, P!WithdrawMoves
<1>3. CASE /\ a.kind = "reserve" /\ a.job \in JobID /\ a.drone \in DroneID
           /\ P!ReserveJobAndAssign(a.job, a.drone)
  BY <1>0, <1>3, P!ReserveMoves
<1>4. CASE a.kind = "grab" /\ a.order \in OrderID /\ a.drone \in DroneID /\ P!GrabOrder(a.order, a.drone)
  BY <1>0, <1>4, P!GrabMoves
<1>5. CASE /\ a.kind = "complete" /\ a.order \in OrderID /\ a.drone \in DroneID
           /\ \E s \in {"DELIVERED", "FAILED"} : P!CompleteDelivery(a.order, a.drone, s)
  BY <1>0, <1>5, P!CompleteMoves
<1>6. CASE a.kind = "broken" /\ a.drone \in DroneID /\ P!HandleDroneBroken(a.drone)
  BY <1>0, <1>6, P!BrokenMoves
<1> QED
  BY HandlerCases, <1>1, <1>2, <1>3, <1>4, <1>5, <1>6

-----------------------------------------------------------------------------
(* The handlers without a transaction. *)

(* What a request read, and what its handler makes of that. *)
ReadFor(r) ==
  \/ /\ r.table = "orders" /\ r.id \in OrderID /\ r.read \in P!OrderRow
     /\ \E x \in Route \cup {Nil} : P!CanReroute(r.read, x) /\ r.write = P!Reroute(r.read, x)
  \/ /\ r.table = "drones" /\ r.id \in DroneID /\ r.read \in P!DroneRow
     /\ \/ r.write = r.read
        \/ P!CanFix(r.read) /\ r.write = P!MarkFixed(r.read)
        \/ r.read = P!NoDrone /\ r.write = P!NewDrone

(* A row that a request holds. *)
RowOK(r) ==
  /\ r = [table |-> r.table, id |-> r.id, read |-> r.read, write |-> r.write]
  /\ ReadFor(r)

RowsOK == row = [p \in Req |-> row[p]] /\ \A p \in Req : row[p] = NoRow \/ RowOK(row[p])

(* A request reads such a row. *)
LEMMA ReadOK ==
  ASSUME P!TypeOK, intent \in [Key -> Ops], TypeOK, RowsOK, NEW p \in Req, Read(p)
  PROVE  RowsOK'
<1>1. PICK a \in Ops : \/ a.kind = "heartbeat" /\ EnsureExists(p, a.drone)
                       \/ a.kind = "fixed" /\ MarkDroneFixed(p, a.drone)
                       \/ a.kind = "reroute" /\ AdminUpdateOrder(p, a.order, a.route)
  BY DEF Read, Asked, Ops, TypeOK
<1>2. PICK g \in Groups : a \in Operations(g)
  BY DEF Ops
<1>3. ASSUME NEW t, NEW x, NEW r, NEW w, ReadRow(p, t, x, r, w),
             RowOK([table |-> t, id |-> x, read |-> r, write |-> w])
      PROVE  RowsOK'
  BY <1>3 DEF ReadRow, RowsOK, RowOK
<1>4. CASE a.kind = "heartbeat" /\ EnsureExists(p, a.drone)
  <2>1. a.drone \in DroneID
    BY <1>2, <1>4, OperationTypes
  <2>2. RowOK([table |-> "drones", id |-> a.drone, read |-> drones[a.drone], write |-> drones[a.drone]])
    BY <2>1 DEF RowOK, ReadFor, P!TypeOK
  <2>3. RowOK([table |-> "drones", id |-> a.drone, read |-> NoDrone, write |-> NewDrone])
    BY <2>1 DEF RowOK, ReadFor, NoDrone, NewDrone, P!NoDrone, P!NewDrone, P!DroneRow
  <2> QED
    BY <1>3, <1>4, <2>2, <2>3 DEF EnsureExists
<1>5. CASE a.kind = "fixed" /\ MarkDroneFixed(p, a.drone)
  <2>1. a.drone \in DroneID
    BY <1>2, <1>5, OperationTypes
  <2>2. RowOK([table |-> "drones", id |-> a.drone, read |-> drones[a.drone],
               write |-> MarkFixed(drones[a.drone])])
    BY <1>5, <2>1 DEF RowOK, ReadFor, P!TypeOK, MarkDroneFixed, CanFix, P!CanFix, MarkFixed, P!MarkFixed
  <2> QED
    BY <1>3, <1>5, <2>2 DEF MarkDroneFixed
<1>6. CASE a.kind = "reroute" /\ AdminUpdateOrder(p, a.order, a.route)
  <2>1. a.order \in OrderID /\ a.route \in Route \cup {Nil}
    BY <1>2, <1>6, OperationTypes
  <2>2. /\ P!CanReroute(orders[a.order], a.route)
        /\ Reroute(orders[a.order], a.route) = P!Reroute(orders[a.order], a.route)
    BY <1>6 DEF AdminUpdateOrder, CanReroute, P!CanReroute, IsTerminal, P!IsTerminal,
                Reroute, P!Reroute
  <2>3. orders[a.order] \in P!OrderRow
    BY <2>1 DEF P!TypeOK
  <2>4. RowOK([table |-> "orders", id |-> a.order, read |-> orders[a.order],
               write |-> Reroute(orders[a.order], a.route)])
    BY <2>1, <2>2, <2>3 DEF RowOK, ReadFor
  <2> QED
    BY <1>3, <1>6, <2>4 DEF AdminUpdateOrder
<1> QED
  BY <1>1, <1>4, <1>5, <1>6

(* Its row is a row of the table, whatever was written in between. *)
LEMMA WriteTypes ==
  ASSUME P!TypeOK, NEW r, RowOK(r), Write(r)
  PROVE  P!TypeOK'
<1> USE NilAssumption
<1>1. CASE r.table = "orders"
  <2>1. r.id \in OrderID /\ r.read \in P!OrderRow
        /\ \E x \in Route \cup {Nil} : r.write = P!Reroute(r.read, x)
    BY <1>1 DEF RowOK, ReadFor
  <2>2. \A o \in P!OrderRow, x \in Route \cup {Nil} : P!Reroute(o, x) \in P!OrderRow
    BY P!OrderRows
  <2>3. orders' = [orders EXCEPT ![r.id] = r.write] /\ drones' = drones /\ jobs' = jobs
    BY <1>1 DEF Write
  <2> QED
    BY <2>1, <2>2, <2>3 DEF P!TypeOK
<1>2. CASE r.table = "drones"
  <2>1. r.id \in DroneID /\ r.write \in P!DroneRow
    BY <1>2, P!DroneRows, P!NewRows DEF RowOK, ReadFor
  <2>2. drones' = [drones EXCEPT ![r.id] = r.write] /\ orders' = orders /\ jobs' = jobs
    BY <1>2 DEF Write
  <2> QED
    BY <2>1, <2>2 DEF P!TypeOK
<1> QED
  BY <1>1, <1>2 DEF RowOK, ReadFor

(* If the row is still the one that was read, or already the one that is   *)
(* written, the write-back is the request of Delivery, or changes nothing; *)
(* neither moves a job.                                                    *)
LEMMA FreshWrite ==
  ASSUME P!TypeOK, NEW r, RowOK(r), Write(r), ~Overwrites(r)
  PROVE  \/ UNCHANGED P!vars
         \/ /\ P!Next
            /\ \/ \E d \in DroneID : P!MarkDroneFixed(d) \/ P!Heartbeat(d)
               \/ \E o \in OrderID, x \in Route \cup {Nil} : P!AdminUpdateOrder(o, x)
<1>0. orders \in [OrderID -> P!OrderRow] /\ drones \in [DroneID -> P!DroneRow]
  BY DEF P!TypeOK
<1>1. CASE r.table = "orders"
  <2>1. /\ r.id \in OrderID /\ orders[r.id] \in {r.read, r.write}
        /\ orders' = [orders EXCEPT ![r.id] = r.write] /\ drones' = drones /\ jobs' = jobs
    BY <1>1 DEF RowOK, ReadFor, Overwrites, Write
  <2>2. PICK x \in Route \cup {Nil} : P!CanReroute(r.read, x) /\ r.write = P!Reroute(r.read, x)
    BY <1>1 DEF RowOK, ReadFor
  <2>3. CASE orders[r.id] = r.write
    BY <1>0, <2>1, <2>3 DEF P!vars
  <2>4. CASE orders[r.id] = r.read
    <3>1. P!AdminUpdateOrder(r.id, x)
      BY <1>0, <2>1, <2>2, <2>4 DEF P!AdminUpdateOrder
    <3> QED
      BY <2>1, <3>1 DEF P!Next
  <2> QED
    BY <2>1, <2>3, <2>4
<1>2. CASE r.table = "drones"
  <2>1. /\ r.id \in DroneID /\ drones[r.id] \in {r.read, r.write}
        /\ drones' = [drones EXCEPT ![r.id] = r.write] /\ orders' = orders /\ jobs' = jobs
    BY <1>2 DEF RowOK, ReadFor, Overwrites, Write
  <2>2. CASE drones[r.id] = r.write
    BY <1>0, <2>1, <2>2 DEF P!vars
  <2>3. CASE drones[r.id] = r.read /\ P!CanFix(r.read) /\ r.write = P!MarkFixed(r.read)
    <3>1. P!MarkDroneFixed(r.id)
      BY <1>0, <2>1, <2>3 DEF P!MarkDroneFixed
    <3> QED
      BY <2>1, <3>1 DEF P!Next
  <2>4. CASE drones[r.id] = r.read /\ r.read = P!NoDrone /\ r.write = P!NewDrone
    <3>1. drones[r.id].status = "ABSENT"
      BY <2>4 DEF P!NoDrone
    <3>2. P!Heartbeat(r.id)
      BY <1>0, <2>1, <2>4, <3>1 DEF P!Heartbeat
    <3> QED
      BY <2>1, <3>2 DEF P!Next
  <2> QED
    BY <1>2, <2>1, <2>2, <2>3, <2>4 DEF RowOK, ReadFor
<1> QED
  BY <1>1, <1>2 DEF RowOK, ReadFor

-----------------------------------------------------------------------------
(* The invariant: the tables hold rows of their types, and the requests    *)
(* rows they can write; what a key has changed, it is done with.           *)
Done ==
  /\ P!TypeOK /\ RowsOK
  /\ intent \in [Key -> Ops]
  /\ changed \in [Key -> [JobID -> {0, 1}]]
  /\ \A k \in Key, j \in JobID : changed[k][j] = 1 => RowSpent(intent[k], j)

(* As long as nothing stale was written, the tables agree, so that every   *)
(* operation knows from them whether it was done; and what a key has       *)
(* moved, it is done with.                                                 *)
Agreed ==
  /\ P!IInv
  /\ moved \in [Key -> [JobID -> {0, 1}]]
  /\ \A k \in Key, j \in JobID : moved[k][j] = 1 => Spent(intent[k], j)

SInv == Balanced /\ Done /\ stale \in BOOLEAN /\ (~stale => Agreed)

LEMMA InitSInv == ServiceInit => SInv
<1> SUFFICES ASSUME ServiceInit PROVE SInv
  OBVIOUS
<1>1. Balanced
  BY InitBalanced DEF ServiceInit
<1>2. T!Init => P!Init
  BY DEF T!Init, P!Init, T!NoOrder, P!NoOrder, T!NoDrone, P!NoDrone, T!NewDrone, P!NewDrone, T!NoJob, P!NoJob
<1>3. P!IInv /\ P!TypeOK
  BY <1>2, P!InitIInv, P!TypeInit, NilAssumption DEF ServiceInit
<1>4. Done
  BY <1>3 DEF ServiceInit, Done, RowsOK, Ops
<1>5. Agreed
  BY <1>3 DEF ServiceInit, Agreed
<1> QED
  BY <1>1, <1>4, <1>5 DEF SInv, ServiceInit

(* What a count becomes. *)
LEMMA Count01 ==
  ASSUME NEW h, NEW n, NEW S, NEW p, n = Counted(h, p, S), h \in [Key -> [JobID -> {0, 1}]],
         \A k \in Key, j \in JobID : k = key[p] /\ j \in S => h[k][j] = 0
  PROVE  /\ n \in [Key -> [JobID -> {0, 1}]]
         /\ \A k \in Key, j \in JobID : n[k][j] = 1 => h[k][j] = 1 \/ (k = key[p] /\ j \in S)
<1>1. \A k \in Key, j \in JobID :
        n[k][j] = IF k = key[p] /\ j \in S THEN h[k][j] + 1 ELSE h[k][j]
  BY DEF Counted
<1>2. \A k \in Key, j \in JobID : h[k][j] \in {0, 1} /\ n[k][j] \in {0, 1}
  BY <1>1
<1>3. n = [k \in Key |-> [j \in JobID |-> n[k][j]]]
  BY DEF Counted
<1>4. n \in [Key -> [JobID -> {0, 1}]]
  BY <1>2, <1>3
<1> QED
  BY <1>1, <1>4

LEMMA ServeStep ==
  ASSUME SInv, NEW p \in Req, Serve(p)
  PROVE  Done' /\ stale' = stale /\ (~stale => Agreed')
<1>0. TypeOK /\ Done /\ P!TypeOK
  BY DEF SInv, Balanced, Done
<1>1. PICK a \in Ops : Handle(a) /\ (key[p] \in Key => a = intent[key[p]])
  <2>1. CASE key[p] = NoKey
    BY <1>0, <2>1, GatewayAssumption DEF Serve, Asked, TypeOK, Ops
  <2>2. CASE key[p] # NoKey
    BY <1>0, <2>2 DEF Serve, Asked, TypeOK, Done
  <2> QED
    BY <2>1, <2>2
<1>2. P!Next
  BY <1>1, HandlerStep
<1>3. P!TypeOK'
  BY <1>0, <1>2, P!TypeStep, NilAssumption
<1>4. /\ intent' = intent /\ row' = row /\ stale' = stale
      /\ changed' = Counted(changed, p, Changed) /\ moved' = Counted(moved, p, Moved)
  BY DEF Serve, Count
<1>5. RowsOK'
  BY <1>0, <1>4 DEF Done, RowsOK
<1>6. /\ \A k \in Key, j \in JobID : RowSpent(intent[k], j) => RowSpent(intent[k], j)'
      /\ \A k \in Key, j \in JobID :
           k = key[p] /\ j \in Changed => ~RowSpent(intent[k], j) /\ RowSpent(intent[k], j)'
  BY <1>0, <1>1, <1>4, RowSpentStays DEF RowSpent
<1>7. Done'
  <2>1. changed \in [Key -> [JobID -> {0, 1}]]
    BY <1>0 DEF Done
  <2>2. \A k \in Key, j \in JobID : changed[k][j] = 1 => RowSpent(intent[k], j)
    BY <1>0 DEF Done
  <2>3. \A k \in Key, j \in JobID : k = key[p] /\ j \in Changed => changed[k][j] = 0
    BY <1>6, <2>1, <2>2
  <2>4. /\ changed' \in [Key -> [JobID -> {0, 1}]]
        /\ \A k \in Key, j \in JobID :
             changed'[k][j] = 1 => changed[k][j] = 1 \/ (k = key[p] /\ j \in Changed)
    BY <1>4, <2>1, <2>3, Count01
  <2>5. \A k \in Key, j \in JobID : changed'[k][j] = 1 => RowSpent(intent[k], j)'
    BY <1>6, <2>2, <2>4
  <2> QED
    BY <1>0, <1>3, <1>4, <1>5, <2>4, <2>5 DEF Done, RowSpent
<1>8. ASSUME Agreed PROVE Agreed'
  <2>1. P!IInv'
    BY <1>2, <1>8, P!StepIInv, NilAssumption DEF Agreed
  <2>2. moved \in [Key -> [JobID -> {0, 1}]]
    BY <1>8 DEF Agreed
  <2>3. \A k \in Key, j \in JobID : moved[k][j] = 1 => Spent(intent[k], j)
    BY <1>8 DEF Agreed
  <2>4. /\ \A k \in Key, j \in JobID : Spent(intent[k], j) => Spent(intent[k], j)'
        /\ \A k \in Key, j \in JobID :
             k = key[p] /\ j \in Moved => ~Spent(intent[k], j) /\ Spent(intent[k], j)'
    <3> SUFFICES ASSUME NEW k \in Key, NEW j \in JobID
                 PROVE  /\ Spent(intent[k], j) => Spent(intent[k], j)'
                        /\ k = key[p] /\ j \in Moved => ~Spent(intent[k], j) /\ Spent(intent[k], j)'
      OBVIOUS
    <3>1. Spent(intent[k], j) => Spent(intent[k], j)'
      BY <1>2, <1>4, <1>8, SpentStays DEF Agreed, Spent, RowSpent
    <3>2. ASSUME k = key[p], j \in Moved PROVE ~Spent(intent[k], j) /\ Spent(intent[k], j)'
      <4>1. a = intent[k] /\ a = intent'[k]
        BY <1>1, <1>4, <3>2
      <4>2. ~Spent(a, j) /\ Spent(a, j)'
        BY <1>1, <1>8, <3>2, HandlerMoves DEF Agreed
      <4> QED
        BY <4>1, <4>2 DEF Spent, RowSpent
    <3> QED
      BY <3>1, <3>2
  <2>5. \A k \in Key, j \in JobID : k = key[p] /\ j \in Moved => moved[k][j] = 0
    BY <2>2, <2>3, <2>4
  <2>6. /\ moved' \in [Key -> [JobID -> {0, 1}]]
        /\ \A k \in Key, j \in JobID :
             moved'[k][j] = 1 => moved[k][j] = 1 \/ (k = key[p] /\ j \in Moved)
    BY <1>4, <2>2, <2>5, Count01
  <2>7. \A k \in Key, j \in JobID : moved'[k][j] = 1 => Spent(intent[k], j)'
    BY <2>3, <2>4, <2>6
  <2> QED
    BY <1>4, <2>1, <2>6, <2>7 DEF Agreed, Spent, RowSpent
<1> QED
  BY <1>4, <1>7, <1>8 DEF SInv

(* A write-back changes no job, and if it is not stale it moves none. *)
LEMMA WriteStep ==
  ASSUME SInv, NEW p \in Req, row[p] # NoRow, Write(row[p]),
         intent' = intent, RowsOK',
         \/ changed' = changed /\ moved' = moved
         \/ changed' = Counted(changed, p, Changed) /\ moved' = Counted(moved, p, Moved),
         stale' = (stale \/ Overwrites(row[p]))
  PROVE  Done' /\ stale' \in BOOLEAN /\ (~stale' => Agreed')
<1>0. TypeOK /\ Done /\ P!TypeOK /\ RowOK(row[p])
  BY DEF SInv, Balanced, Done, RowsOK
<1>1. jobs' = jobs /\ Changed = {}
  BY DEF Write, Changed
<1>2. P!TypeOK'
  BY <1>0, WriteTypes
<1>3. ASSUME NEW h, h \in [Key -> [JobID -> {0, 1}]] PROVE Counted(h, p, {}) = h
  BY <1>3 DEF Counted
<1>4. changed' = changed
  BY <1>0, <1>1, <1>3 DEF Done
<1>5. Done'
  BY <1>0, <1>1, <1>2, <1>4 DEF Done, RowSpent
<1>6. ASSUME ~stale' PROVE Agreed'
  <2>1. Agreed /\ ~Overwrites(row[p])
    BY <1>6 DEF SInv
  <2>2. \/ UNCHANGED P!vars
        \/ /\ P!Next
           /\ \/ \E d \in DroneID : P!MarkDroneFixed(d) \/ P!Heartbeat(d)
              \/ \E o \in OrderID, x \in Route \cup {Nil} : P!AdminUpdateOrder(o, x)
    BY <1>0, <2>1, FreshWrite
  <2>3. P!IInv'
    BY <2>1, <2>2, P!StepIInv, NilAssumption DEF Agreed
  <2>4. Moved = {}
    <3>1. \A j \in JobID : j \in Moved => P!Moves(j)
      BY DEF Moved, Changed, P!Moves
    <3>2. CASE UNCHANGED P!vars
      BY <3>1, <3>2 DEF P!vars, P!Moves, Moved, Changed
    <3>3. CASE \/ \E d \in DroneID : P!MarkDroneFixed(d) \/ P!Heartbeat(d)
               \/ \E o \in OrderID, x \in Route \cup {Nil} : P!AdminUpdateOrder(o, x)
      BY <2>1, <3>1, <3>3, P!NothingMoves, NilAssumption DEF Agreed, Moved, Changed
    <3> QED
      BY <2>2, <3>2, <3>3
  <2>5. moved' = moved
    BY <1>3, <2>1, <2>4 DEF Agreed
  <2>6. \A k \in Key, j \in JobID : Spent(intent[k], j) => Spent(intent[k], j)'
    <3>1. CASE UNCHANGED P!vars
      BY <3>1 DEF P!vars, Spent, RowSpent
    <3>2. CASE P!Next
      BY <2>1, <3>2, SpentStays DEF Agreed, Spent, RowSpent
    <3> QED
      BY <2>2, <3>1, <3>2
  <2> QED
    BY <2>1, <2>3, <2>5, <2>6 DEF Agreed, Spent, RowSpent
<1> QED
  BY <1>5, <1>6 DEF SInv

LEMMA StepSInv == SInv /\ [ServiceNext]_serviceVars => SInv'
<1> SUFFICES ASSUME SInv, [ServiceNext]_serviceVars PROVE SInv'
  OBVIOUS
<1>0. Balanced /\ TypeOK /\ Done /\ RowsOK
  BY DEF SInv, Balanced, Done
<1>1. Balanced'
  BY <1>0, StepBalanced DEF ServiceNext, serviceVars, Serve, Read, Upsert, Update, Handler, Next, vars
<1>2. ASSUME NEW p \in Req, Serve(p) PROVE SInv'
  BY <1>1, <1>2, ServeStep DEF SInv
<1>3. ASSUME UNCHANGED <<orders, drones, jobs, intent, changed, moved, stale>>, RowsOK'
      PROVE  SInv'
  <2>1. P!TypeOK' /\ (P!IInv => P!IInv')
    BY <1>0, <1>3, P!TypeStep, P!StepIInv, NilAssumption DEF Done, P!vars
  <2>2. Done'
    BY <1>0, <1>3, <2>1 DEF Done, RowSpent
  <2>3. Agreed => Agreed'
    BY <1>3, <2>1 DEF Agreed, Spent, RowSpent
  <2> QED
    BY <1>1, <1>3, <2>2, <2>3 DEF SInv
<1>4. ASSUME NEW p \in Req, Read(p) PROVE SInv'
  BY <1>0, <1>3, <1>4, ReadOK DEF Read, Done
<1>5. ASSUME NEW p \in Req, Upsert(p) PROVE SInv'
  <2>1. RowOK(row[p])
    BY <1>0, <1>5 DEF RowsOK, Upsert
  <2>2. RowsOK'
    <3>1. row[p].read = P!NoDrone /\ row[p].read.status = "ABSENT"
      BY <1>5 DEF Upsert, NoDrone, P!NoDrone
    <3>2. /\ row[p].table = "drones" /\ row[p].id \in DroneID
          /\ row[p].write \in {row[p].read, P!NewDrone} /\ row[p].read \in P!DroneRow
      BY <2>1, <3>1 DEF RowOK, ReadFor, P!CanReroute, P!CanFix
    <3>3. row[p].write \in P!DroneRow
      BY <3>2, P!NewRows, NilAssumption
    <3>4. row' = [row EXCEPT ![p].read = row[p].write]
      BY <1>5 DEF Upsert
    <3>5. row'[p] = [row[p] EXCEPT !.read = row[p].write]
      BY <1>0, <3>4 DEF RowsOK
    <3>6. RowOK(row'[p])
      <4> DEFINE r == row[p]
      <4>1. r = [table |-> r.table, id |-> r.id, read |-> r.read, write |-> r.write]
        BY <2>1 DEF RowOK
      <4> HIDE DEF r
      <4>2. [r EXCEPT !.read = r.write] =
              [table |-> r.table, id |-> r.id, read |-> r.write, write |-> r.write]
        BY <4>1
      <4> QED
        BY <3>2, <3>3, <3>5, <4>2 DEF RowOK, ReadFor, r
    <3> QED
      BY <1>0, <3>4, <3>6 DEF RowsOK
  <2> QED
    BY <1>1, <1>5, <2>2, WriteStep DEF Upsert, SInv
<1>6. ASSUME NEW p \in Req, Update(p) PROVE SInv'
  <2>1. RowsOK'
    BY <1>0, <1>6 DEF RowsOK, Update
  <2> QED
    BY <1>1, <1>6, <2>1, WriteStep DEF Update, Count, SInv
<1>7. CASE row' = [p \in Req |-> IF pc'[p] = "idle" THEN NoRow ELSE row[p]]
           /\ UNCHANGED <<orders, drones, jobs, intent, changed, moved, stale>>
  BY <1>0, <1>3, <1>7 DEF RowsOK
<1>8. CASE UNCHANGED serviceVars
  BY <1>0, <1>3, <1>8 DEF RowsOK, serviceVars
<1>9. CASE \E p \in Req : Serve(p) \/ Read(p) \/ Upsert(p) \/ Update(p)
  BY <1>2, <1>4, <1>5, <1>6, <1>9
<1> QED
  BY <1>7, <1>8, <1>9 DEF ServiceNext

(* However often a request is sent again, and however late it arrives, it  *)
(* changes the row of a job once at most, also when stale rows are written *)
(* back; and as long as none is, it picks up its order once at most.       *)
THEOREM NeverMovesAJobTwice == ServiceSpec => []MovesJobOnce
<1>1. SInv => MovesJobOnce
  <2> SUFFICES ASSUME SInv, NEW k \in Key, NEW j \in JobID
               PROVE  changed[k][j] <= 1 /\ (moved[k][j] > 1 => stale)
    BY DEF MovesJobOnce
  <2>1. changed[k][j] \in {0, 1}
    BY DEF SInv, Done
  <2>2. ~stale => moved[k][j] \in {0, 1}
    BY DEF SInv, Agreed
  <2> QED
    BY <2>1, <2>2
<1> QED
  BY <1>1, InitSInv, StepSInv, PTL DEF ServiceSpec

(* Until a stale row is written back, the three tables agree as Delivery   *)
(* says: the mirror of orders and drones, one live job, and the rest.      *)
THEOREM ServiceKeepsTablesUnlessStale == ServiceSpec => [](stale \/ P!IInv)
<1>1. SInv => stale \/ P!IInv
  BY DEF SInv, Agreed
<1> QED
  BY <1>1, InitSInv, StepSInv, PTL DEF ServiceSpec
=============================================================================
