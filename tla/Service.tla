------------------------------- MODULE Service -------------------------------
(***************************************************************************)
(* The routes as a whole: the middleware of Gateway around the handlers,   *)
(* for the requests that change orders, drones and jobs.  The workflows of *)
(* internal/delivery take effect in one step (DeliveryTx); the handlers    *)
(* without a transaction read a row in one step, and write the whole row   *)
(* back in a later one.                                                    *)
(***************************************************************************)
EXTENDS Gateway, Aggregates

CONSTANT NoRow  \* no row was read

VARIABLES
  orders, drones, jobs,  \* the tables
  row,     \* row[p]: the row that request p read, and what it will write
  intent,  \* intent[k]: the operation a client wants done under key k
  changed, \* changed[k][j]: history, how often key k changed the row of job j
  moved,   \* moved[k][j]: history, how often it changed that row or its order
  stale    \* history: a row was written back over another than was read

T == INSTANCE Delivery

serviceVars == <<vars, orders, drones, jobs, row, intent, changed, moved, stale>>

(* The operations, by the group of their route: what the handler reads     *)
(* from the path, the body and the token.                                  *)
Operations(g) ==
  CASE g = "enduser"   -> [kind : {"place"}] \cup [kind : {"withdraw"}, order : OrderID]
    [] g = "drone"     -> [kind : {"reserve"}, job : JobID, drone : DroneID]
                          \cup [kind : {"grab", "complete"}, order : OrderID, drone : DroneID]
                          \cup [kind : {"broken"}, drone : DroneID]
    [] g = "heartbeat" -> [kind : {"heartbeat"}, drone : DroneID]
    [] g = "admin"     -> [kind : {"broken", "fixed"}, drone : DroneID]
                          \cup [kind : {"reroute"}, order : OrderID, route : Route \cup {Nil}]

(* A request under a key is for the operation of the key. *)
Asked(p) == IF key[p] = NoKey THEN Operations(group[p]) ELSE {intent[key[p]]}

(* The jobs whose row a step changes, and those it moves: their row        *)
(* changes, or the order of a reserved one goes on.                        *)
Changed == {j \in JobID : jobs[j].status # "ABSENT" /\ jobs'[j] # jobs[j]}
Moved ==
  Changed \cup {j \in JobID :
                  /\ jobs[j].status = "RESERVED"
                  /\ orders'[jobs[j].order].status # orders[jobs[j].order].status}

Counted(h, p, S) ==
  [k \in Key |-> [j \in JobID |-> IF k = key[p] /\ j \in S THEN h[k][j] + 1 ELSE h[k][j]]]

Count(p) ==
  /\ changed' = Counted(changed, p, Changed)
  /\ moved' = Counted(moved, p, Moved)

-----------------------------------------------------------------------------
(* The handlers with a transaction. *)

Handle(a) ==
  \/ /\ a.kind = "place"
     /\ \E r \in Route, o \in OrderID, j \in JobID : T!CreateOrderAndJob(r, o, j)
  \/ a.kind = "withdraw" /\ T!CancelOrderAndJob(a.order)
  \/ a.kind = "reserve" /\ T!ReserveJobAndAssign(a.job, a.drone)
  \/ a.kind = "grab" /\ T!GrabOrder(a.order, a.drone)
  \/ /\ a.kind = "complete"
     /\ \E outcome \in {"DELIVERED", "FAILED"} : T!CompleteDelivery(a.order, a.drone, outcome)
  \/ a.kind = "broken" /\ T!HandleDroneBroken(a.drone)

Serve(p) ==
  /\ row[p] = NoRow
  /\ Handler(p)
  /\ \E a \in Asked(p) : Handle(a)
  /\ Count(p)
  /\ UNCHANGED <<row, intent, stale>>

-----------------------------------------------------------------------------
(* The handlers without. *)

ReadRow(p, table, x, read, write) ==
  row' = [row EXCEPT ![p] = [table |-> table, id |-> x, read |-> read, write |-> write]]

(* EnsureExists takes any error of its read for a missing row. *)
EnsureExists(p, d) ==
  \/ drones[d].status # "ABSENT" /\ ReadRow(p, "drones", d, drones[d], drones[d])
  \/ ReadRow(p, "drones", d, NoDrone, NewDrone)

MarkDroneFixed(p, d) ==
  CanFix(drones[d]) /\ ReadRow(p, "drones", d, drones[d], MarkFixed(drones[d]))

AdminUpdateOrder(p, o, r) ==
  CanReroute(orders[o], r) /\ ReadRow(p, "orders", o, orders[o], Reroute(orders[o], r))

Read(p) ==
  /\ pc[p] = "open" /\ row[p] = NoRow
  /\ \E a \in Asked(p) :
       \/ a.kind = "heartbeat" /\ EnsureExists(p, a.drone)
       \/ a.kind = "fixed" /\ MarkDroneFixed(p, a.drone)
       \/ a.kind = "reroute" /\ AdminUpdateOrder(p, a.order, a.route)
  /\ UNCHANGED <<vars, orders, drones, jobs, intent, changed, moved, stale>>

(* The UPDATE of all columns of a row r, or its Upsert. *)
Write(r) ==
  /\ orders' = IF r.table = "orders" THEN [orders EXCEPT ![r.id] = r.write] ELSE orders
  /\ drones' = IF r.table = "drones" THEN [drones EXCEPT ![r.id] = r.write] ELSE drones
  /\ UNCHANGED jobs

(* Neither what was read nor what is written is in the table any more. *)
Overwrites(r) ==
  (IF r.table = "orders" THEN orders[r.id] ELSE drones[r.id]) \notin {r.read, r.write}

(* A drone that was not found is inserted, then updated. *)
Upsert(p) ==
  /\ row[p] # NoRow /\ row[p].read = NoDrone
  /\ Write(row[p])
  /\ row' = [row EXCEPT ![p].read = row[p].write]
  /\ stale' = (stale \/ Overwrites(row[p]))
  /\ UNCHANGED <<vars, intent, changed, moved>>

Update(p) ==
  /\ row[p] # NoRow /\ row[p].read # NoDrone
  /\ ExecuteOpen(p)
  /\ Write(row[p])
  /\ row' = [row EXCEPT ![p] = NoRow]
  /\ stale' = (stale \/ Overwrites(row[p]))
  /\ Count(p)
  /\ UNCHANGED intent

-----------------------------------------------------------------------------
(* A key goes to the route of its operation. *)
Routed == \A p \in Req : key[p] # NoKey => intent[key[p]] \in Operations(group[p])

ServiceInit ==
  /\ Init /\ T!Init
  /\ row = [p \in Req |-> NoRow]
  /\ intent \in [Key -> UNION {Operations(g) : g \in Groups}]
  /\ changed = [k \in Key |-> [j \in JobID |-> 0]]
  /\ moved = [k \in Key |-> [j \in JobID |-> 0]]
  /\ stale = FALSE

ServiceNext ==
  \/ /\ Around
     /\ row' = [p \in Req |-> IF pc'[p] = "idle" THEN NoRow ELSE row[p]]
     /\ UNCHANGED <<orders, drones, jobs, intent, changed, moved, stale>>
     /\ Routed'
  \/ \E p \in Req : Serve(p) \/ Read(p) \/ Upsert(p) \/ Update(p)

ServiceSpec == ServiceInit /\ [][ServiceNext]_serviceVars

-----------------------------------------------------------------------------
(* However often and however late a request reaches its handler, because   *)
(* its answer was lost, expired or overtaken by another attempt, or        *)
(* because its route has no idempotency middleware, it changes the row of  *)
(* a job once at most: a reservation that arrives again after the order    *)
(* was handed back does not revive the old job, and a report that does can *)
(* at worst close the job of the next leg.  Nor does a grab pick up the    *)
(* order of the same job again, unless a stale row was written back: that  *)
(* may undo the first one.                                                 *)
MovesJobOnce ==
  \A k \in Key, j \in JobID :
    changed[k][j] <= 1 /\ (moved[k][j] > 1 => stale)
=============================================================================
