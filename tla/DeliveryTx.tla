----------------------------- MODULE DeliveryTx -----------------------------
(***************************************************************************)
(* The workflows of Delivery as the code runs them: concurrent HTTP        *)
(* handlers, each a sequence of SQL statements on a PostgreSQL database at *)
(* READ COMMITTED.  The handlers of internal/delivery run in a transaction *)
(* and lock every row before they decide on it (SELECT ... FOR UPDATE).    *)
(* Heartbeat, MarkDroneFixed and AdminUpdateOrder read a row without a     *)
(* lock and later write the whole row back.                                *)
(*                                                                         *)
(* A step is one statement, with the Go code between it and the next one.  *)
(* Of PostgreSQL the model keeps row locks, the visibility of committed    *)
(* rows, rollback and deadlock detection.                                  *)
(***************************************************************************)
EXTENDS Aggregates

CONSTANTS
  Req,     \* slots for requests being served
  Kinds,   \* the kinds of request that occur
  Alone    \* a request that reads without a lock has its row to itself,
           \* and its read does not fail

TxKinds       == {"CREATE", "CANCEL", "RESERVE", "GRAB", "COMPLETE", "BROKEN"}
UnlockedKinds == {"BEAT", "FIXED", "ADMIN"}

(* Locks are named by the identifier of the row. *)
ASSUME TxAssumption ==
  /\ Kinds \subseteq TxKinds \cup UnlockedKinds /\ Alone \in BOOLEAN
  /\ OrderID \cap DroneID = {} /\ OrderID \cap JobID = {} /\ DroneID \cap JobID = {}

VARIABLES
  orders, drones, jobs,   \* the committed tables
  pc,     \* pc[p]: the next statement of request p
  req,    \* req[p]: what the request asks for
  held,   \* held[p]: the locks of its transaction, as <<row, mode>>
  buf     \* buf[p]: rows it has written and not committed, or will write back

tables == <<orders, drones, jobs>>
vars   == <<orders, drones, jobs, pc, req, held, buf>>

Rq(k, o, d, j, a) == [kind |-> k, order |-> o, drone |-> d, job |-> j, arg |-> a]
NoReq == Rq("NONE", Nil, Nil, Nil, Nil)

(* The requests a client can send; arg is a route or an outcome. *)
Requests ==
  { q \in
    {Rq("CREATE", Nil, Nil, Nil, r) : r \in Route}
      \cup {Rq("CANCEL", o, Nil, Nil, Nil) : o \in OrderID}
      \cup {Rq("ADMIN", o, Nil, Nil, r) : o \in OrderID, r \in Route \cup {Nil}}
      \cup {Rq("RESERVE", Nil, d, j, Nil) : d \in DroneID, j \in JobID}
      \cup {Rq("GRAB", o, d, Nil, Nil) : o \in OrderID, d \in DroneID}
      \cup {Rq("COMPLETE", o, d, Nil, s) :
              o \in OrderID, d \in DroneID, s \in {"DELIVERED", "FAILED"}}
      \cup {Rq(k, Nil, d, Nil, Nil) : k \in {"BROKEN", "FIXED", "BEAT"}, d \in DroneID}
  : q.kind \in Kinds }

(* The first statement of a handler. *)
First ==
  [CREATE |-> "create", CANCEL |-> "cancel_order", RESERVE |-> "reserve_job",
   GRAB |-> "grab_order", COMPLETE |-> "complete_order", BROKEN |-> "broken_drone",
   BEAT |-> "beat_read", FIXED |-> "fixed_read", ADMIN |-> "admin_read"]

Init ==
  /\ orders = [o \in OrderID |-> NoOrder]
  /\ drones \in [DroneID -> {NoDrone, NewDrone}]
  /\ jobs   = [j \in JobID |-> NoJob]
  /\ pc   = [p \in Req |-> "idle"]
  /\ req  = [p \in Req |-> NoReq]
  /\ held = [p \in Req |-> {}]
  /\ buf  = [p \in Req |-> <<>>]

-----------------------------------------------------------------------------
(* Locks. *)

(* FOR UPDATE, the lock of an UPDATE that changes no key, and the lock a   *)
(* foreign key takes on the row it names.                                  *)
Conflicting(m, n) ==
  \/ "UPDATE" \in {m, n}
  \/ m = "NOKEY" /\ n = "NOKEY"

(* Mutants: a plain SELECT. *)
OrderUnlocked(o) == {}
DroneUnlocked(d) == {}

(* SELECT ... FOR UPDATE of the three repositories. *)
OrderForUpdate(o) == {<<o, "UPDATE">>}
DroneForUpdate(d) == {<<d, "UPDATE">>}
JobForUpdate(j)   == {<<j, "UPDATE">>}
JobOfOrderForUpdate(o) == {<<j, "UPDATE">> : j \in {i \in JobID : IsJobOf(jobs[i], o)}}

(* The rows the WHERE clause of CancelByOrderID accepts. *)
JobsToCancel(o) == {j \in JobID : CanCancelJob(jobs[j], o)}

(* The locks the next statement of p takes, handler by handler. *)

ReserveLocks(p) ==
  LET j == req[p].job IN
  CASE pc[p] = "reserve_job"   -> JobForUpdate(j)
    [] pc[p] = "reserve_link"  -> {<<req[p].drone, "KEYSHARE">>}
    [] pc[p] = "reserve_order" -> OrderForUpdate(jobs[j].order)
    [] pc[p] = "reserve_drone" -> DroneForUpdate(req[p].drone)

GrabLocks(p) ==
  CASE pc[p] = "grab_order" -> OrderForUpdate(req[p].order)
    [] pc[p] = "grab_drone" -> DroneForUpdate(req[p].drone)

(* Mutant: the job is locked first, the order last. *)
CompleteLocksJobFirst(p) ==
  CASE pc[p] = "complete_order" -> JobOfOrderForUpdate(req[p].order)
    [] pc[p] = "complete_drone" -> DroneForUpdate(req[p].drone)
    [] pc[p] = "complete_job"   -> OrderForUpdate(req[p].order)

CompleteLocks(p) ==
  CASE pc[p] = "complete_order" -> OrderForUpdate(req[p].order)
    [] pc[p] = "complete_drone" -> DroneForUpdate(req[p].drone)
    [] pc[p] = "complete_job"   -> JobOfOrderForUpdate(req[p].order)

(* An UPDATE locks only rows its WHERE clause accepts. *)
CancelLocks(p) ==
  LET o == req[p].order IN
  CASE pc[p] = "cancel_order" -> {<<x, "NOKEY">> : x \in {o} \cap {y \in OrderID : CanCancelOrder(orders[y])}}
    [] pc[p] = "cancel_jobs"  -> {<<j, "NOKEY">> : j \in JobsToCancel(o)}

BrokenLocks(p) ==
  LET o == drones[req[p].drone].order IN
  CASE pc[p] = "broken_drone" -> DroneForUpdate(req[p].drone)
    [] pc[p] = "broken_order" -> OrderForUpdate(o)
    [] pc[p] = "broken_jobs"  -> {<<j, "NOKEY">> : j \in JobsToCancel(o)}

(* Writing back a row locks it; then, for a drone row with another order   *)
(* than the stored one, the foreign key locks that order.                  *)
SaveLocks(p) == {<<x, "NOKEY">> : x \in DOMAIN buf[p]}
SaveLinkLocks(p) ==
  {<<buf[p][d].order, "KEYSHARE">> :
     d \in {x \in DOMAIN buf[p] \cap DroneID : buf[p][x].order \notin {Nil, drones[x].order}}}

Wants(p) ==
  CASE req[p].kind = "RESERVE" /\ pc[p] # "commit"  -> ReserveLocks(p)
    [] req[p].kind = "GRAB" /\ pc[p] # "commit"     -> GrabLocks(p)
    [] req[p].kind = "COMPLETE" /\ pc[p] # "commit" -> CompleteLocks(p)
    [] req[p].kind = "CANCEL" /\ pc[p] # "commit"   -> CancelLocks(p)
    [] req[p].kind = "BROKEN" /\ pc[p] # "commit"   -> BrokenLocks(p)
    [] pc[p] \in {"beat_insert", "save"}            -> SaveLocks(p)
    [] pc[p] = "save_link"                          -> SaveLinkLocks(p)
    [] OTHER -> {}

WaitsFor(p, q) ==
  /\ p # q
  /\ \E w \in Wants(p), h \in held[q] : w[1] = h[1] /\ Conflicting(w[2], h[2])

Granted(p) == \A q \in Req : ~WaitsFor(p, q)

(* The waits lead from p back to p: it is in every set that has those it   *)
(* waits for, and with each request those this one waits for.              *)
Deadlocked(p) ==
  \A S \in SUBSET Req :
    (\A x \in S \cup {p}, y \in Req : WaitsFor(x, y) => y \in S) => p \in S

-----------------------------------------------------------------------------
(* Statements and transactions. *)

(* Rows of a buffer: one of them, and those of f over those of g.          *)
Row(x, value) == [y \in {x} |-> value]
Over(f, g) == [x \in DOMAIN f \cup DOMAIN g |-> IF x \in DOMAIN f THEN f[x] ELSE g[x]]

(* Mutant: the transaction is left open. *)
RollbackForgotten(p) ==
  /\ pc' = [pc EXCEPT ![p] = "idle"]
  /\ req' = [req EXCEPT ![p] = NoReq]
  /\ buf' = [buf EXCEPT ![p] = <<>>]
  /\ UNCHANGED <<tables, held>>

(* The deferred tx.Rollback(): of a refused, interrupted or failed request *)
(* nothing remains.                                                        *)
Rollback(p) ==
  /\ pc' = [pc EXCEPT ![p] = "idle"]
  /\ req' = [req EXCEPT ![p] = NoReq]
  /\ held' = [held EXCEPT ![p] = {}]
  /\ buf' = [buf EXCEPT ![p] = <<>>]
  /\ UNCHANGED tables

(* One statement of a transaction: wait for its locks, then either go on   *)
(* to next with the rows it writes, or refuse the request.                 *)
Statement(p, this, next, ok, rows) ==
  /\ pc[p] = this
  /\ Granted(p)
  /\ IF ok
     THEN /\ pc' = [pc EXCEPT ![p] = next]
          /\ held' = [held EXCEPT ![p] = @ \cup Wants(p)]
          /\ buf' = [buf EXCEPT ![p] = Over(rows, @)]
          /\ UNCHANGED <<tables, req>>
     ELSE Rollback(p)

(* A read that locks nothing, before the row is written back. *)
Read(p, this, ok, row, value) ==
  /\ pc[p] = this
  /\ IF ok
     THEN /\ pc' = [pc EXCEPT ![p] = "save"]
          /\ buf' = [buf EXCEPT ![p] = Row(row, value)]
          /\ UNCHANGED <<tables, req, held>>
     ELSE Rollback(p)

Written(p, table) ==
  [x \in DOMAIN table |-> IF x \in DOMAIN buf[p] THEN buf[p][x] ELSE table[x]]

(* COMMIT; that of a transaction of one statement follows the check of its *)
(* foreign key.                                                            *)
Commit(p) ==
  /\ pc[p] \in {"commit", "save_link"}
  /\ Granted(p)
  /\ orders' = Written(p, orders)
  /\ drones' = Written(p, drones)
  /\ jobs' = Written(p, jobs)
  /\ pc' = [pc EXCEPT ![p] = "idle"]
  /\ req' = [req EXCEPT ![p] = NoReq]
  /\ held' = [held EXCEPT ![p] = {}]
  /\ buf' = [buf EXCEPT ![p] = <<>>]

(* The client goes away, the connection breaks or the server dies. *)
Abort(p) ==
  /\ pc[p] # "idle"
  /\ Rollback(p)

(* PostgreSQL breaks a deadlock by failing one of the transactions. *)
DeadlockVictim(p) ==
  /\ Deadlocked(p)
  /\ Rollback(p)

(* The orders and drones that a request may change. *)
RowsOf(q) ==
  { q.order, q.drone,
    IF q.job # Nil THEN jobs[q.job].order ELSE Nil,
    IF q.kind = "BROKEN" THEN drones[q.drone].order ELSE Nil } \ {Nil}

Clash(q, r) == {q.kind, r.kind} \cap UnlockedKinds # {} /\ RowsOf(q) \cap RowsOf(r) # {}

(* An administrator updates an order that is there.                        *)
HasItsRow(q) ==
  /\ q.kind = "ADMIN" => orders[q.order].status # "ABSENT"
  /\ \A r \in Req : ~Clash(q, req[r])

Start(p) ==
  /\ pc[p] = "idle"
  /\ \E q \in Requests :
       /\ Alone => HasItsRow(q)
       /\ req' = [req EXCEPT ![p] = q]
       /\ pc' = [pc EXCEPT ![p] = First[q.kind]]
  /\ UNCHANGED <<tables, held, buf>>

-----------------------------------------------------------------------------
(* internal/delivery/repo.go, statement by statement. *)

(* Fresh UUIDs: neither committed nor on their way. *)
FreshOrder(o) == orders[o].status = "ABSENT" /\ \A q \in Req : o \notin DOMAIN buf[q]
FreshJob(j)   == jobs[j].status = "ABSENT" /\ \A q \in Req : j \notin DOMAIN buf[q]

(* Bound of the model: once OrderID or JobID is used up, a request that    *)
(* needs an identifier is given up, like an interrupted one.               *)
OutOfIdentifiers(p) ==
  /\ \/ pc[p] = "create" /\ ~\E o \in OrderID : FreshOrder(o)
     \/ pc[p] \in {"create", "broken_jobs"} /\ ~\E j \in JobID : FreshJob(j)
  /\ Rollback(p)

CreateOrderAndJob(p) ==
  \E o \in OrderID, j \in JobID :
    /\ FreshOrder(o) /\ FreshJob(j)
    /\ Statement(p, "create", "commit", TRUE, Over(Row(o, NewOrder(req[p].arg)), Row(j, NewJob(o))))

CancelOrder1(p) ==
  LET o == req[p].order IN
  Statement(p, "cancel_order", "cancel_jobs", CanCancelOrder(orders[o]),
            Row(o, CancelOrder(orders[o])))

CancelJobs2(p) ==
  LET js == JobsToCancel(req[p].order) IN
  Statement(p, "cancel_jobs", "commit", js # {}, [j \in js |-> CancelJob(jobs[j])])

ReserveJob1(p) ==
  LET j == req[p].job IN
  Statement(p, "reserve_job", "reserve_link", CanReserveJob(jobs[j]),
            Row(j, ReserveJob(jobs[j], req[p].drone)))

(* The foreign key of the UPDATE of jobs. *)
ReserveLink2(p) ==
  Statement(p, "reserve_link", "reserve_order", drones[req[p].drone].status # "ABSENT", <<>>)

ReserveOrder3(p) ==
  LET o == jobs[req[p].job].order IN
  Statement(p, "reserve_order", "reserve_drone", CanAssign(orders[o]),
            Row(o, Assign(orders[o], req[p].drone)))

ReserveDrone4(p) ==
  LET d == req[p].drone IN
  Statement(p, "reserve_drone", "commit", CanReserveDrone(drones[d]),
            Row(d, ReserveDrone(drones[d], jobs[req[p].job].order)))

GrabOrder1(p) ==
  LET o == req[p].order IN
  Statement(p, "grab_order", "grab_drone",
            orders[o].drone = req[p].drone /\ CanPickUp(orders[o]),
            Row(o, MarkPickedUp(orders[o])))

GrabDrone2(p) ==
  LET d == req[p].drone IN
  Statement(p, "grab_drone", "commit", CanStartDelivery(drones[d]),
            Row(d, StartDelivery(drones[d])))

CompleteOrder1(p) ==
  LET o == req[p].order IN
  Statement(p, "complete_order", "complete_drone",
            orders[o].drone = req[p].drone /\ CanFinish(orders[o]),
            Row(o, MarkFinished(orders[o], req[p].arg)))

CompleteDrone2(p) ==
  LET d == req[p].drone IN
  Statement(p, "complete_drone", "complete_job", drones[d].status # "ABSENT",
            Row(d, GoIdle(drones[d])))

CompleteJob3(p) ==
  LET js == {j \in JobID : IsJobOf(jobs[j], req[p].order) /\ CanCompleteJob(jobs[j])} IN
  Statement(p, "complete_job", "commit", js # {}, [j \in js |-> CompleteJob(jobs[j])])

(* MarkBroken returns the order the drone carried; the row stays locked.   *)
BrokenDrone1(p) ==
  LET d == req[p].drone IN
  Statement(p, "broken_drone",
            IF drones[d].order = Nil THEN "commit" ELSE "broken_order",
            CanBreak(drones[d]), Row(d, MarkBroken(drones[d])))

BrokenOrder2(p) ==
  LET o == drones[req[p].drone].order IN
  Statement(p, "broken_order", "broken_jobs", CanAwaitHandoff(orders[o]),
            Row(o, AwaitHandoff(orders[o])))

(* Mutant: the new job is inserted, the old one is not cancelled. *)
BrokenJobsKeepOld(p) ==
  \E new \in JobID :
    /\ FreshJob(new)
    /\ Statement(p, "broken_jobs", "commit", TRUE,
                 Row(new, NewJob(drones[req[p].drone].order)))

BrokenJobs3(p) ==
  LET o  == drones[req[p].drone].order
      js == JobsToCancel(o)
  IN \E new \in JobID :
       /\ FreshJob(new)
       /\ Statement(p, "broken_jobs", "commit", js # {},
                    Over(Row(new, NewJob(o)), [j \in js |-> CancelJob(jobs[j])]))

-----------------------------------------------------------------------------
(* Handlers without a transaction. *)

(* EnsureExists takes any error of its read for a missing row.             *)
BeatRead(p) ==
  LET d == req[p].drone IN
  /\ pc[p] = "beat_read"
  /\ \/ drones[d].status # "ABSENT" /\ Read(p, "beat_read", TRUE, d, drones[d])
     \/ /\ Alone => drones[d].status = "ABSENT"
        /\ pc' = [pc EXCEPT ![p] = "beat_insert"]
        /\ buf' = [buf EXCEPT ![p] = Row(d, NewDrone)]
        /\ UNCHANGED <<tables, req, held>>

(* The Upsert, which overwrites a row that is there after all. *)
BeatInsert(p) ==
  /\ pc[p] = "beat_insert"
  /\ Granted(p)
  /\ drones' = Written(p, drones)
  /\ pc' = [pc EXCEPT ![p] = "save"]
  /\ UNCHANGED <<orders, jobs, req, held, buf>>

(* The UPDATE of all columns by Update; the row stays locked. *)
Save(p) == Statement(p, "save", "save_link", TRUE, <<>>)

FixedRead(p) ==
  LET d == req[p].drone IN
  Read(p, "fixed_read", CanFix(drones[d]), d, MarkFixed(drones[d]))

AdminRead(p) ==
  LET o == req[p].order IN
  Read(p, "admin_read", CanReroute(orders[o], req[p].arg), o,
       Reroute(orders[o], req[p].arg))

-----------------------------------------------------------------------------
Step(p) ==
  \/ CreateOrderAndJob(p) \/ OutOfIdentifiers(p)
  \/ CancelOrder1(p) \/ CancelJobs2(p)
  \/ ReserveJob1(p) \/ ReserveLink2(p) \/ ReserveOrder3(p) \/ ReserveDrone4(p)
  \/ GrabOrder1(p) \/ GrabDrone2(p)
  \/ CompleteOrder1(p) \/ CompleteDrone2(p) \/ CompleteJob3(p)
  \/ BrokenDrone1(p) \/ BrokenOrder2(p) \/ BrokenJobs3(p)
  \/ BeatRead(p) \/ BeatInsert(p) \/ FixedRead(p) \/ AdminRead(p)
  \/ Save(p) \/ Commit(p)

Next == \E p \in Req : Start(p) \/ Step(p) \/ Abort(p) \/ DeadlockVictim(p)

Spec == Init /\ [][Next]_vars

(* PostgreSQL queues the waiters of a row, so a request that can proceed   *)
(* again and again proceeds; and it finds every deadlock.  No client has   *)
(* to send anything, or to wait for its answer.                            *)
LiveSpec ==
  /\ Spec
  /\ \A p \in Req : SF_vars(Step(p))
  /\ WF_vars(\E p \in Req : DeadlockVictim(p))

-----------------------------------------------------------------------------
(* Properties. *)

TypeOK ==
  /\ orders \in [OrderID -> OrderRow]
  /\ drones \in [DroneID -> DroneRow]
  /\ jobs \in [JobID -> JobRow]
  /\ \A p \in Req :
       /\ req[p] \in Requests \cup {NoReq}
       /\ pc[p] = "idle" <=> req[p] = NoReq
       /\ held[p] \subseteq (OrderID \cup DroneID \cup JobID) \X {"UPDATE", "NOKEY", "KEYSHARE"}
       /\ DOMAIN buf[p] \subseteq OrderID \cup DroneID \cup JobID
       /\ pc[p] = "idle" => held[p] = {} /\ buf[p] = <<>>

(* The committed tables are the refinement mapping. *)
Atomic == INSTANCE Delivery WITH orders <- orders, drones <- drones, jobs <- jobs

(* The transactions of internal/delivery, however they interleave and are  *)
(* interrupted, change the tables exactly as the indivisible steps of      *)
(* Delivery do; and so do heartbeats, repairs and admin updates as long as *)
(* each has its row to itself.                                             *)
Refines == Atomic!Spec

(* Whatever stale rows the unlocked handlers write back, no order is ever  *)
(* on offer twice or delivered by two drones.                              *)
OneLiveJob == Atomic!OneLiveJob

(* ... and a job that is completed or cancelled stays so: an order that a  *)
(* stale write revives cannot be delivered a second time.                  *)
ClosedJobsFinal ==
  [][\A j \in JobID :
       jobs[j].status \in {"COMPLETED", "CANCELLED"} => jobs'[j] = jobs[j]]_vars

(* Customers' requests and drones that only pick up and deliver never      *)
(* deadlock: every deadlock involves a reservation or a breakdown, which   *)
(* lock the rows in another order, or a heartbeat that writes an old order *)
(* back, and waits for it with the row of its drone locked.  With its row  *)
(* to itself a heartbeat writes no old order back.                         *)
DeadlockNeedsReserveOrBroken ==
  (\E p \in Req : Deadlocked(p)) =>
     \E p \in Req :
       /\ Deadlocked(p)
       /\ \/ req[p].kind \in {"RESERVE", "BROKEN"}
          \/ ~Alone /\ req[p].kind = "BEAT" /\ pc[p] = "save_link"

(* Every request is answered. *)
Answered == \A p \in Req : pc[p] # "idle" ~> pc[p] = "idle"

=============================================================================
