-------------------------- MODULE DeliveryTxProofs --------------------------
(***************************************************************************)
(* The statements of any number of requests, over tables of any size.      *)
(*                                                                         *)
(* A transaction owns the rows it has locked: nobody else writes them, so  *)
(* what it read stays true until it commits.  Its Phase says, for each of  *)
(* its statements, which rows it owns, what it knows of them and what it   *)
(* will write: at its commit, exactly what the step of Delivery writes.    *)
(***************************************************************************)
EXTENDS DeliveryTx, Integers, TLAPS

Rows  == OrderID \cup DroneID \cup JobID
Modes == {"UPDATE", "NOKEY", "KEYSHARE"}

(* p keeps others from writing the row x. *)
Locks(p, x) == <<x, "UPDATE">> \in held[p] \/ <<x, "NOKEY">> \in held[p]

Present(x) ==
  /\ x \in OrderID => orders[x].status # "ABSENT"
  /\ x \in DroneID => drones[x].status # "ABSENT"
  /\ x \in JobID => jobs[x].status # "ABSENT"

TablesOK ==
  /\ orders \in [OrderID -> OrderRow]
  /\ drones \in [DroneID -> DroneRow]
  /\ jobs \in [JobID -> JobRow]

(* jobs.order_id is not null, and names an order that is there. *)
JobsHaveOrders ==
  \A j \in JobID :
    /\ jobs[j].order = Nil <=> jobs[j].status = "ABSENT"
    /\ jobs[j].order # Nil => orders[jobs[j].order].status # "ABSENT"

RequestsOK ==
  /\ DOMAIN req = Req /\ DOMAIN held = Req /\ DOMAIN pc = Req /\ DOMAIN buf = Req
  /\ \A p \in Req : req[p] \in Requests \cup {NoReq} /\ held[p] \in SUBSET (Rows \X Modes)

-----------------------------------------------------------------------------
(* The phases of each kind of request. *)

Idle(p) == pc[p] = "idle" /\ held[p] = {} /\ buf[p] = <<>>

CreatePhase(p) ==
  \/ pc[p] = "create" /\ DOMAIN buf[p] = {}
  \/ /\ pc[p] = "commit"
     /\ \E o \in OrderID, j \in JobID :
          /\ DOMAIN buf[p] = {o, j}
          /\ orders[o].status = "ABSENT" /\ buf[p][o] = NewOrder(req[p].arg)
          /\ jobs[j].status = "ABSENT" /\ buf[p][j] = NewJob(o)

(* The rows of order o and of its jobs, when they will be cancelled.       *)
CancelledHere(p, o) ==
  /\ JobsToCancel(o) # {}
  /\ \A j \in JobsToCancel(o) : Locks(p, j) /\ buf[p][j] = CancelJob(jobs[j])

CancelPhase(p) ==
  LET o == req[p].order IN
  \/ pc[p] = "cancel_order" /\ DOMAIN buf[p] = {}
  \/ /\ Locks(p, o) /\ CanCancelOrder(orders[o]) /\ buf[p][o] = CancelOrder(orders[o])
     /\ \/ pc[p] = "cancel_jobs" /\ DOMAIN buf[p] = {o}
        \/ pc[p] = "commit" /\ DOMAIN buf[p] = {o} \cup JobsToCancel(o) /\ CancelledHere(p, o)

ReservePhase(p) ==
  LET j == req[p].job
      d == req[p].drone
      o == jobs[j].order
  IN
  \/ pc[p] = "reserve_job" /\ DOMAIN buf[p] = {}
  \/ /\ Locks(p, j) /\ CanReserveJob(jobs[j]) /\ buf[p][j] = ReserveJob(jobs[j], d)
     /\ \/ pc[p] = "reserve_link" /\ DOMAIN buf[p] = {j}
        \/ /\ drones[d].status # "ABSENT"
           /\ \/ pc[p] = "reserve_order" /\ DOMAIN buf[p] = {j}
              \/ /\ Locks(p, o) /\ CanAssign(orders[o]) /\ buf[p][o] = Assign(orders[o], d)
                 /\ \/ pc[p] = "reserve_drone" /\ DOMAIN buf[p] = {j, o}
                    \/ /\ pc[p] = "commit" /\ DOMAIN buf[p] = {j, o, d}
                       /\ Locks(p, d) /\ CanReserveDrone(drones[d])
                       /\ buf[p][d] = ReserveDrone(drones[d], o)

GrabPhase(p) ==
  LET o == req[p].order
      d == req[p].drone
  IN
  \/ pc[p] = "grab_order" /\ DOMAIN buf[p] = {}
  \/ /\ Locks(p, o) /\ orders[o].drone = d /\ CanPickUp(orders[o])
     /\ buf[p][o] = MarkPickedUp(orders[o])
     /\ \/ pc[p] = "grab_drone" /\ DOMAIN buf[p] = {o}
        \/ /\ pc[p] = "commit" /\ DOMAIN buf[p] = {o, d}
           /\ Locks(p, d) /\ CanStartDelivery(drones[d]) /\ buf[p][d] = StartDelivery(drones[d])

JobsToComplete(o) == {j \in JobID : IsJobOf(jobs[j], o) /\ CanCompleteJob(jobs[j])}

CompletePhase(p) ==
  LET o == req[p].order
      d == req[p].drone
  IN
  \/ pc[p] = "complete_order" /\ DOMAIN buf[p] = {}
  \/ /\ Locks(p, o) /\ orders[o].drone = d /\ CanFinish(orders[o])
     /\ buf[p][o] = MarkFinished(orders[o], req[p].arg)
     /\ \/ pc[p] = "complete_drone" /\ DOMAIN buf[p] = {o}
        \/ /\ Locks(p, d) /\ drones[d].status # "ABSENT" /\ buf[p][d] = GoIdle(drones[d])
           /\ \/ pc[p] = "complete_job" /\ DOMAIN buf[p] = {o, d}
              \/ /\ pc[p] = "commit" /\ DOMAIN buf[p] = {o, d} \cup JobsToComplete(o)
                 /\ JobsToComplete(o) # {}
                 /\ \A j \in JobsToComplete(o) :
                      Locks(p, j) /\ buf[p][j] = CompleteJob(jobs[j])

(* The order that the broken drone carried, once it is taken from it.      *)
TakenFrom(p, d, o) ==
  /\ Locks(p, o) /\ CanAwaitHandoff(orders[o]) /\ buf[p][o] = AwaitHandoff(orders[o])
  /\ \/ pc[p] = "broken_jobs" /\ DOMAIN buf[p] = {d, o}
     \/ /\ pc[p] = "commit" /\ CancelledHere(p, o)
        /\ \E new \in JobID :
             /\ DOMAIN buf[p] = {d, o, new} \cup JobsToCancel(o)
             /\ jobs[new].status = "ABSENT" /\ buf[p][new] = NewJob(o)

BrokenPhase(p) ==
  LET d == req[p].drone
      o == drones[d].order
  IN
  \/ pc[p] = "broken_drone" /\ DOMAIN buf[p] = {}
  \/ /\ Locks(p, d) /\ CanBreak(drones[d]) /\ buf[p][d] = MarkBroken(drones[d])
     /\ \/ pc[p] = "commit" /\ o = Nil /\ DOMAIN buf[p] = {d}
        \/ pc[p] = "broken_order" /\ o # Nil /\ DOMAIN buf[p] = {d}
        \/ o # Nil /\ TakenFrom(p, d, o)

(* Handlers without a transaction: what they write back may be stale.  The *)
(* write locks the row x.                                                  *)
WritingBack(p, x) ==
  \/ pc[p] = "save" /\ held[p] = {}
  \/ pc[p] = "save_link" /\ Locks(p, x)

BeatPhase(p) ==
  LET d == req[p].drone IN
  \/ pc[p] = "beat_read" /\ held[p] = {} /\ DOMAIN buf[p] = {}
  \/ /\ DOMAIN buf[p] = {d} /\ buf[p][d] \in DroneRow /\ buf[p][d].status # "ABSENT"
     /\ \/ pc[p] = "beat_insert" /\ held[p] = {}
        \/ drones[d].status # "ABSENT" /\ WritingBack(p, d)

FixedPhase(p) ==
  LET d == req[p].drone IN
  \/ pc[p] = "fixed_read" /\ held[p] = {} /\ DOMAIN buf[p] = {}
  \/ /\ DOMAIN buf[p] = {d} /\ buf[p][d] \in DroneRow /\ buf[p][d].status # "ABSENT"
     /\ buf[p][d].order = Nil /\ drones[d].status # "ABSENT" /\ WritingBack(p, d)

AdminPhase(p) ==
  LET o == req[p].order IN
  \/ pc[p] = "admin_read" /\ held[p] = {} /\ DOMAIN buf[p] = {}
  \/ /\ DOMAIN buf[p] = {o} /\ buf[p][o] \in OrderRow /\ buf[p][o].status # "ABSENT"
     /\ orders[o].status # "ABSENT" /\ WritingBack(p, o)

Phase(p) ==
  /\ req[p].kind = "NONE"     => Idle(p)
  /\ req[p].kind = "CREATE"   => CreatePhase(p)
  /\ req[p].kind = "CANCEL"   => CancelPhase(p)
  /\ req[p].kind = "RESERVE"  => ReservePhase(p)
  /\ req[p].kind = "GRAB"     => GrabPhase(p)
  /\ req[p].kind = "COMPLETE" => CompletePhase(p)
  /\ req[p].kind = "BROKEN"   => BrokenPhase(p)
  /\ req[p].kind = "BEAT"     => BeatPhase(p)
  /\ req[p].kind = "FIXED"    => FixedPhase(p)
  /\ req[p].kind = "ADMIN"    => AdminPhase(p)

Phases == \A p \in Req : Phase(p)

-----------------------------------------------------------------------------
(* No two requests own a row; rows that are owned are there; and rows that *)
(* are not there yet are on their way in one request only.                 *)
Exclusive == \A p, q \in Req, x \in Rows : p # q => ~(Locks(p, x) /\ Locks(q, x))

LockedPresent == \A p \in Req, x \in Rows : Locks(p, x) => Present(x)

NewAreUnique ==
  \A p, q \in Req, x \in OrderID \cup JobID :
    p # q /\ x \in DOMAIN buf[p] /\ x \in DOMAIN buf[q] => Present(x)

IInv ==
  /\ TablesOK /\ JobsHaveOrders /\ RequestsOK
  /\ Phases /\ Exclusive /\ LockedPresent /\ NewAreUnique

-----------------------------------------------------------------------------
(* The handlers without a transaction, each with its row to itself.        *)
BeatExact(p) ==
  LET d == req[p].drone IN
  /\ pc[p] = "beat_insert" => drones[d].status = "ABSENT" /\ buf[p][d] = NewDrone
  /\ pc[p] \in {"save", "save_link"} => buf[p][d] = drones[d]

FixedExact(p) ==
  LET d == req[p].drone IN
  pc[p] \in {"save", "save_link"} => CanFix(drones[d]) /\ buf[p][d] = MarkFixed(drones[d])

AdminExact(p) ==
  LET o == req[p].order IN
  /\ orders[o].status # "ABSENT"
  /\ pc[p] \in {"save", "save_link"} =>
       CanReroute(orders[o], req[p].arg) /\ buf[p][o] = Reroute(orders[o], req[p].arg)

ExactOf(p) ==
  /\ req[p].kind = "BEAT"  => BeatExact(p)
  /\ req[p].kind = "FIXED" => FixedExact(p)
  /\ req[p].kind = "ADMIN" => AdminExact(p)

Exact == \A p \in Req : ExactOf(p)

NoClash == \A p, q \in Req : p # q => ~Clash(req[p], req[q])

-----------------------------------------------------------------------------
Stage(p) ==
  CASE pc[p] \in {"cancel_order", "grab_order", "complete_order"} -> 1
    [] pc[p] \in {"grab_drone", "complete_drone"} -> 2
    [] pc[p] \in {"cancel_jobs", "complete_job"} -> 3
    [] pc[p] \in {"commit", "save_link"} -> 4
    [] OTHER -> 0

RowStage(x) == CASE x \in OrderID -> 1 [] x \in DroneID -> 2 [] x \in JobID -> 3

InOrder ==
  \A p \in Req : req[p].kind \notin {"RESERVE", "BROKEN"} =>
    \A x \in Rows, m \in Modes : <<x, m>> \in held[p] => RowStage(x) < Stage(p)

-----------------------------------------------------------------------------
(* Requests, buffers, and the rows the methods of the aggregates make.     *)

AllKinds == TxKinds \cup UnlockedKinds

(* The fields of a request, by its kind. *)
LEMMA RequestFacts ==
  ASSUME NEW q \in Requests
  PROVE  /\ q.kind \in AllKinds /\ q.kind \in Kinds /\ q # NoReq
         /\ q.kind = "CREATE"   => q.order = Nil /\ q.drone = Nil /\ q.job = Nil /\ q.arg \in Route
         /\ q.kind = "CANCEL"   => q.order \in OrderID /\ q.drone = Nil /\ q.job = Nil
         /\ q.kind = "ADMIN"    => /\ q.order \in OrderID /\ q.drone = Nil /\ q.job = Nil
                                   /\ q.arg \in Route \cup {Nil}
         /\ q.kind = "RESERVE"  => q.order = Nil /\ q.drone \in DroneID /\ q.job \in JobID
         /\ q.kind = "GRAB"     => q.order \in OrderID /\ q.drone \in DroneID /\ q.job = Nil
         /\ q.kind = "COMPLETE" => /\ q.order \in OrderID /\ q.drone \in DroneID /\ q.job = Nil
                                   /\ q.arg \in {"DELIVERED", "FAILED"}
         /\ q.kind \in {"BROKEN", "FIXED", "BEAT"} =>
              q.order = Nil /\ q.drone \in DroneID /\ q.job = Nil
<1>1. q.kind \in Kinds
  BY DEF Requests
<1>2. \/ \E r \in Route : q = Rq("CREATE", Nil, Nil, Nil, r)
      \/ \E o \in OrderID : q = Rq("CANCEL", o, Nil, Nil, Nil)
      \/ \E o \in OrderID, r \in Route \cup {Nil} : q = Rq("ADMIN", o, Nil, Nil, r)
      \/ \E d \in DroneID, j \in JobID : q = Rq("RESERVE", Nil, d, j, Nil)
      \/ \E o \in OrderID, d \in DroneID : q = Rq("GRAB", o, d, Nil, Nil)
      \/ \E o \in OrderID, d \in DroneID, s \in {"DELIVERED", "FAILED"} :
           q = Rq("COMPLETE", o, d, Nil, s)
      \/ \E k \in {"BROKEN", "FIXED", "BEAT"}, d \in DroneID : q = Rq(k, Nil, d, Nil, Nil)
  BY DEF Requests
<1> QED
  BY <1>1, <1>2 DEF Rq, NoReq, AllKinds, TxKinds, UnlockedKinds

LEMMA NoReqFacts ==
  NoReq.kind = "NONE" /\ NoReq.order = Nil /\ NoReq.drone = Nil /\ NoReq.job = Nil
BY DEF NoReq, Rq

(* What is asked for, by the kind of the request. *)
LEMMA AskedFor ==
  ASSUME RequestsOK, NEW p \in Req
  PROVE  /\ req[p].kind \in AllKinds \cup {"NONE"}
         /\ req[p].kind \in AllKinds => req[p].kind \in Kinds
         /\ req[p].kind = "NONE" <=> req[p] = NoReq
         /\ req[p].kind = "CREATE" => req[p].arg \in Route
         /\ req[p].kind \in {"CANCEL", "ADMIN", "GRAB", "COMPLETE"} => req[p].order \in OrderID
         /\ req[p].kind \in {"RESERVE", "GRAB", "COMPLETE", "BROKEN", "FIXED", "BEAT"} =>
              req[p].drone \in DroneID
         /\ req[p].kind = "RESERVE" => req[p].job \in JobID
         /\ req[p].kind = "COMPLETE" => req[p].arg \in {"DELIVERED", "FAILED"}
         /\ req[p].kind = "ADMIN" => req[p].arg \in Route \cup {Nil}
<1>1. CASE req[p] = NoReq
  BY <1>1, NoReqFacts DEF AllKinds, TxKinds, UnlockedKinds
<1>2. CASE req[p] \in Requests
  BY <1>2, RequestFacts, NoReqFacts DEF AllKinds, TxKinds, UnlockedKinds
<1> QED
  BY <1>1, <1>2 DEF RequestsOK

LEMMA NoRows == DOMAIN <<>> = {}
OBVIOUS

(* A method keeps the row well formed and there. *)
LEMMA OrderMethods ==
  ASSUME NEW row \in OrderRow
  PROVE  /\ \A d \in DroneID : Assign(row, d) \in OrderRow /\ Assign(row, d).status # "ABSENT"
         /\ MarkPickedUp(row) \in OrderRow /\ MarkPickedUp(row).status # "ABSENT"
         /\ \A s \in {"DELIVERED", "FAILED"} :
              MarkFinished(row, s) \in OrderRow /\ MarkFinished(row, s).status # "ABSENT"
         /\ AwaitHandoff(row) \in OrderRow /\ AwaitHandoff(row).status # "ABSENT"
         /\ \A r \in Route \cup {Nil} : CanReroute(row, r) =>
              Reroute(row, r) \in OrderRow /\ Reroute(row, r).status # "ABSENT"
         /\ CancelOrder(row) \in OrderRow /\ CancelOrder(row).status # "ABSENT"
         /\ CanAssign(row) \/ CanPickUp(row) \/ CanFinish(row) \/ CanAwaitHandoff(row)
              \/ CanCancelOrder(row) => row.status # "ABSENT"
BY DEF OrderRow, OrderStatus, Assign, MarkPickedUp, MarkFinished, AwaitHandoff, CanReroute, Reroute,
       CancelOrder, CanAssign, CanPickUp, CanFinish, CanAwaitHandoff, CanCancelOrder

LEMMA DroneMethods ==
  ASSUME NEW row \in DroneRow
  PROVE  /\ \A o \in OrderID : /\ ReserveDrone(row, o) \in DroneRow
                               /\ ReserveDrone(row, o).status # "ABSENT"
         /\ StartDelivery(row) \in DroneRow /\ StartDelivery(row).status # "ABSENT"
         /\ GoIdle(row) \in DroneRow /\ GoIdle(row).status # "ABSENT"
         /\ MarkBroken(row) \in DroneRow /\ MarkBroken(row).status # "ABSENT"
         /\ MarkFixed(row) \in DroneRow /\ MarkFixed(row).status # "ABSENT"
         /\ NewDrone \in DroneRow /\ NewDrone.status # "ABSENT"
         /\ CanReserveDrone(row) \/ CanStartDelivery(row) \/ CanBreak(row) \/ CanFix(row)
              => row.status # "ABSENT"
BY DEF DroneRow, DroneStatus, ReserveDrone, StartDelivery, GoIdle, MarkBroken, MarkFixed, NewDrone,
       CanReserveDrone, CanStartDelivery, CanBreak, CanFix

LEMMA JobMethods ==
  ASSUME NEW row \in JobRow
  PROVE  /\ \A d \in DroneID : /\ ReserveJob(row, d) \in JobRow /\ ReserveJob(row, d).status # "ABSENT"
                               /\ ReserveJob(row, d).order = row.order
         /\ CompleteJob(row) \in JobRow /\ CompleteJob(row).status # "ABSENT"
         /\ CompleteJob(row).order = row.order
         /\ CancelJob(row) \in JobRow /\ CancelJob(row).status # "ABSENT"
         /\ CancelJob(row).order = row.order
         /\ \A o \in OrderID : /\ NewJob(o) \in JobRow /\ NewJob(o).status # "ABSENT"
                               /\ NewJob(o).order = o
         /\ CanReserveJob(row) \/ CanCompleteJob(row) => row.status # "ABSENT"
BY DEF JobRow, JobStatus, ReserveJob, CompleteJob, CancelJob, NewJob, CanReserveJob, CanCompleteJob

LEMMA NewRows ==
  \A r \in Route : NewOrder(r) \in OrderRow /\ NewOrder(r).status # "ABSENT"
BY DEF NewOrder, OrderRow, OrderStatus

-----------------------------------------------------------------------------
(* Other requests do not disturb a phase. *)

(* What p relies on while others take their steps: nothing of its own      *)
(* changes, the rows it owns do not change, an order it owns keeps its     *)
(* jobs, drones that are there stay, and what it will insert is not        *)
(* inserted by anyone else.                                                *)
Steady(p) ==
  /\ pc'[p] = pc[p] /\ req'[p] = req[p] /\ held'[p] = held[p] /\ buf'[p] = buf[p]
  /\ \A o \in OrderID :
       /\ Locks(p, o) => /\ orders'[o] = orders[o]
                         /\ \A j \in JobID : jobs[j].order = o \/ jobs'[j].order = o => jobs'[j] = jobs[j]
       /\ orders[o].status # "ABSENT" => orders'[o].status # "ABSENT"
       /\ o \in DOMAIN buf[p] /\ orders[o].status = "ABSENT" => orders'[o] = orders[o]
  /\ \A d \in DroneID :
       /\ Locks(p, d) => drones'[d] = drones[d]
       /\ drones[d].status # "ABSENT" => drones'[d].status # "ABSENT"
  /\ \A j \in JobID :
       /\ Locks(p, j) => jobs'[j] = jobs[j]
       /\ j \in DOMAIN buf[p] /\ jobs[j].status = "ABSENT" => jobs'[j] = jobs[j]

(* The jobs of an order that p owns stay as they are. *)
LEMMA SteadyJobs ==
  ASSUME NEW p \in Req, Steady(p), NEW o \in OrderID, Locks(p, o)
  PROVE  /\ orders'[o] = orders[o]
         /\ JobsToCancel(o)' = JobsToCancel(o) /\ JobsToComplete(o)' = JobsToComplete(o)
         /\ \A j \in JobsToCancel(o) \cup JobsToComplete(o) : jobs'[j] = jobs[j]
<1>1. /\ orders'[o] = orders[o]
      /\ \A j \in JobID : jobs[j].order = o \/ jobs'[j].order = o => jobs'[j] = jobs[j]
  BY DEF Steady
<1>2. \A j \in JobID : CanCancelJob(jobs[j], o) <=> CanCancelJob(jobs'[j], o)
  BY <1>1 DEF CanCancelJob
<1>3. \A j \in JobID : /\ IsJobOf(jobs[j], o) /\ CanCompleteJob(jobs[j])
                        <=> IsJobOf(jobs'[j], o) /\ CanCompleteJob(jobs'[j])
  BY <1>1 DEF IsJobOf, CanCompleteJob
<1> QED
  BY <1>1, <1>2, <1>3 DEF JobsToCancel, JobsToComplete, CanCancelJob, IsJobOf

LEMMA SteadyLocks ==
  ASSUME NEW p \in Req, Steady(p), NEW x
  PROVE  Locks(p, x)' <=> Locks(p, x)
BY DEF Steady, Locks

(* So p stays in its phase. *)
LEMMA SteadyPhase ==
  ASSUME TablesOK, JobsHaveOrders, RequestsOK, NEW p \in Req, Steady(p), Phase(p)
  PROVE  Phase(p)'
<1>0. pc'[p] = pc[p] /\ req'[p] = req[p] /\ held'[p] = held[p] /\ buf'[p] = buf[p]
  BY DEF Steady
<1>1. ASSUME req[p].kind = "NONE" PROVE Idle(p)'
  BY <1>0, <1>1 DEF Phase, Idle
<1>2. ASSUME req[p].kind = "CREATE" PROVE CreatePhase(p)'
  <2>1. CreatePhase(p)
    BY <1>2 DEF Phase
  <2>2. CASE pc[p] = "commit"
    <3>1. PICK o \in OrderID, j \in JobID :
            /\ DOMAIN buf[p] = {o, j}
            /\ orders[o].status = "ABSENT" /\ buf[p][o] = NewOrder(req[p].arg)
            /\ jobs[j].status = "ABSENT" /\ buf[p][j] = NewJob(o)
      BY <2>1, <2>2 DEF CreatePhase
    <3>2. orders'[o] = orders[o] /\ jobs'[j] = jobs[j]
      BY <3>1 DEF Steady
    <3> QED
      BY <1>0, <2>2, <3>1, <3>2 DEF CreatePhase
  <2> QED
    BY <1>0, <2>1, <2>2 DEF CreatePhase
<1>3. ASSUME req[p].kind = "CANCEL" PROVE CancelPhase(p)'
  <2> DEFINE o == req[p].order
  <2>1. CancelPhase(p) /\ o \in OrderID
    BY <1>3, AskedFor DEF Phase
  <2>2. Locks(p, o) => /\ orders'[o] = orders[o] /\ JobsToCancel(o)' = JobsToCancel(o)
                       /\ \A j \in JobsToCancel(o) : jobs'[j] = jobs[j]
    BY <1>0, <2>1, SteadyJobs
  <2> QED
    BY <1>0, <2>1, <2>2, SteadyLocks DEF CancelPhase, CancelledHere
<1>4. ASSUME req[p].kind = "RESERVE" PROVE ReservePhase(p)'
  <2> DEFINE j == req[p].job
             d == req[p].drone
             o == jobs[j].order
  <2>1. ReservePhase(p) /\ j \in JobID /\ d \in DroneID
    BY <1>4, AskedFor DEF Phase
  <2>2. CanReserveJob(jobs[j]) => o \in OrderID
    BY <2>1, JobMethods DEF TablesOK, JobsHaveOrders, JobRow
  <2>3. /\ Locks(p, j) => jobs'[j] = jobs[j]
        /\ Locks(p, d) => drones'[d] = drones[d]
        /\ o \in OrderID /\ Locks(p, o) => orders'[o] = orders[o]
        /\ drones[d].status # "ABSENT" => drones'[d].status # "ABSENT"
    BY <2>1 DEF Steady
  <2> QED
    BY <1>0, <2>1, <2>2, <2>3, SteadyLocks DEF ReservePhase
<1>5. ASSUME req[p].kind = "GRAB" PROVE GrabPhase(p)'
  <2> DEFINE o == req[p].order
             d == req[p].drone
  <2>1. GrabPhase(p) /\ o \in OrderID /\ d \in DroneID
    BY <1>5, AskedFor DEF Phase
  <2>2. /\ Locks(p, o) => orders'[o] = orders[o]
        /\ Locks(p, d) => drones'[d] = drones[d]
    BY <2>1 DEF Steady
  <2> QED
    BY <1>0, <2>1, <2>2, SteadyLocks DEF GrabPhase
<1>6. ASSUME req[p].kind = "COMPLETE" PROVE CompletePhase(p)'
  <2> DEFINE o == req[p].order
             d == req[p].drone
  <2>1. CompletePhase(p) /\ o \in OrderID /\ d \in DroneID
    BY <1>6, AskedFor DEF Phase
  <2>2. /\ Locks(p, o) => /\ orders'[o] = orders[o] /\ JobsToComplete(o)' = JobsToComplete(o)
                          /\ \A j \in JobsToComplete(o) : jobs'[j] = jobs[j]
        /\ Locks(p, d) => drones'[d] = drones[d]
    BY <2>1, SteadyJobs DEF Steady
  <2> QED
    BY <1>0, <2>1, <2>2, SteadyLocks DEF CompletePhase
<1>7. ASSUME req[p].kind = "BROKEN" PROVE BrokenPhase(p)'
  <2> DEFINE d == req[p].drone
             o == drones[d].order
  <2>1. BrokenPhase(p) /\ d \in DroneID
    BY <1>7, AskedFor DEF Phase
  <2>2. CASE pc[p] = "broken_drone"
    BY <1>0, <2>1, <2>2 DEF BrokenPhase, TakenFrom
  <2>3. CASE pc[p] # "broken_drone"
    <3>1. /\ Locks(p, d) /\ CanBreak(drones[d]) /\ buf[p][d] = MarkBroken(drones[d])
          /\ drones'[d] = drones[d]
      BY <2>1, <2>3 DEF BrokenPhase, Steady
    <3>2. CASE o = Nil
      BY <1>0, <2>1, <2>3, <3>1, <3>2, SteadyLocks DEF BrokenPhase
    <3>3. CASE o # Nil
      <4>1. o \in OrderID
        BY <2>1, <3>3 DEF TablesOK, DroneRow
      <4>2. Locks(p, o) => /\ orders'[o] = orders[o] /\ JobsToCancel(o)' = JobsToCancel(o)
                           /\ \A j \in JobsToCancel(o) : jobs'[j] = jobs[j]
        BY <1>0, <3>1, <4>1, SteadyJobs
      <4>3. \A j \in JobID : j \in DOMAIN buf[p] /\ jobs[j].status = "ABSENT" => jobs'[j] = jobs[j]
        BY DEF Steady
      <4>4. CASE pc[p] = "broken_order"
        BY <1>0, <2>1, <3>1, <3>3, <4>4, SteadyLocks DEF BrokenPhase, TakenFrom
      <4>5. CASE pc[p] # "broken_order"
        <5>1. TakenFrom(p, d, o)
          BY <2>1, <2>3, <3>3, <4>5 DEF BrokenPhase
        <5>2. TakenFrom(p, d, o)'
          <6>1. CASE pc[p] = "broken_jobs"
            BY <1>0, <3>1, <4>2, <5>1, <6>1, SteadyLocks DEF TakenFrom
          <6>2. CASE pc[p] = "commit"
            <7>1. PICK new \in JobID : /\ DOMAIN buf[p] = {d, o, new} \cup JobsToCancel(o)
                                       /\ jobs[new].status = "ABSENT" /\ buf[p][new] = NewJob(o)
              BY <5>1, <6>2 DEF TakenFrom
            <7>2. CancelledHere(p, o) /\ jobs'[new] = jobs[new]
              BY <4>3, <5>1, <6>2, <7>1 DEF TakenFrom
            <7>3. CancelledHere(p, o)'
              BY <1>0, <3>1, <4>2, <5>1, <7>2, SteadyLocks DEF CancelledHere, TakenFrom
            <7> QED
              BY ZenonT(60), <1>0, <3>1, <4>2, <5>1, <6>2, <7>1, <7>2, <7>3, SteadyLocks DEF TakenFrom
          <6> QED
            BY <5>1, <6>1, <6>2 DEF TakenFrom
        <5> QED
          BY <1>0, <3>1, <3>3, <5>2, SteadyLocks DEF BrokenPhase
      <4> QED
        BY <4>4, <4>5
    <3> QED
      BY <3>2, <3>3
  <2> QED
    BY <2>2, <2>3
<1>8. ASSUME req[p].kind \in {"BEAT", "FIXED"}
      PROVE  (BeatPhase(p) => BeatPhase(p)') /\ (FixedPhase(p) => FixedPhase(p)')
  <2>1. req[p].drone \in DroneID
    BY <1>8, AskedFor
  <2>2. drones[req[p].drone].status # "ABSENT" => drones'[req[p].drone].status # "ABSENT"
    BY <2>1 DEF Steady
  <2> QED
    BY <1>0, <2>2, SteadyLocks DEF BeatPhase, FixedPhase, WritingBack
<1>9. ASSUME req[p].kind = "ADMIN" PROVE AdminPhase(p)'
  <2>1. AdminPhase(p) /\ req[p].order \in OrderID
    BY <1>9, AskedFor DEF Phase
  <2>2. orders[req[p].order].status # "ABSENT" => orders'[req[p].order].status # "ABSENT"
    BY <2>1 DEF Steady
  <2> QED
    BY <1>0, <2>1, <2>2, SteadyLocks DEF AdminPhase, WritingBack
<1> QED
  BY <1>0, <1>1, <1>2, <1>3, <1>4, <1>5, <1>6, <1>7, <1>8, <1>9 DEF Phase

-----------------------------------------------------------------------------
(* Steps of p that leave the tables alone. *)

OthersStay(p) ==
  /\ \A q \in Req \ {p} :
       pc'[q] = pc[q] /\ req'[q] = req[q] /\ held'[q] = held[q] /\ buf'[q] = buf[q]
  /\ DOMAIN req' = Req /\ DOMAIN held' = Req /\ DOMAIN pc' = Req /\ DOMAIN buf' = Req

(* p gains locks on rows that are there and that nobody owns, and puts on  *)
(* its way what is there already or on nobody else's.                      *)
LocalStep(p) ==
  /\ UNCHANGED tables /\ OthersStay(p)
  /\ req'[p] \in Requests \cup {NoReq} /\ held'[p] \in SUBSET (Rows \X Modes)
  /\ \A x \in Rows : Locks(p, x)' =>
       Locks(p, x) \/ (Present(x) /\ \A q \in Req \ {p} : ~Locks(q, x))
  /\ \A x \in OrderID \cup JobID : x \in DOMAIN buf'[p] =>
       x \in DOMAIN buf[p] \/ Present(x) \/ \A q \in Req \ {p} : x \notin DOMAIN buf[q]
  /\ Phase(p)'

(* Such a step keeps the invariant; so does a rollback. *)
LEMMA LocalKeeps ==
  ASSUME IInv, NEW p \in Req, LocalStep(p)
  PROVE  IInv'
<1>1. TablesOK' /\ JobsHaveOrders'
  BY DEF IInv, LocalStep, TablesOK, JobsHaveOrders, tables
<1>2. RequestsOK'
  BY DEF IInv, LocalStep, OthersStay, RequestsOK
<1>3. \A x : Present(x)' <=> Present(x)
  BY DEF LocalStep, Present, tables
<1>4. \A q \in Req \ {p}, x \in Rows : Locks(q, x)' <=> Locks(q, x)
  BY DEF LocalStep, OthersStay, Locks
<1>5. Phases'
  <2>1. ASSUME NEW q \in Req \ {p} PROVE Phase(q)'
    <3>1. Steady(q)
      BY DEF LocalStep, OthersStay, Steady, tables
    <3> QED
      BY <3>1, SteadyPhase DEF IInv, Phases
  <2> QED
    BY <2>1 DEF LocalStep, Phases
<1>6. Exclusive'
  BY <1>4 DEF IInv, LocalStep, Exclusive
<1>7. LockedPresent'
  BY <1>3, <1>4 DEF IInv, LocalStep, LockedPresent
<1>8. NewAreUnique'
  BY <1>3 DEF IInv, LocalStep, OthersStay, NewAreUnique
<1> QED
  BY <1>1, <1>2, <1>5, <1>6, <1>7, <1>8 DEF IInv

LEMMA RollbackKeeps ==
  ASSUME IInv, NEW p \in Req, Rollback(p)
  PROVE  IInv'
<1>1. pc'[p] = "idle" /\ req'[p] = NoReq /\ held'[p] = {} /\ buf'[p] = <<>>
  BY DEF IInv, RequestsOK, Rollback
<1>2. OthersStay(p) /\ UNCHANGED tables
  BY DEF IInv, RequestsOK, Rollback, OthersStay
<1>3. Phase(p)'
  BY <1>1, NoReqFacts DEF Phase, Idle
<1>4. LocalStep(p)
  BY <1>1, <1>2, <1>3, NoRows DEF LocalStep, Locks
<1> QED
  BY <1>4, LocalKeeps

(* A statement that goes on: what it has locked and what it will write. *)
Goes(p, next, rows) ==
  /\ Granted(p) /\ UNCHANGED tables /\ OthersStay(p)
  /\ pc'[p] = next /\ req'[p] = req[p]
  /\ held'[p] = held[p] \cup Wants(p)
  /\ buf'[p] = Over(rows, buf[p])

(* What has been locked for writing was nobody else's.                     *)
LEMMA GrantedAlone ==
  ASSUME NEW p \in Req, Granted(p), NEW x, NEW m \in {"UPDATE", "NOKEY"}, <<x, m>> \in Wants(p),
         NEW q \in Req \ {p}
  PROVE  ~Locks(q, x)
<1>1. ~WaitsFor(p, q)
  BY DEF Granted
<1> QED
  BY <1>1 DEF WaitsFor, Locks, Conflicting

(* A statement that goes on keeps the invariant if it leads to a phase. *)
LEMMA Going ==
  ASSUME IInv, NEW p \in Req, NEW next, NEW rows, Goes(p, next, rows), Phase(p)',
         Wants(p) \subseteq Rows \X Modes,
         \A x \in Rows, m \in {"UPDATE", "NOKEY"} : <<x, m>> \in Wants(p) => Present(x),
         \A x \in DOMAIN rows \cap (OrderID \cup JobID) :
           Present(x) \/ \A q \in Req : x \notin DOMAIN buf[q]
  PROVE  IInv'
<1>1. held'[p] \in SUBSET (Rows \X Modes)
  BY DEF IInv, RequestsOK, Goes
<1>2. req'[p] \in Requests \cup {NoReq}
  BY DEF IInv, RequestsOK, Goes
<1>3. ASSUME NEW x \in Rows, Locks(p, x)'
      PROVE  Locks(p, x) \/ (Present(x) /\ \A q \in Req \ {p} : ~Locks(q, x))
  <2>1. \/ Locks(p, x)
        \/ \E m \in {"UPDATE", "NOKEY"} : <<x, m>> \in Wants(p)
    BY <1>3 DEF Goes, Locks
  <2> QED
    BY <2>1, GrantedAlone DEF Goes
<1>4. DOMAIN buf'[p] = DOMAIN rows \cup DOMAIN buf[p]
  <2>1. buf'[p] = Over(rows, buf[p])
    BY DEF Goes
  <2> QED
    BY <2>1 DEF Over
<1>5. LocalStep(p)
  BY <1>1, <1>2, <1>3, <1>4 DEF LocalStep, Goes
<1> QED
  BY <1>5, LocalKeeps

(* The next statement tells the kind of the request. *)
LEMMA KindOf ==
  ASSUME RequestsOK, NEW p \in Req, Phase(p)
  PROVE  /\ pc[p] = "create" => req[p].kind = "CREATE"
         /\ pc[p] \in {"cancel_order", "cancel_jobs"} => req[p].kind = "CANCEL"
         /\ pc[p] \in {"reserve_job", "reserve_link", "reserve_order", "reserve_drone"} =>
              req[p].kind = "RESERVE"
         /\ pc[p] \in {"grab_order", "grab_drone"} => req[p].kind = "GRAB"
         /\ pc[p] \in {"complete_order", "complete_drone", "complete_job"} =>
              req[p].kind = "COMPLETE"
         /\ pc[p] \in {"broken_drone", "broken_order", "broken_jobs"} => req[p].kind = "BROKEN"
         /\ pc[p] \in {"beat_read", "beat_insert"} => req[p].kind = "BEAT"
         /\ pc[p] = "fixed_read" => req[p].kind = "FIXED"
         /\ pc[p] = "admin_read" => req[p].kind = "ADMIN"
         /\ pc[p] \in {"save", "save_link"} => req[p].kind \in UnlockedKinds
         /\ pc[p] = "commit" => req[p].kind \in TxKinds
         /\ pc[p] = "idle" <=> req[p].kind = "NONE"
<1>1. req[p].kind \in TxKinds \cup UnlockedKinds \cup {"NONE"}
  BY AskedFor DEF AllKinds
<1> QED
  BY <1>1 DEF Phase, TxKinds, UnlockedKinds, Idle, CreatePhase, CancelPhase, ReservePhase, GrabPhase,
       CompletePhase, BrokenPhase, TakenFrom, BeatPhase, FixedPhase, AdminPhase, WritingBack

-----------------------------------------------------------------------------
(* The statements, request by request.                                     *)

(* A statement that goes on, in terms of what p owns and will write.       *)
LEMMA Gone ==
  ASSUME NEW p \in Req, NEW next, NEW rows, Goes(p, next, rows)
  PROVE  /\ pc'[p] = next /\ req'[p] = req[p] /\ orders' = orders /\ drones' = drones /\ jobs' = jobs
         /\ DOMAIN buf'[p] = DOMAIN rows \cup DOMAIN buf[p]
         /\ \A x \in DOMAIN rows : buf'[p][x] = rows[x]
         /\ \A x \in DOMAIN buf[p] : x \notin DOMAIN rows => buf'[p][x] = buf[p][x]
         /\ \A x : Locks(p, x)' <=>
              Locks(p, x) \/ <<x, "UPDATE">> \in Wants(p) \/ <<x, "NOKEY">> \in Wants(p)
<1>1. buf'[p] = Over(rows, buf[p])
  BY DEF Goes
<1>2. /\ DOMAIN buf'[p] = DOMAIN rows \cup DOMAIN buf[p]
      /\ \A x \in DOMAIN rows : buf'[p][x] = rows[x]
      /\ \A x \in DOMAIN buf[p] : x \notin DOMAIN rows => buf'[p][x] = buf[p][x]
  BY <1>1 DEF Over
<1> QED
  BY <1>2 DEF Goes, tables, Locks

LEMMA CreateStep ==
  ASSUME IInv, NEW p \in Req, CreateOrderAndJob(p)
  PROVE  IInv'
<1>1. PICK o \in OrderID, j \in JobID :
        /\ FreshOrder(o) /\ FreshJob(j)
        /\ Goes(p, "commit", Over(Row(o, NewOrder(req[p].arg)), Row(j, NewJob(o))))
        /\ pc[p] = "create"
  BY DEF CreateOrderAndJob, Statement, Goes, OthersStay, IInv, RequestsOK
<1> DEFINE rows == Over(Row(o, NewOrder(req[p].arg)), Row(j, NewJob(o)))
<1>2. o # j
  BY TxAssumption
<1>3. DOMAIN rows = {o, j} /\ rows[o] = NewOrder(req[p].arg) /\ rows[j] = NewJob(o)
  BY <1>2 DEF Over, Row
<1>4. req[p].kind = "CREATE" /\ DOMAIN buf[p] = {}
  BY <1>1, KindOf DEF IInv, Phases, Phase, CreatePhase
<1>5. Wants(p) = {}
  BY <1>1, <1>4 DEF Wants
<1> HIDE DEF rows
<1>6. Phase(p)'
  <2>1. /\ pc'[p] = "commit" /\ DOMAIN buf'[p] = {o, j} /\ req'[p] = req[p]
        /\ buf'[p][o] = NewOrder(req[p].arg) /\ buf'[p][j] = NewJob(o)
        /\ orders' = orders /\ jobs' = jobs
    BY <1>1, <1>3, <1>4, Gone DEF rows
  <2> QED
    BY <1>1, <1>4, <2>1 DEF Phase, CreatePhase, FreshOrder, FreshJob
<1> QED
  BY <1>1, <1>3, <1>5, <1>6, Going DEF FreshOrder, FreshJob, rows

LEMMA CancelOrderStep ==
  ASSUME IInv, NEW p \in Req, CancelOrder1(p)
  PROVE  IInv'
<1> DEFINE o    == req[p].order
           rows == Row(o, CancelOrder(orders[o]))
<1>1. /\ pc[p] = "cancel_order"
      /\ Rollback(p) \/ (CanCancelOrder(orders[o]) /\ Goes(p, "cancel_jobs", rows))
  BY DEF CancelOrder1, Statement, Goes, OthersStay, IInv, RequestsOK
<1>2. CASE Rollback(p)
  BY <1>2, RollbackKeeps
<1>3. CASE CanCancelOrder(orders[o]) /\ Goes(p, "cancel_jobs", rows)
  <2>1. req[p].kind = "CANCEL" /\ DOMAIN buf[p] = {} /\ o \in OrderID
    BY <1>1, KindOf, AskedFor DEF IInv, Phases, Phase, CancelPhase
  <2>2. Wants(p) = {<<o, "NOKEY">>}
    BY <1>1, <1>3, <2>1 DEF Wants, CancelLocks
  <2>3. DOMAIN rows = {o} /\ rows[o] = CancelOrder(orders[o])
    BY DEF Row
  <2> HIDE DEF rows
  <2>4. Present(o)
    BY <1>3, <2>1, TxAssumption DEF CanCancelOrder, Present
  <2>5. Phase(p)'
    <3>1. /\ pc'[p] = "cancel_jobs" /\ DOMAIN buf'[p] = {o} /\ req'[p] = req[p]
          /\ buf'[p][o] = CancelOrder(orders[o]) /\ orders' = orders
      BY <1>3, <2>1, <2>3, Gone
    <3>2. Locks(p, o)'
      BY <1>3, <2>2, Gone
    <3> QED
      BY <1>3, <2>1, <3>1, <3>2 DEF Phase, CancelPhase
  <2> QED
    BY <1>3, <2>1, <2>2, <2>3, <2>4, <2>5, Going DEF Rows, Modes
<1> QED
  BY <1>1, <1>2, <1>3

LEMMA CancelJobsStep ==
  ASSUME IInv, NEW p \in Req, CancelJobs2(p)
  PROVE  IInv'
<1> DEFINE o    == req[p].order
           js   == JobsToCancel(o)
           rows == [j \in js |-> CancelJob(jobs[j])]
<1>1. /\ pc[p] = "cancel_jobs"
      /\ Rollback(p) \/ (js # {} /\ Goes(p, "commit", rows))
  BY DEF CancelJobs2, Statement, Goes, OthersStay, IInv, RequestsOK
<1>2. CASE Rollback(p)
  BY <1>2, RollbackKeeps
<1>3. CASE js # {} /\ Goes(p, "commit", rows)
  <2>1. req[p].kind = "CANCEL" /\ CancelPhase(p) /\ o \in OrderID
    BY <1>1, KindOf, AskedFor DEF IInv, Phases, Phase
  <2>2. /\ DOMAIN buf[p] = {o} /\ Locks(p, o) /\ CanCancelOrder(orders[o])
        /\ buf[p][o] = CancelOrder(orders[o])
    BY <1>1, <2>1 DEF CancelPhase
  <2>3. Wants(p) = {<<j, "NOKEY">> : j \in js}
    BY <1>1, <2>1 DEF Wants, CancelLocks
  <2>4. DOMAIN rows = js /\ \A j \in js : rows[j] = CancelJob(jobs[j])
    OBVIOUS
  <2>5. js \subseteq JobID /\ \A j \in js : Present(j)
    BY <2>1, NilAssumption, TxAssumption DEF IInv, JobsHaveOrders, JobsToCancel, CanCancelJob, Present
  <2>6. o \notin js
    BY <2>1, <2>5, TxAssumption
  <2> HIDE DEF rows, js
  <2>7. Phase(p)'
    <3>1. /\ pc'[p] = "commit" /\ DOMAIN buf'[p] = {o} \cup js /\ req'[p] = req[p]
          /\ buf'[p][o] = CancelOrder(orders[o]) /\ orders' = orders /\ jobs' = jobs
          /\ \A j \in js : buf'[p][j] = CancelJob(jobs[j])
      BY <1>3, <2>2, <2>4, <2>6, Gone
    <3>2. Locks(p, o)' /\ \A j \in js : Locks(p, j)'
      BY <1>3, <2>2, <2>3, Gone
    <3>3. JobsToCancel(o)' = js
      BY <3>1 DEF js, JobsToCancel
    <3>4. CancelledHere(p, o)'
      BY <1>3, <3>1, <3>2, <3>3 DEF CancelledHere
    <3> QED
      BY <2>1, <2>2, <3>1, <3>2, <3>3, <3>4 DEF Phase, CancelPhase
  <2> QED
    BY <1>3, <2>3, <2>4, <2>5, <2>7, Going DEF Rows, Modes
<1> QED
  BY <1>1, <1>2, <1>3

LEMMA ReserveJobStep ==
  ASSUME IInv, NEW p \in Req, ReserveJob1(p)
  PROVE  IInv'
<1> DEFINE j    == req[p].job
           d    == req[p].drone
           rows == Row(j, ReserveJob(jobs[j], d))
<1>1. /\ pc[p] = "reserve_job"
      /\ Rollback(p) \/ (CanReserveJob(jobs[j]) /\ Goes(p, "reserve_link", rows))
  BY DEF ReserveJob1, Statement, Goes, OthersStay, IInv, RequestsOK
<1>2. CASE Rollback(p)
  BY <1>2, RollbackKeeps
<1>3. CASE CanReserveJob(jobs[j]) /\ Goes(p, "reserve_link", rows)
  <2>1. req[p].kind = "RESERVE" /\ DOMAIN buf[p] = {} /\ j \in JobID
    BY <1>1, KindOf, AskedFor DEF IInv, Phases, Phase, ReservePhase
  <2>2. Wants(p) = {<<j, "UPDATE">>}
    BY <1>1, <2>1 DEF Wants, ReserveLocks, JobForUpdate
  <2>3. DOMAIN rows = {j} /\ rows[j] = ReserveJob(jobs[j], d)
    BY DEF Row
  <2> HIDE DEF rows
  <2>4. Present(j)
    BY <1>3, <2>1, TxAssumption DEF CanReserveJob, Present
  <2>5. Phase(p)'
    <3>1. /\ pc'[p] = "reserve_link" /\ DOMAIN buf'[p] = {j} /\ req'[p] = req[p]
          /\ buf'[p][j] = ReserveJob(jobs[j], d) /\ jobs' = jobs
      BY <1>3, <2>1, <2>3, Gone
    <3>2. Locks(p, j)'
      BY <1>3, <2>2, Gone
    <3> QED
      BY <1>3, <2>1, <3>1, <3>2 DEF Phase, ReservePhase
  <2> QED
    BY <1>3, <2>1, <2>2, <2>3, <2>4, <2>5, Going DEF Rows, Modes
<1> QED
  BY <1>1, <1>2, <1>3

LEMMA ReserveLinkStep ==
  ASSUME IInv, NEW p \in Req, ReserveLink2(p)
  PROVE  IInv'
<1> DEFINE j == req[p].job
           d == req[p].drone
<1>1. /\ pc[p] = "reserve_link"
      /\ Rollback(p) \/ (drones[d].status # "ABSENT" /\ Goes(p, "reserve_order", <<>>))
  BY DEF ReserveLink2, Statement, Goes, OthersStay, IInv, RequestsOK
<1>2. CASE Rollback(p)
  BY <1>2, RollbackKeeps
<1>3. CASE drones[d].status # "ABSENT" /\ Goes(p, "reserve_order", <<>>)
  <2>1. req[p].kind = "RESERVE" /\ ReservePhase(p) /\ d \in DroneID
    BY <1>1, KindOf, AskedFor DEF IInv, Phases, Phase
  <2>2. /\ Locks(p, j) /\ CanReserveJob(jobs[j]) /\ buf[p][j] = ReserveJob(jobs[j], d)
        /\ DOMAIN buf[p] = {j}
    BY <1>1, <2>1 DEF ReservePhase
  <2>3. Wants(p) = {<<d, "KEYSHARE">>}
    BY <1>1, <2>1 DEF Wants, ReserveLocks
  <2>4. Phase(p)'
    <3>1. /\ pc'[p] = "reserve_order" /\ DOMAIN buf'[p] = {j} /\ req'[p] = req[p]
          /\ buf'[p][j] = ReserveJob(jobs[j], d) /\ jobs' = jobs /\ drones' = drones
      BY <1>3, <2>2, NoRows, Gone
    <3>2. Locks(p, j)'
      BY <1>3, <2>2, Gone
    <3> QED
      BY <1>3, <2>1, <2>2, <3>1, <3>2 DEF Phase, ReservePhase
  <2> QED
    BY <1>3, <2>1, <2>3, <2>4, NoRows, Going DEF Rows, Modes
<1> QED
  BY <1>1, <1>2, <1>3

LEMMA ReserveOrderStep ==
  ASSUME IInv, NEW p \in Req, ReserveOrder3(p)
  PROVE  IInv'
<1> DEFINE j    == req[p].job
           d    == req[p].drone
           o    == jobs[j].order
           rows == Row(o, Assign(orders[o], d))
<1>1. /\ pc[p] = "reserve_order"
      /\ Rollback(p) \/ (CanAssign(orders[o]) /\ Goes(p, "reserve_drone", rows))
  BY DEF ReserveOrder3, Statement, Goes, OthersStay, IInv, RequestsOK
<1>2. CASE Rollback(p)
  BY <1>2, RollbackKeeps
<1>3. CASE CanAssign(orders[o]) /\ Goes(p, "reserve_drone", rows)
  <2>1. req[p].kind = "RESERVE" /\ ReservePhase(p) /\ j \in JobID
    BY <1>1, KindOf, AskedFor DEF IInv, Phases, Phase
  <2>2. /\ Locks(p, j) /\ CanReserveJob(jobs[j]) /\ buf[p][j] = ReserveJob(jobs[j], d)
        /\ DOMAIN buf[p] = {j} /\ drones[d].status # "ABSENT"
    BY <1>1, <2>1 DEF ReservePhase
  <2>3. o \in OrderID
    BY <2>1, <2>2, JobMethods DEF IInv, TablesOK, JobsHaveOrders, JobRow
  <2>4. Wants(p) = {<<o, "UPDATE">>}
    BY <1>1, <2>1 DEF Wants, ReserveLocks, OrderForUpdate
  <2>5. DOMAIN rows = {o} /\ rows[o] = Assign(orders[o], d)
    BY DEF Row
  <2> HIDE DEF rows
  <2>6. Present(o) /\ o # j
    BY <1>3, <2>1, <2>3, TxAssumption DEF CanAssign, Present
  <2>7. Phase(p)'
    <3>1. /\ pc'[p] = "reserve_drone" /\ DOMAIN buf'[p] = {j, o} /\ req'[p] = req[p]
          /\ buf'[p][j] = ReserveJob(jobs[j], d)
          /\ buf'[p][o] = Assign(orders[o], d)
          /\ orders' = orders /\ jobs' = jobs /\ drones' = drones
      BY SMTT(30), <1>3, <2>2, <2>5, <2>6, Gone
    <3>2. Locks(p, j)' /\ Locks(p, o)'
      BY <1>3, <2>2, <2>4, <3>1, Gone
    <3> QED
      BY <1>3, <2>1, <2>2, <3>1, <3>2 DEF Phase, ReservePhase
  <2> QED
    BY <1>3, <2>3, <2>4, <2>5, <2>6, <2>7, Going DEF Rows, Modes
<1> QED
  BY <1>1, <1>2, <1>3

LEMMA ReserveDroneStep ==
  ASSUME IInv, NEW p \in Req, ReserveDrone4(p)
  PROVE  IInv'
<1> DEFINE j    == req[p].job
           d    == req[p].drone
           o    == jobs[j].order
           rows == Row(d, ReserveDrone(drones[d], o))
<1>1. /\ pc[p] = "reserve_drone"
      /\ Rollback(p) \/ (CanReserveDrone(drones[d]) /\ Goes(p, "commit", rows))
  BY DEF ReserveDrone4, Statement, Goes, OthersStay, IInv, RequestsOK
<1>2. CASE Rollback(p)
  BY <1>2, RollbackKeeps
<1>3. CASE CanReserveDrone(drones[d]) /\ Goes(p, "commit", rows)
  <2>1. req[p].kind = "RESERVE" /\ ReservePhase(p) /\ j \in JobID /\ d \in DroneID
    BY <1>1, KindOf, AskedFor DEF IInv, Phases, Phase
  <2>2. /\ Locks(p, j) /\ CanReserveJob(jobs[j]) /\ buf[p][j] = ReserveJob(jobs[j], d)
        /\ DOMAIN buf[p] = {j, o} /\ drones[d].status # "ABSENT"
        /\ Locks(p, o) /\ CanAssign(orders[o]) /\ buf[p][o] = Assign(orders[o], d)
    BY <1>1, <2>1 DEF ReservePhase
  <2>3. o \in OrderID
    BY <2>1, <2>2, JobMethods DEF IInv, TablesOK, JobsHaveOrders, JobRow
  <2>4. Wants(p) = {<<d, "UPDATE">>}
    BY <1>1, <2>1 DEF Wants, ReserveLocks, DroneForUpdate
  <2>5. DOMAIN rows = {d} /\ rows[d] = ReserveDrone(drones[d], o)
    BY DEF Row
  <2> HIDE DEF rows
  <2>6. Present(d) /\ o # d /\ j # d /\ d \notin OrderID \cup JobID
    BY <2>1, <2>2, <2>3, TxAssumption DEF Present
  <2>7. Phase(p)'
    <3>1. /\ pc'[p] = "commit" /\ DOMAIN buf'[p] = {j, o, d} /\ req'[p] = req[p]
          /\ buf'[p][j] = ReserveJob(jobs[j], d)
          /\ buf'[p][o] = Assign(orders[o], d)
          /\ buf'[p][d] = ReserveDrone(drones[d], o)
          /\ orders' = orders /\ jobs' = jobs /\ drones' = drones
      BY SMTT(30), <1>3, <2>2, <2>5, <2>6, Gone
    <3>2. Locks(p, j)' /\ Locks(p, o)' /\ Locks(p, d)'
      BY <1>3, <2>2, <2>4, <3>1, Gone
    <3> QED
      BY <1>3, <2>1, <2>2, <3>1, <3>2 DEF Phase, ReservePhase
  <2> QED
    BY <1>3, <2>1, <2>4, <2>5, <2>6, <2>7, Going DEF Rows, Modes
<1> QED
  BY <1>1, <1>2, <1>3

LEMMA GrabOrderStep ==
  ASSUME IInv, NEW p \in Req, GrabOrder1(p)
  PROVE  IInv'
<1> DEFINE o    == req[p].order
           rows == Row(o, MarkPickedUp(orders[o]))
<1>1. /\ pc[p] = "grab_order"
      /\ \/ Rollback(p)
         \/ /\ orders[o].drone = req[p].drone /\ CanPickUp(orders[o])
            /\ Goes(p, "grab_drone", rows)
  BY DEF GrabOrder1, Statement, Goes, OthersStay, IInv, RequestsOK
<1>2. CASE Rollback(p)
  BY <1>2, RollbackKeeps
<1>3. CASE /\ orders[o].drone = req[p].drone /\ CanPickUp(orders[o])
           /\ Goes(p, "grab_drone", rows)
  <2>1. req[p].kind = "GRAB" /\ DOMAIN buf[p] = {} /\ o \in OrderID
    BY <1>1, KindOf, AskedFor DEF IInv, Phases, Phase, GrabPhase
  <2>2. Wants(p) = {<<o, "UPDATE">>}
    BY <1>1, <2>1 DEF Wants, GrabLocks, OrderForUpdate
  <2>3. DOMAIN rows = {o} /\ rows[o] = MarkPickedUp(orders[o])
    BY DEF Row
  <2> HIDE DEF rows
  <2>4. Present(o)
    BY <1>3, <2>1, TxAssumption DEF CanPickUp, Present
  <2>5. Phase(p)'
    <3>1. /\ pc'[p] = "grab_drone" /\ DOMAIN buf'[p] = {o} /\ req'[p] = req[p]
          /\ buf'[p][o] = MarkPickedUp(orders[o]) /\ orders' = orders
      BY <1>3, <2>1, <2>3, Gone
    <3>2. Locks(p, o)'
      BY <1>3, <2>2, Gone
    <3> QED
      BY <1>3, <2>1, <3>1, <3>2 DEF Phase, GrabPhase
  <2> QED
    BY <1>3, <2>1, <2>2, <2>3, <2>4, <2>5, Going DEF Rows, Modes
<1> QED
  BY <1>1, <1>2, <1>3

LEMMA GrabDroneStep ==
  ASSUME IInv, NEW p \in Req, GrabDrone2(p)
  PROVE  IInv'
<1> DEFINE o    == req[p].order
           d    == req[p].drone
           rows == Row(d, StartDelivery(drones[d]))
<1>1. /\ pc[p] = "grab_drone"
      /\ Rollback(p) \/ (CanStartDelivery(drones[d]) /\ Goes(p, "commit", rows))
  BY DEF GrabDrone2, Statement, Goes, OthersStay, IInv, RequestsOK
<1>2. CASE Rollback(p)
  BY <1>2, RollbackKeeps
<1>3. CASE CanStartDelivery(drones[d]) /\ Goes(p, "commit", rows)
  <2>1. req[p].kind = "GRAB" /\ GrabPhase(p) /\ o \in OrderID /\ d \in DroneID
    BY <1>1, KindOf, AskedFor DEF IInv, Phases, Phase
  <2>2. /\ Locks(p, o) /\ orders[o].drone = d /\ CanPickUp(orders[o])
        /\ buf[p][o] = MarkPickedUp(orders[o]) /\ DOMAIN buf[p] = {o}
    BY <1>1, <2>1 DEF GrabPhase
  <2>3. Wants(p) = {<<d, "UPDATE">>}
    BY <1>1, <2>1 DEF Wants, GrabLocks, DroneForUpdate
  <2>4. DOMAIN rows = {d} /\ rows[d] = StartDelivery(drones[d])
    BY DEF Row
  <2> HIDE DEF rows
  <2>5. Present(d) /\ o # d /\ d \notin OrderID \cup JobID
    BY <1>3, <2>1, TxAssumption DEF CanStartDelivery, Present
  <2>6. Phase(p)'
    <3>1. /\ pc'[p] = "commit" /\ DOMAIN buf'[p] = {o, d} /\ req'[p] = req[p]
          /\ buf'[p][o] = MarkPickedUp(orders[o]) /\ buf'[p][d] = StartDelivery(drones[d])
          /\ orders' = orders /\ drones' = drones
      BY <1>3, <2>2, <2>4, <2>5, Gone
    <3>2. Locks(p, o)' /\ Locks(p, d)'
      BY <1>3, <2>2, <2>3, Gone
    <3> QED
      BY <1>3, <2>1, <2>2, <3>1, <3>2 DEF Phase, GrabPhase
  <2> QED
    BY <1>3, <2>1, <2>3, <2>4, <2>5, <2>6, Going DEF Rows, Modes
<1> QED
  BY <1>1, <1>2, <1>3

LEMMA CompleteOrderStep ==
  ASSUME IInv, NEW p \in Req, CompleteOrder1(p)
  PROVE  IInv'
<1> DEFINE o    == req[p].order
           rows == Row(o, MarkFinished(orders[o], req[p].arg))
<1>1. /\ pc[p] = "complete_order"
      /\ \/ Rollback(p)
         \/ /\ orders[o].drone = req[p].drone /\ CanFinish(orders[o])
            /\ Goes(p, "complete_drone", rows)
  BY DEF CompleteOrder1, Statement, Goes, OthersStay, IInv, RequestsOK
<1>2. CASE Rollback(p)
  BY <1>2, RollbackKeeps
<1>3. CASE /\ orders[o].drone = req[p].drone /\ CanFinish(orders[o])
           /\ Goes(p, "complete_drone", rows)
  <2>1. req[p].kind = "COMPLETE" /\ DOMAIN buf[p] = {} /\ o \in OrderID
    BY <1>1, KindOf, AskedFor DEF IInv, Phases, Phase, CompletePhase
  <2>2. Wants(p) = {<<o, "UPDATE">>}
    BY <1>1, <2>1 DEF Wants, CompleteLocks, OrderForUpdate
  <2>3. DOMAIN rows = {o} /\ rows[o] = MarkFinished(orders[o], req[p].arg)
    BY DEF Row
  <2> HIDE DEF rows
  <2>4. Present(o)
    BY <1>3, <2>1, TxAssumption DEF CanFinish, Present
  <2>5. Phase(p)'
    <3>1. /\ pc'[p] = "complete_drone" /\ DOMAIN buf'[p] = {o} /\ req'[p] = req[p]
          /\ buf'[p][o] = MarkFinished(orders[o], req[p].arg) /\ orders' = orders
      BY <1>3, <2>1, <2>3, Gone
    <3>2. Locks(p, o)'
      BY <1>3, <2>2, Gone
    <3> QED
      BY <1>3, <2>1, <3>1, <3>2 DEF Phase, CompletePhase
  <2> QED
    BY <1>3, <2>1, <2>2, <2>3, <2>4, <2>5, Going DEF Rows, Modes
<1> QED
  BY <1>1, <1>2, <1>3

LEMMA CompleteDroneStep ==
  ASSUME IInv, NEW p \in Req, CompleteDrone2(p)
  PROVE  IInv'
<1> DEFINE o    == req[p].order
           d    == req[p].drone
           rows == Row(d, GoIdle(drones[d]))
<1>1. /\ pc[p] = "complete_drone"
      /\ Rollback(p) \/ (drones[d].status # "ABSENT" /\ Goes(p, "complete_job", rows))
  BY DEF CompleteDrone2, Statement, Goes, OthersStay, IInv, RequestsOK
<1>2. CASE Rollback(p)
  BY <1>2, RollbackKeeps
<1>3. CASE drones[d].status # "ABSENT" /\ Goes(p, "complete_job", rows)
  <2>1. req[p].kind = "COMPLETE" /\ CompletePhase(p) /\ o \in OrderID /\ d \in DroneID
    BY <1>1, KindOf, AskedFor DEF IInv, Phases, Phase
  <2>2. /\ Locks(p, o) /\ orders[o].drone = d /\ CanFinish(orders[o])
        /\ buf[p][o] = MarkFinished(orders[o], req[p].arg) /\ DOMAIN buf[p] = {o}
    BY <1>1, <2>1 DEF CompletePhase
  <2>3. Wants(p) = {<<d, "UPDATE">>}
    BY <1>1, <2>1 DEF Wants, CompleteLocks, DroneForUpdate
  <2>4. DOMAIN rows = {d} /\ rows[d] = GoIdle(drones[d])
    BY DEF Row
  <2> HIDE DEF rows
  <2>5. Present(d) /\ o # d /\ d \notin OrderID \cup JobID
    BY <1>3, <2>1, TxAssumption DEF Present
  <2>6. Phase(p)'
    <3>1. /\ pc'[p] = "complete_job" /\ DOMAIN buf'[p] = {o, d} /\ req'[p] = req[p]
          /\ buf'[p][o] = MarkFinished(orders[o], req[p].arg) /\ buf'[p][d] = GoIdle(drones[d])
          /\ orders' = orders /\ drones' = drones
      BY <1>3, <2>2, <2>4, <2>5, Gone
    <3>2. Locks(p, o)' /\ Locks(p, d)'
      BY <1>3, <2>2, <2>3, Gone
    <3> QED
      BY <1>3, <2>1, <2>2, <3>1, <3>2 DEF Phase, CompletePhase
  <2> QED
    BY <1>3, <2>1, <2>3, <2>4, <2>5, <2>6, Going DEF Rows, Modes
<1> QED
  BY <1>1, <1>2, <1>3

LEMMA CompleteJobStep ==
  ASSUME IInv, NEW p \in Req, CompleteJob3(p)
  PROVE  IInv'
<1> DEFINE o    == req[p].order
           d    == req[p].drone
           js   == JobsToComplete(o)
           rows == [j \in js |-> CompleteJob(jobs[j])]
<1>1. /\ pc[p] = "complete_job"
      /\ Rollback(p) \/ (js # {} /\ Goes(p, "commit", rows))
  BY DEF CompleteJob3, JobsToComplete, Statement, Goes, OthersStay, IInv, RequestsOK
<1>2. CASE Rollback(p)
  BY <1>2, RollbackKeeps
<1>3. CASE js # {} /\ Goes(p, "commit", rows)
  <2>1. req[p].kind = "COMPLETE" /\ CompletePhase(p) /\ o \in OrderID /\ d \in DroneID
    BY <1>1, KindOf, AskedFor DEF IInv, Phases, Phase
  <2>2. /\ Locks(p, o) /\ orders[o].drone = d /\ CanFinish(orders[o])
        /\ buf[p][o] = MarkFinished(orders[o], req[p].arg) /\ DOMAIN buf[p] = {o, d}
        /\ Locks(p, d) /\ drones[d].status # "ABSENT" /\ buf[p][d] = GoIdle(drones[d])
    BY <1>1, <2>1 DEF CompletePhase
  <2>3. Wants(p) = {<<j, "UPDATE">> : j \in {i \in JobID : IsJobOf(jobs[i], o)}}
    BY <1>1, <2>1 DEF Wants, CompleteLocks, JobOfOrderForUpdate
  <2>4. DOMAIN rows = js /\ \A j \in js : rows[j] = CompleteJob(jobs[j])
    OBVIOUS
  <2>5. \A j \in JobID : IsJobOf(jobs[j], o) => Present(j)
    BY <2>1, NilAssumption, TxAssumption DEF IInv, JobsHaveOrders, IsJobOf, Present
  <2>6. /\ o \notin js /\ d \notin js /\ js \subseteq JobID
        /\ \A j \in js : <<j, "UPDATE">> \in Wants(p) /\ Present(j)
    BY <2>1, <2>3, <2>5, TxAssumption DEF JobsToComplete
  <2> HIDE DEF rows, js
  <2>7. Phase(p)'
    <3>1. /\ pc'[p] = "commit" /\ DOMAIN buf'[p] = {o, d} \cup js /\ req'[p] = req[p]
          /\ buf'[p][o] = MarkFinished(orders[o], req[p].arg) /\ buf'[p][d] = GoIdle(drones[d])
          /\ orders' = orders /\ drones' = drones /\ jobs' = jobs
          /\ \A j \in js : buf'[p][j] = CompleteJob(jobs[j])
      BY <1>3, <2>2, <2>4, <2>6, Gone
    <3>2. Locks(p, o)' /\ Locks(p, d)' /\ \A j \in js : Locks(p, j)'
      BY <1>3, <2>2, <2>6, Gone
    <3>3. JobsToComplete(o)' = js
      BY <3>1 DEF js, JobsToComplete
    <3> QED
      BY <1>3, <2>1, <2>2, <3>1, <3>2, <3>3 DEF Phase, CompletePhase
  <2>8. Wants(p) \subseteq Rows \X Modes
    BY <2>3 DEF Rows, Modes
  <2>9. \A x \in Rows, m \in {"UPDATE", "NOKEY"} : <<x, m>> \in Wants(p) => Present(x)
    BY <2>3, <2>5
  <2> QED
    BY <1>3, <2>4, <2>6, <2>7, <2>8, <2>9, Going
<1> QED
  BY <1>1, <1>2, <1>3

LEMMA BrokenDroneStep ==
  ASSUME IInv, NEW p \in Req, BrokenDrone1(p)
  PROVE  IInv'
<1> DEFINE d    == req[p].drone
           next == IF drones[d].order = Nil THEN "commit" ELSE "broken_order"
           rows == Row(d, MarkBroken(drones[d]))
<1>1. /\ pc[p] = "broken_drone"
      /\ Rollback(p) \/ (CanBreak(drones[d]) /\ Goes(p, next, rows))
  BY DEF BrokenDrone1, Statement, Goes, OthersStay, IInv, RequestsOK
<1>2. CASE Rollback(p)
  BY <1>2, RollbackKeeps
<1>3. CASE CanBreak(drones[d]) /\ Goes(p, next, rows)
  <2>1. req[p].kind = "BROKEN" /\ DOMAIN buf[p] = {} /\ d \in DroneID
    BY <1>1, KindOf, AskedFor DEF IInv, Phases, Phase, BrokenPhase, TakenFrom
  <2>2. Wants(p) = {<<d, "UPDATE">>}
    BY <1>1, <2>1 DEF Wants, BrokenLocks, DroneForUpdate
  <2>3. DOMAIN rows = {d} /\ rows[d] = MarkBroken(drones[d])
    BY DEF Row
  <2> HIDE DEF rows, next
  <2>4. Present(d) /\ d \notin OrderID \cup JobID
    BY <1>3, <2>1, TxAssumption DEF CanBreak, Present
  <2>5. Phase(p)'
    <3>1. /\ pc'[p] = next /\ DOMAIN buf'[p] = {d} /\ req'[p] = req[p]
          /\ buf'[p][d] = MarkBroken(drones[d]) /\ drones' = drones
      BY <1>3, <2>1, <2>3, Gone
    <3>2. Locks(p, d)'
      BY <1>3, <2>2, Gone
    <3> QED
      BY <1>3, <2>1, <3>1, <3>2 DEF Phase, BrokenPhase, next
  <2> QED
    BY <1>3, <2>1, <2>2, <2>3, <2>4, <2>5, Going DEF Rows, Modes
<1> QED
  BY <1>1, <1>2, <1>3

LEMMA BrokenOrderStep ==
  ASSUME IInv, NEW p \in Req, BrokenOrder2(p)
  PROVE  IInv'
<1> DEFINE d    == req[p].drone
           o    == drones[d].order
           rows == Row(o, AwaitHandoff(orders[o]))
<1>1. /\ pc[p] = "broken_order"
      /\ Rollback(p) \/ (CanAwaitHandoff(orders[o]) /\ Goes(p, "broken_jobs", rows))
  BY DEF BrokenOrder2, Statement, Goes, OthersStay, IInv, RequestsOK
<1>2. CASE Rollback(p)
  BY <1>2, RollbackKeeps
<1>3. CASE CanAwaitHandoff(orders[o]) /\ Goes(p, "broken_jobs", rows)
  <2>1. req[p].kind = "BROKEN" /\ BrokenPhase(p) /\ d \in DroneID
    BY <1>1, KindOf, AskedFor DEF IInv, Phases, Phase
  <2>2. /\ Locks(p, d) /\ CanBreak(drones[d]) /\ buf[p][d] = MarkBroken(drones[d])
        /\ DOMAIN buf[p] = {d} /\ o # Nil
    BY <1>1, <2>1 DEF BrokenPhase, TakenFrom
  <2>3. o \in OrderID
    BY <2>1, <2>2 DEF IInv, TablesOK, DroneRow
  <2>4. Wants(p) = {<<o, "UPDATE">>}
    BY <1>1, <2>1 DEF Wants, BrokenLocks, OrderForUpdate
  <2>5. DOMAIN rows = {o} /\ rows[o] = AwaitHandoff(orders[o])
    BY DEF Row
  <2> HIDE DEF rows
  <2>6. Present(o) /\ o # d
    BY <1>3, <2>1, <2>3, TxAssumption DEF CanAwaitHandoff, Present
  <2>7. Phase(p)'
    <3>1. /\ pc'[p] = "broken_jobs" /\ DOMAIN buf'[p] = {d, o} /\ req'[p] = req[p]
          /\ buf'[p][d] = MarkBroken(drones[d]) /\ buf'[p][o] = AwaitHandoff(orders[o])
          /\ orders' = orders /\ drones' = drones
      BY SMTT(30), <1>3, <2>2, <2>5, <2>6, Gone
    <3>2. Locks(p, d)' /\ Locks(p, o)'
      BY <1>3, <2>2, <2>4, <3>1, Gone
    <3>3. TakenFrom(p, d, o)'
      BY <1>3, <3>1, <3>2 DEF TakenFrom
    <3> QED
      BY <2>1, <2>2, <3>1, <3>2, <3>3 DEF Phase, BrokenPhase
  <2> QED
    BY <1>3, <2>3, <2>4, <2>5, <2>6, <2>7, Going DEF Rows, Modes
<1> QED
  BY <1>1, <1>2, <1>3

LEMMA BrokenJobsStep ==
  ASSUME IInv, NEW p \in Req, BrokenJobs3(p)
  PROVE  IInv'
<1> DEFINE d         == req[p].drone
           o         == drones[d].order
           js        == JobsToCancel(o)
           rows(new) == Over(Row(new, NewJob(o)), [j \in js |-> CancelJob(jobs[j])])
<1>1. PICK new \in JobID :
        /\ FreshJob(new) /\ pc[p] = "broken_jobs"
        /\ Rollback(p) \/ (js # {} /\ Goes(p, "commit", rows(new)))
  BY DEF BrokenJobs3, Statement, Goes, OthersStay, IInv, RequestsOK
<1>2. CASE Rollback(p)
  BY <1>2, RollbackKeeps
<1>3. CASE js # {} /\ Goes(p, "commit", rows(new))
  <2>1. req[p].kind = "BROKEN" /\ BrokenPhase(p) /\ d \in DroneID
    BY <1>1, KindOf, AskedFor DEF IInv, Phases, Phase
  <2>2. /\ Locks(p, d) /\ CanBreak(drones[d]) /\ buf[p][d] = MarkBroken(drones[d]) /\ o # Nil
        /\ TakenFrom(p, d, o)
    BY <1>1, <2>1 DEF BrokenPhase
  <2>3. /\ Locks(p, o) /\ CanAwaitHandoff(orders[o]) /\ buf[p][o] = AwaitHandoff(orders[o])
        /\ DOMAIN buf[p] = {d, o}
    BY <1>1, <2>2 DEF TakenFrom
  <2>4. o \in OrderID
    BY <2>1, <2>2 DEF IInv, TablesOK, DroneRow
  <2>5. Wants(p) = {<<j, "NOKEY">> : j \in js}
    BY <1>1, <2>1 DEF Wants, BrokenLocks
  <2>6. js \subseteq JobID /\ \A j \in js : Present(j) /\ j # new
    BY <1>1, <2>4, NilAssumption, TxAssumption
       DEF IInv, JobsHaveOrders, JobsToCancel, CanCancelJob, Present, FreshJob
  <2>7. /\ DOMAIN rows(new) = {new} \cup js /\ rows(new)[new] = NewJob(o)
        /\ \A j \in js : rows(new)[j] = CancelJob(jobs[j])
    BY <2>6 DEF Over, Row
  <2>8. o \notin js /\ d \notin js /\ o # new /\ d # new
    BY <2>1, <2>4, <2>6, TxAssumption
  <2> HIDE DEF rows, js
  <2>9. Phase(p)'
    <3>1. /\ pc'[p] = "commit" /\ DOMAIN buf'[p] = {d, o, new} \cup js /\ req'[p] = req[p]
          /\ buf'[p][d] = MarkBroken(drones[d]) /\ buf'[p][o] = AwaitHandoff(orders[o])
          /\ buf'[p][new] = NewJob(o) /\ \A j \in js : buf'[p][j] = CancelJob(jobs[j])
          /\ orders' = orders /\ drones' = drones /\ jobs' = jobs
      BY SMTT(30), <1>3, <2>2, <2>3, <2>7, <2>8, Gone
    <3>2. Locks(p, d)' /\ Locks(p, o)' /\ \A j \in js : Locks(p, j)'
      BY <1>3, <2>2, <2>3, <2>5, <3>1, Gone
    <3>3. JobsToCancel(o)' = js
      BY <3>1 DEF js, JobsToCancel
    <3>4. CancelledHere(p, o)'
      BY <1>3, <3>1, <3>2, <3>3 DEF CancelledHere
    <3>5. TakenFrom(p, d, o)'
      BY <1>1, <2>3, <3>1, <3>2, <3>3, <3>4 DEF TakenFrom, FreshJob
    <3> QED
      BY <2>1, <2>2, <3>1, <3>2, <3>5 DEF Phase, BrokenPhase
  <2>10. Wants(p) \subseteq Rows \X Modes
    BY <2>5, <2>6 DEF Rows, Modes
  <2>11. \A x \in Rows, m \in {"UPDATE", "NOKEY"} : <<x, m>> \in Wants(p) => Present(x)
    BY <2>5, <2>6
  <2>12. \A x \in DOMAIN rows(new) \cap (OrderID \cup JobID) :
           Present(x) \/ \A q \in Req : x \notin DOMAIN buf[q]
    BY <1>1, <2>6, <2>7 DEF FreshJob
  <2> QED
    BY <1>3, <2>9, <2>10, <2>11, <2>12, Going
<1> QED
  BY <1>1, <1>2, <1>3

(* A read without a lock: what it puts on its way is there.                *)
LEMMA Reading ==
  ASSUME IInv, NEW p \in Req, UNCHANGED <<tables, req, held>>, OthersStay(p), Phase(p)',
         \A x \in DOMAIN buf'[p] : x \in OrderID \cup JobID => Present(x)
  PROVE  IInv'
<1>1. LocalStep(p)
  BY DEF IInv, RequestsOK, LocalStep, Locks
<1> QED
  BY <1>1, LocalKeeps

LEMMA BeatReadStep ==
  ASSUME IInv, NEW p \in Req, BeatRead(p)
  PROVE  IInv'
<1> DEFINE d == req[p].drone
<1>1. /\ pc[p] = "beat_read" /\ UNCHANGED <<tables, req, held>> /\ OthersStay(p)
      /\ \/ pc'[p] = "save" /\ buf'[p] = Row(d, drones[d]) /\ drones[d].status # "ABSENT"
         \/ pc'[p] = "beat_insert" /\ buf'[p] = Row(d, NewDrone)
  BY DEF BeatRead, Read, OthersStay, IInv, RequestsOK
<1>2. req[p].kind = "BEAT" /\ held[p] = {} /\ d \in DroneID
  BY <1>1, KindOf, AskedFor DEF IInv, Phases, Phase, BeatPhase, WritingBack
<1>3. drones[d] \in DroneRow /\ NewDrone \in DroneRow /\ NewDrone.status # "ABSENT"
  BY <1>2, DroneMethods DEF IInv, TablesOK
<1>4. DOMAIN buf'[p] = {d} /\ buf'[p][d] \in DroneRow /\ buf'[p][d].status # "ABSENT"
  BY <1>1, <1>3 DEF Row
<1>5. held'[p] = {} /\ drones' = drones /\ req'[p] = req[p]
  BY <1>1, <1>2 DEF tables
<1>6. Phase(p)'
  BY <1>1, <1>2, <1>4, <1>5 DEF Phase, BeatPhase, WritingBack
<1> QED
  BY <1>1, <1>2, <1>4, <1>6, Reading, TxAssumption

LEMMA FixedReadStep ==
  ASSUME IInv, NEW p \in Req, FixedRead(p)
  PROVE  IInv'
<1> DEFINE d == req[p].drone
<1>1. /\ pc[p] = "fixed_read"
      /\ \/ Rollback(p)
         \/ /\ UNCHANGED <<tables, req, held>> /\ OthersStay(p) /\ CanFix(drones[d])
            /\ pc'[p] = "save" /\ buf'[p] = Row(d, MarkFixed(drones[d]))
  BY DEF FixedRead, Read, OthersStay, IInv, RequestsOK
<1>2. CASE Rollback(p)
  BY <1>2, RollbackKeeps
<1>3. CASE /\ UNCHANGED <<tables, req, held>> /\ OthersStay(p) /\ CanFix(drones[d])
           /\ pc'[p] = "save" /\ buf'[p] = Row(d, MarkFixed(drones[d]))
  <2>1. req[p].kind = "FIXED" /\ held[p] = {} /\ d \in DroneID /\ drones[d] \in DroneRow
    BY <1>1, KindOf, AskedFor DEF IInv, Phases, Phase, FixedPhase, WritingBack, TablesOK
  <2>2. /\ MarkFixed(drones[d]) \in DroneRow /\ MarkFixed(drones[d]).status # "ABSENT"
        /\ MarkFixed(drones[d]).order = Nil /\ drones[d].status # "ABSENT"
    BY <1>3, <2>1, DroneMethods DEF MarkFixed, DroneRow
  <2>3. /\ DOMAIN buf'[p] = {d} /\ buf'[p][d] \in DroneRow /\ buf'[p][d].status # "ABSENT"
        /\ buf'[p][d].order = Nil /\ held'[p] = {} /\ drones' = drones /\ req'[p] = req[p]
    BY <1>3, <2>1, <2>2 DEF Row, tables
  <2>4. Phase(p)'
    BY <1>3, <2>1, <2>2, <2>3 DEF Phase, FixedPhase, WritingBack
  <2> QED
    BY <1>3, <2>1, <2>3, <2>4, Reading, TxAssumption
<1> QED
  BY <1>1, <1>2, <1>3

LEMMA AdminReadStep ==
  ASSUME IInv, NEW p \in Req, AdminRead(p)
  PROVE  IInv'
<1> DEFINE o == req[p].order
           r == req[p].arg
<1>1. /\ pc[p] = "admin_read"
      /\ \/ Rollback(p)
         \/ /\ UNCHANGED <<tables, req, held>> /\ OthersStay(p) /\ CanReroute(orders[o], r)
            /\ pc'[p] = "save" /\ buf'[p] = Row(o, Reroute(orders[o], r))
  BY DEF AdminRead, Read, OthersStay, IInv, RequestsOK
<1>2. CASE Rollback(p)
  BY <1>2, RollbackKeeps
<1>3. CASE /\ UNCHANGED <<tables, req, held>> /\ OthersStay(p) /\ CanReroute(orders[o], r)
           /\ pc'[p] = "save" /\ buf'[p] = Row(o, Reroute(orders[o], r))
  <2>1. req[p].kind = "ADMIN" /\ held[p] = {} /\ o \in OrderID /\ r \in Route \cup {Nil}
    BY <1>1, KindOf, AskedFor DEF IInv, Phases, Phase, AdminPhase, WritingBack
  <2>2. Reroute(orders[o], r) \in OrderRow /\ Reroute(orders[o], r).status # "ABSENT"
    BY <1>3, <2>1, OrderMethods DEF IInv, TablesOK
  <2>3. DOMAIN buf'[p] = {o} /\ buf'[p][o] \in OrderRow /\ buf'[p][o].status # "ABSENT"
    BY <1>3, <2>2 DEF Row
  <2>4. orders[o].status # "ABSENT" /\ orders' = orders /\ held'[p] = {} /\ req'[p] = req[p]
    BY <1>3, <2>1 DEF CanReroute, tables
  <2>5. Phase(p)'
    BY <1>3, <2>1, <2>3, <2>4 DEF Phase, AdminPhase, WritingBack
  <2>6. Present(o)
    BY <2>1, <2>4, TxAssumption DEF Present
  <2> QED
    BY <1>3, <2>3, <2>5, <2>6, Reading
<1> QED
  BY <1>1, <1>2, <1>3

(* The row that a request without a transaction writes back. *)
LEMMA BackRow ==
  ASSUME IInv, NEW p \in Req, pc[p] \in {"save", "save_link"}
  PROVE  \E x \in Rows :
           /\ DOMAIN buf[p] = {x} /\ Present(x) /\ WritingBack(p, x)
           /\ x = IF req[p].kind = "ADMIN" THEN req[p].order ELSE req[p].drone
<1>1. Phase(p) /\ req[p].kind \in UnlockedKinds
  BY KindOf DEF IInv, Phases
<1>2. CASE req[p].kind \in {"BEAT", "FIXED"}
  <2>1. /\ req[p].drone \in DroneID /\ DOMAIN buf[p] = {req[p].drone}
        /\ drones[req[p].drone].status # "ABSENT" /\ WritingBack(p, req[p].drone)
    BY <1>1, <1>2, AskedFor DEF IInv, Phase, BeatPhase, FixedPhase
  <2> QED
    BY <1>2, <2>1, TxAssumption DEF Rows, Present
<1>3. CASE req[p].kind = "ADMIN"
  <2>1. /\ req[p].order \in OrderID /\ DOMAIN buf[p] = {req[p].order}
        /\ orders[req[p].order].status # "ABSENT" /\ WritingBack(p, req[p].order)
    BY <1>1, <1>3, AskedFor DEF IInv, Phase, AdminPhase
  <2> QED
    BY <1>3, <2>1, TxAssumption DEF Rows, Present
<1> QED
  BY <1>1, <1>2, <1>3 DEF UnlockedKinds

LEMMA SaveStep ==
  ASSUME IInv, NEW p \in Req, Save(p)
  PROVE  IInv'
<1>1. pc[p] = "save" /\ Goes(p, "save_link", <<>>)
  BY DEF Save, Statement, Goes, OthersStay, IInv, RequestsOK
<1>2. PICK x \in Rows :
        /\ DOMAIN buf[p] = {x} /\ Present(x)
        /\ x = IF req[p].kind = "ADMIN" THEN req[p].order ELSE req[p].drone
  BY <1>1, BackRow
<1>3. Phase(p) /\ req[p].kind \in UnlockedKinds
  BY <1>1, KindOf DEF IInv, Phases
<1>4. Wants(p) = {<<x, "NOKEY">>}
  BY <1>1, <1>2, <1>3 DEF Wants, SaveLocks, UnlockedKinds
<1>5. /\ pc'[p] = "save_link" /\ req'[p] = req[p] /\ orders' = orders /\ drones' = drones
      /\ DOMAIN buf'[p] = DOMAIN buf[p] /\ buf'[p][x] = buf[p][x]
      /\ Locks(p, x)'
  <2> DEFINE none == <<>>
  <2>1. Goes(p, "save_link", none) /\ DOMAIN none = {}
    BY <1>1, NoRows
  <2> HIDE DEF none
  <2>2. /\ pc'[p] = "save_link" /\ req'[p] = req[p] /\ orders' = orders /\ drones' = drones
        /\ DOMAIN buf'[p] = DOMAIN none \cup DOMAIN buf[p]
        /\ \A y \in DOMAIN buf[p] : y \notin DOMAIN none => buf'[p][y] = buf[p][y]
    BY <2>1, Gone
  <2>3. Locks(p, x)' <=> Locks(p, x) \/ <<x, "UPDATE">> \in Wants(p) \/ <<x, "NOKEY">> \in Wants(p)
    BY <2>1, Gone
  <2> QED
    BY <1>2, <1>4, <2>1, <2>2, <2>3
<1>6. Phase(p)'
  BY <1>1, <1>2, <1>3, <1>5 DEF Phase, BeatPhase, FixedPhase, AdminPhase, WritingBack, UnlockedKinds
<1> QED
  BY <1>1, <1>2, <1>4, <1>6, NoRows, Going DEF Modes

LEMMA StartStep ==
  ASSUME IInv, NEW p \in Req, Start(p)
  PROVE  IInv'
<1>1. PICK q \in Requests : req'[p] = q /\ pc'[p] = First[q.kind]
  BY DEF Start, IInv, RequestsOK
<1>2. pc[p] = "idle" /\ UNCHANGED <<tables, held, buf>> /\ OthersStay(p)
  BY DEF Start, OthersStay, IInv, RequestsOK
<1>3. held'[p] = {} /\ buf'[p] = <<>>
  BY <1>2, KindOf DEF IInv, Phases, Phase, Idle
<1>4. Phase(p)'
  BY <1>1, <1>3, RequestFacts, NoRows
     DEF Phase, AllKinds, TxKinds, UnlockedKinds, First, CreatePhase, CancelPhase, ReservePhase, GrabPhase,
         CompletePhase, BrokenPhase, BeatPhase, FixedPhase, AdminPhase
<1>5. LocalStep(p)
  BY <1>1, <1>2, <1>3, <1>4 DEF LocalStep, Locks, IInv, RequestsOK
<1> QED
  BY <1>5, LocalKeeps

-----------------------------------------------------------------------------
(* Steps that write: COMMIT, the single UPDATE, and the Upsert.            *)

(* The rows p is about to write are well formed and nobody else's; so are  *)
(* the orders of the jobs among them.                                      *)
WritesOwn(p) ==
  /\ \A x \in DOMAIN buf[p] : x \in Rows /\ \A q \in Req \ {p} : ~Locks(q, x)
  /\ \A o \in OrderID : o \in DOMAIN buf[p] => buf[p][o] \in OrderRow /\ buf[p][o].status # "ABSENT"
  /\ \A d \in DroneID : d \in DOMAIN buf[p] => buf[p][d] \in DroneRow /\ buf[p][d].status # "ABSENT"
  /\ \A j \in JobID : j \in DOMAIN buf[p] =>
       LET o == buf[p][j].order IN
       /\ buf[p][j] \in JobRow /\ buf[p][j].status # "ABSENT" /\ o \in OrderID
       /\ jobs[j].status = "ABSENT" \/ jobs[j].order = o
       /\ orders[o].status # "ABSENT" \/ o \in DOMAIN buf[p]
       /\ \A q \in Req \ {p} : ~Locks(q, o)

Writes(p) ==
  orders' = Written(p, orders) /\ drones' = Written(p, drones) /\ jobs' = Written(p, jobs)

LEMMA WrittenRows ==
  ASSUME TablesOK, NEW p \in Req, Writes(p)
  PROVE  /\ DOMAIN orders' = OrderID /\ DOMAIN drones' = DroneID /\ DOMAIN jobs' = JobID
         /\ \A o \in OrderID : orders'[o] = IF o \in DOMAIN buf[p] THEN buf[p][o] ELSE orders[o]
         /\ \A d \in DroneID : drones'[d] = IF d \in DOMAIN buf[p] THEN buf[p][d] ELSE drones[d]
         /\ \A j \in JobID : jobs'[j] = IF j \in DOMAIN buf[p] THEN buf[p][j] ELSE jobs[j]
BY DEF TablesOK, Writes, Written

LEMMA WriteTables ==
  ASSUME IInv, NEW p \in Req, WritesOwn(p), Writes(p)
  PROVE  /\ TablesOK' /\ JobsHaveOrders'
         /\ \A x \in Rows : Present(x) => Present(x)'
<1>1. /\ \A o \in OrderID : orders[o].status # "ABSENT" => orders'[o].status # "ABSENT"
      /\ \A d \in DroneID : drones[d].status # "ABSENT" => drones'[d].status # "ABSENT"
      /\ \A j \in JobID : jobs[j].status # "ABSENT" => jobs'[j].status # "ABSENT"
  BY WrittenRows DEF IInv, WritesOwn
<1>2. \A x \in Rows : Present(x) => Present(x)'
  BY <1>1 DEF Present
<1>3. TablesOK'
  <2>1. \A o \in OrderID : orders'[o] \in OrderRow
    BY WrittenRows DEF IInv, WritesOwn, TablesOK
  <2>2. \A d \in DroneID : drones'[d] \in DroneRow
    BY WrittenRows DEF IInv, WritesOwn, TablesOK
  <2>3. \A j \in JobID : jobs'[j] \in JobRow
    BY WrittenRows DEF IInv, WritesOwn, TablesOK
  <2>4. /\ orders' = [o \in OrderID |-> orders'[o]]
        /\ drones' = [d \in DroneID |-> drones'[d]]
        /\ jobs' = [j \in JobID |-> jobs'[j]]
    BY WrittenRows DEF IInv, Writes, Written
  <2> QED
    BY <2>1, <2>2, <2>3, <2>4 DEF TablesOK
<1>4. JobsHaveOrders'
  <2> SUFFICES ASSUME NEW j \in JobID
               PROVE  /\ jobs'[j].order = Nil <=> jobs'[j].status = "ABSENT"
                      /\ jobs'[j].order # Nil => orders'[jobs'[j].order].status # "ABSENT"
    BY DEF JobsHaveOrders
  <2>1. CASE j \in DOMAIN buf[p]
    <3> DEFINE o == buf[p][j].order
    <3>1. /\ jobs'[j] = buf[p][j] /\ buf[p][j].status # "ABSENT" /\ o \in OrderID
          /\ orders[o].status # "ABSENT" \/ o \in DOMAIN buf[p]
      BY <2>1, WrittenRows DEF IInv, WritesOwn
    <3>2. orders'[o].status # "ABSENT"
      BY <1>1, <3>1, WrittenRows DEF IInv, WritesOwn
    <3> QED
      BY <3>1, <3>2, NilAssumption
  <2>2. CASE j \notin DOMAIN buf[p]
    <3>1. jobs'[j] = jobs[j]
      BY <2>2, WrittenRows DEF IInv
    <3>2. jobs[j].order \in OrderID \cup {Nil}
      BY DEF IInv, TablesOK, JobRow
    <3> QED
      BY <1>1, <3>1, <3>2 DEF IInv, JobsHaveOrders
  <2> QED
    BY <2>1, <2>2
<1> QED
  BY <1>2, <1>3, <1>4

LEMMA WriteSteady ==
  ASSUME IInv, NEW p \in Req, WritesOwn(p), Writes(p), OthersStay(p), NEW q \in Req \ {p}
  PROVE  Steady(q)
<1>1. ASSUME NEW o \in OrderID
      PROVE  /\ Locks(q, o) => /\ orders'[o] = orders[o]
                               /\ \A j \in JobID : jobs[j].order = o \/ jobs'[j].order = o
                                                     => jobs'[j] = jobs[j]
             /\ orders[o].status # "ABSENT" => orders'[o].status # "ABSENT"
             /\ o \in DOMAIN buf[q] /\ orders[o].status = "ABSENT" => orders'[o] = orders[o]
  <2>1. orders[o].status # "ABSENT" => orders'[o].status # "ABSENT"
    BY WrittenRows DEF IInv, WritesOwn
  <2>2. ASSUME Locks(q, o) PROVE orders'[o] = orders[o]
    BY <2>2, WrittenRows DEF IInv, WritesOwn
  <2>3. ASSUME Locks(q, o), NEW j \in JobID, jobs[j].order = o \/ jobs'[j].order = o
        PROVE  jobs'[j] = jobs[j]
    <3>1. CASE j \in DOMAIN buf[p]
      <4>1. /\ jobs'[j] = buf[p][j] /\ buf[p][j].order # o
            /\ jobs[j].status = "ABSENT" \/ jobs[j].order = buf[p][j].order
        BY <2>3, <3>1, WrittenRows DEF IInv, WritesOwn
      <4>2. jobs[j].order = Nil
        BY <2>3, <4>1 DEF IInv, JobsHaveOrders
      <4> QED
        BY <2>3, <4>1, <4>2, NilAssumption
    <3>2. CASE j \notin DOMAIN buf[p]
      BY <3>2, WrittenRows DEF IInv
    <3> QED
      BY <3>1, <3>2
  <2>4. ASSUME o \in DOMAIN buf[q], orders[o].status = "ABSENT" PROVE orders'[o] = orders[o]
    <3>1. o \notin DOMAIN buf[p]
      BY <2>4 DEF IInv, NewAreUnique, Present
    <3> QED
      BY <3>1, WrittenRows DEF IInv
  <2> QED
    BY <2>1, <2>2, <2>3, <2>4
<1>2. ASSUME NEW d \in DroneID
      PROVE  /\ Locks(q, d) => drones'[d] = drones[d]
             /\ drones[d].status # "ABSENT" => drones'[d].status # "ABSENT"
  BY WrittenRows DEF IInv, WritesOwn
<1>3. ASSUME NEW j \in JobID
      PROVE  /\ Locks(q, j) => jobs'[j] = jobs[j]
             /\ j \in DOMAIN buf[q] /\ jobs[j].status = "ABSENT" => jobs'[j] = jobs[j]
  <2>1. Locks(q, j) => jobs'[j] = jobs[j]
    BY WrittenRows DEF IInv, WritesOwn
  <2>2. ASSUME j \in DOMAIN buf[q], jobs[j].status = "ABSENT" PROVE jobs'[j] = jobs[j]
    <3>1. j \notin DOMAIN buf[p]
      BY <2>2 DEF IInv, NewAreUnique, Present
    <3> QED
      BY <3>1, WrittenRows DEF IInv
  <2> QED
    BY <2>1, <2>2
<1>4. pc'[q] = pc[q] /\ req'[q] = req[q] /\ held'[q] = held[q] /\ buf'[q] = buf[q]
  BY DEF OthersStay
<1> QED
  BY <1>1, <1>2, <1>3, <1>4 DEF Steady

(* p writes, and owns and will write no more than before.                  *)
LEMMA Writing ==
  ASSUME IInv, NEW p \in Req, WritesOwn(p), Writes(p), OthersStay(p), Phase(p)',
         req'[p] \in Requests \cup {NoReq}, held'[p] \subseteq held[p],
         DOMAIN buf'[p] \subseteq DOMAIN buf[p]
  PROVE  IInv'
<1>1. TablesOK' /\ JobsHaveOrders' /\ \A x \in Rows : Present(x) => Present(x)'
  BY WriteTables
<1>2. RequestsOK'
  BY DEF IInv, OthersStay, RequestsOK
<1>3. Phases'
  <2>1. ASSUME NEW q \in Req \ {p} PROVE Phase(q)'
    BY WriteSteady, SteadyPhase DEF IInv, Phases
  <2> QED
    BY <2>1 DEF Phases
<1>4. \A q \in Req, x \in Rows : Locks(q, x)' => Locks(q, x)
  BY DEF OthersStay, Locks
<1>5. \A q \in Req : DOMAIN buf'[q] \subseteq DOMAIN buf[q]
  BY DEF OthersStay
<1>6. Exclusive' /\ LockedPresent'
  BY <1>1, <1>4 DEF IInv, Exclusive, LockedPresent
<1>7. NewAreUnique'
  BY <1>1, <1>5 DEF IInv, NewAreUnique, Rows
<1> QED
  BY <1>1, <1>2, <1>3, <1>6, <1>7 DEF IInv

(* What p owns, and what is not there yet, nobody else owns.               *)
LEMMA NobodyElse ==
  ASSUME IInv, NEW p \in Req, NEW q \in Req \ {p}, NEW x \in Rows, Locks(p, x) \/ ~Present(x)
  PROVE  ~Locks(q, x)
BY DEF IInv, Exclusive, LockedPresent

(* A row of an order that p owns is there.                                 *)
LEMMA OwnPresent ==
  ASSUME IInv, NEW p \in Req
  PROVE  /\ \A o \in OrderID : Locks(p, o) => orders[o].status # "ABSENT"
         /\ \A d \in DroneID : Locks(p, d) => drones[d].status # "ABSENT"
         /\ \A j \in JobID : Locks(p, j) => jobs[j].status # "ABSENT"
BY DEF IInv, LockedPresent, Present, Rows

(* WritesOwn, with ownership in terms of p alone.                          *)
Owned(p) ==
  /\ \A x \in DOMAIN buf[p] : x \in Rows /\ (Locks(p, x) \/ ~Present(x))
  /\ \A o \in OrderID : o \in DOMAIN buf[p] => buf[p][o] \in OrderRow /\ buf[p][o].status # "ABSENT"
  /\ \A d \in DroneID : d \in DOMAIN buf[p] => buf[p][d] \in DroneRow /\ buf[p][d].status # "ABSENT"
  /\ \A j \in JobID : j \in DOMAIN buf[p] =>
       LET o == buf[p][j].order IN
       /\ buf[p][j] \in JobRow /\ buf[p][j].status # "ABSENT" /\ o \in OrderID
       /\ jobs[j].status = "ABSENT" \/ jobs[j].order = o
       /\ Locks(p, o) \/ (orders[o].status = "ABSENT" /\ o \in DOMAIN buf[p])

LEMMA OwnedWritesOwn ==
  ASSUME IInv, NEW p \in Req, Owned(p)
  PROVE  WritesOwn(p)
<1>1. \A x \in DOMAIN buf[p] : x \in Rows /\ \A q \in Req \ {p} : ~Locks(q, x)
  BY NobodyElse DEF Owned
<1>2. ASSUME NEW j \in JobID, j \in DOMAIN buf[p]
      PROVE  LET o == buf[p][j].order IN
             /\ buf[p][j] \in JobRow /\ buf[p][j].status # "ABSENT" /\ o \in OrderID
             /\ jobs[j].status = "ABSENT" \/ jobs[j].order = o
             /\ orders[o].status # "ABSENT" \/ o \in DOMAIN buf[p]
             /\ \A q \in Req \ {p} : ~Locks(q, o)
  <2> DEFINE o == buf[p][j].order
  <2>1. /\ buf[p][j] \in JobRow /\ buf[p][j].status # "ABSENT" /\ o \in OrderID
        /\ jobs[j].status = "ABSENT" \/ jobs[j].order = o
        /\ Locks(p, o) \/ (orders[o].status = "ABSENT" /\ o \in DOMAIN buf[p])
    BY <1>2 DEF Owned
  <2>2. o \in Rows /\ (Locks(p, o) \/ ~Present(o))
    BY <2>1 DEF Rows, Present
  <2>3. \A q \in Req \ {p} : ~Locks(q, o)
    BY <2>2, NobodyElse
  <2>4. orders[o].status # "ABSENT" \/ o \in DOMAIN buf[p]
    BY <2>1, OwnPresent
  <2> QED
    BY <2>1, <2>3, <2>4
<1> QED
  BY <1>1, <1>2 DEF WritesOwn, Owned

LEMMA CommitOwned ==
  ASSUME IInv, NEW p \in Req, pc[p] = "commit"
  PROVE  Owned(p)
<1> USE DEF IInv
<1>0. Phase(p) /\ req[p].kind \in TxKinds
  BY KindOf DEF Phases
<1>1. CASE req[p].kind = "CREATE"
  <2>1. CreatePhase(p) /\ req[p].arg \in Route
    BY <1>0, <1>1, AskedFor DEF Phase
  <2>2. PICK o \in OrderID, j \in JobID :
          /\ DOMAIN buf[p] = {o, j}
          /\ orders[o].status = "ABSENT" /\ buf[p][o] = NewOrder(req[p].arg)
          /\ jobs[j].status = "ABSENT" /\ buf[p][j] = NewJob(o)
    BY <2>1 DEF CreatePhase
  <2>3. /\ buf[p][o] \in OrderRow /\ buf[p][o].status # "ABSENT"
        /\ buf[p][j] \in JobRow /\ buf[p][j].status # "ABSENT" /\ buf[p][j].order = o
    BY <2>1, <2>2, NewRows, JobMethods DEF TablesOK
  <2>4. ~Present(o) /\ ~Present(j)
    BY <2>2 DEF Present
  <2> QED
    BY <2>2, <2>3, <2>4, TxAssumption DEF Owned, Rows
<1>2. CASE req[p].kind = "CANCEL"
  <2> DEFINE o == req[p].order
             js == JobsToCancel(o)
  <2>1. CancelPhase(p) /\ o \in OrderID
    BY <1>0, <1>2, AskedFor DEF Phase
  <2>2. /\ Locks(p, o) /\ buf[p][o] = CancelOrder(orders[o])
        /\ DOMAIN buf[p] = {o} \cup js
        /\ \A j \in js : Locks(p, j) /\ buf[p][j] = CancelJob(jobs[j])
    BY <2>1 DEF CancelPhase, CancelledHere
  <2>3. buf[p][o] \in OrderRow /\ buf[p][o].status # "ABSENT"
    BY <2>1, <2>2, OrderMethods DEF TablesOK
  <2>4. \A j \in js : /\ j \in JobID /\ jobs[j].order = o /\ buf[p][j].order = o
                      /\ buf[p][j] \in JobRow /\ buf[p][j].status # "ABSENT"
    BY <2>2, JobMethods DEF TablesOK, JobsToCancel, CanCancelJob
  <2> HIDE DEF js
  <2> QED
    BY <2>1, <2>2, <2>3, <2>4, TxAssumption DEF Owned, Rows
<1>3. CASE req[p].kind = "RESERVE"
  <2> DEFINE j == req[p].job
             d == req[p].drone
             o == jobs[j].order
  <2>1. ReservePhase(p) /\ j \in JobID /\ d \in DroneID
    BY <1>0, <1>3, AskedFor DEF Phase
  <2>2. /\ Locks(p, j) /\ CanReserveJob(jobs[j]) /\ buf[p][j] = ReserveJob(jobs[j], d)
        /\ Locks(p, o) /\ buf[p][o] = Assign(orders[o], d)
        /\ Locks(p, d) /\ buf[p][d] = ReserveDrone(drones[d], o)
        /\ DOMAIN buf[p] = {j, o, d}
    BY <2>1 DEF ReservePhase
  <2>3. o \in OrderID
    BY <2>1, <2>2, JobMethods DEF TablesOK, JobsHaveOrders, JobRow
  <2>4. buf[p][j] \in JobRow /\ buf[p][j].status # "ABSENT" /\ buf[p][j].order = o
    BY <2>1, <2>2, JobMethods DEF TablesOK
  <2>5. buf[p][o] \in OrderRow /\ buf[p][o].status # "ABSENT"
    BY SMTT(30), <2>1, <2>2, <2>3, OrderMethods DEF TablesOK
  <2>6. buf[p][d] \in DroneRow /\ buf[p][d].status # "ABSENT"
    <3>1. drones[d] \in DroneRow
      BY <2>1 DEF TablesOK
    <3>2. ReserveDrone(drones[d], o) \in DroneRow /\ ReserveDrone(drones[d], o).status # "ABSENT"
      BY <2>3, <3>1, DroneMethods
    <3> QED
      BY <2>2, <3>2
  <2> QED
    BY <2>1, <2>2, <2>3, <2>4, <2>5, <2>6, TxAssumption DEF Owned, Rows
<1>4. CASE req[p].kind = "GRAB"
  <2> DEFINE o == req[p].order
             d == req[p].drone
  <2>1. GrabPhase(p) /\ o \in OrderID /\ d \in DroneID
    BY <1>0, <1>4, AskedFor DEF Phase
  <2>2. /\ Locks(p, o) /\ buf[p][o] = MarkPickedUp(orders[o])
        /\ Locks(p, d) /\ buf[p][d] = StartDelivery(drones[d])
        /\ DOMAIN buf[p] = {o, d}
    BY <2>1 DEF GrabPhase
  <2>3. /\ buf[p][o] \in OrderRow /\ buf[p][o].status # "ABSENT"
        /\ buf[p][d] \in DroneRow /\ buf[p][d].status # "ABSENT"
    BY <2>1, <2>2, OrderMethods, DroneMethods DEF TablesOK
  <2> QED
    BY <2>1, <2>2, <2>3, TxAssumption DEF Owned, Rows
<1>5. CASE req[p].kind = "COMPLETE"
  <2> DEFINE o == req[p].order
             d == req[p].drone
             js == JobsToComplete(o)
  <2>1. CompletePhase(p) /\ o \in OrderID /\ d \in DroneID /\ req[p].arg \in {"DELIVERED", "FAILED"}
    BY <1>0, <1>5, AskedFor DEF Phase
  <2>2. /\ Locks(p, o) /\ buf[p][o] = MarkFinished(orders[o], req[p].arg)
        /\ Locks(p, d) /\ buf[p][d] = GoIdle(drones[d])
        /\ DOMAIN buf[p] = {o, d} \cup js
        /\ \A j \in js : Locks(p, j) /\ buf[p][j] = CompleteJob(jobs[j])
    BY <2>1 DEF CompletePhase
  <2>3. /\ buf[p][o] \in OrderRow /\ buf[p][o].status # "ABSENT"
        /\ buf[p][d] \in DroneRow /\ buf[p][d].status # "ABSENT"
    BY <2>1, <2>2, OrderMethods, DroneMethods DEF TablesOK
  <2>4. \A j \in js : /\ j \in JobID /\ jobs[j].order = o /\ buf[p][j].order = o
                      /\ buf[p][j] \in JobRow /\ buf[p][j].status # "ABSENT"
    BY <2>2, JobMethods DEF TablesOK, JobsToComplete, IsJobOf
  <2> HIDE DEF js
  <2> QED
    BY <2>1, <2>2, <2>3, <2>4, TxAssumption DEF Owned, Rows
<1>6. CASE req[p].kind = "BROKEN"
  <2> DEFINE d == req[p].drone
             o == drones[d].order
             js == JobsToCancel(o)
  <2>1. BrokenPhase(p) /\ d \in DroneID
    BY <1>0, <1>6, AskedFor DEF Phase
  <2>2. Locks(p, d) /\ buf[p][d] = MarkBroken(drones[d])
    BY <2>1 DEF BrokenPhase
  <2>3. buf[p][d] \in DroneRow /\ buf[p][d].status # "ABSENT"
    BY <2>1, <2>2, DroneMethods DEF TablesOK
  <2>4. CASE o = Nil
    BY <2>1, <2>2, <2>3, <2>4, TxAssumption DEF BrokenPhase, Owned, Rows
  <2>5. CASE o # Nil
    <3>1. TakenFrom(p, d, o) /\ o \in OrderID
      BY <2>1, <2>5 DEF BrokenPhase, TablesOK, DroneRow
    <3>2. PICK new \in JobID : /\ DOMAIN buf[p] = {d, o, new} \cup js
                               /\ jobs[new].status = "ABSENT" /\ buf[p][new] = NewJob(o)
      BY <3>1 DEF TakenFrom
    <3>3. /\ Locks(p, o) /\ buf[p][o] = AwaitHandoff(orders[o])
          /\ \A j \in js : Locks(p, j) /\ buf[p][j] = CancelJob(jobs[j])
      BY <3>1 DEF TakenFrom, CancelledHere
    <3>4. /\ buf[p][o] \in OrderRow /\ buf[p][o].status # "ABSENT"
          /\ buf[p][new] \in JobRow /\ buf[p][new].status # "ABSENT" /\ buf[p][new].order = o
      BY SMTT(30), <3>1, <3>2, <3>3, OrderMethods, JobMethods DEF TablesOK
    <3>5. \A j \in js : /\ j \in JobID /\ jobs[j].order = o /\ buf[p][j].order = o
                        /\ buf[p][j] \in JobRow /\ buf[p][j].status # "ABSENT"
      BY <3>3, JobMethods DEF TablesOK, JobsToCancel, CanCancelJob
    <3>6. ~Present(new)
      BY <3>2 DEF Present
    <3> HIDE DEF js
    <3> QED
      BY ZenonT(60), <2>1, <2>2, <2>3, <3>1, <3>2, <3>3, <3>4, <3>5, <3>6, TxAssumption DEF Owned, Rows
  <2> QED
    BY <2>4, <2>5
<1> QED
  BY <1>0, <1>1, <1>2, <1>3, <1>4, <1>5, <1>6 DEF TxKinds

(* A row that is written back: locked by its own write. *)
LEMMA SaveOwned ==
  ASSUME IInv, NEW p \in Req, pc[p] = "save_link"
  PROVE  Owned(p)
<1>0. Phase(p) /\ req[p].kind \in UnlockedKinds
  BY KindOf DEF IInv, Phases
<1>1. CASE req[p].kind \in {"BEAT", "FIXED"}
  <2>1. /\ req[p].drone \in DroneID /\ DOMAIN buf[p] = {req[p].drone} /\ Locks(p, req[p].drone)
        /\ buf[p][req[p].drone] \in DroneRow /\ buf[p][req[p].drone].status # "ABSENT"
    BY <1>0, <1>1, AskedFor DEF IInv, Phase, BeatPhase, FixedPhase, WritingBack
  <2> QED
    BY <2>1, TxAssumption DEF Owned, Rows
<1>2. CASE req[p].kind = "ADMIN"
  <2>1. /\ req[p].order \in OrderID /\ DOMAIN buf[p] = {req[p].order} /\ Locks(p, req[p].order)
        /\ buf[p][req[p].order] \in OrderRow /\ buf[p][req[p].order].status # "ABSENT"
    BY <1>0, <1>2, AskedFor DEF IInv, Phase, AdminPhase, WritingBack
  <2> QED
    BY <2>1, TxAssumption DEF Owned, Rows
<1> QED
  BY <1>0, <1>1, <1>2 DEF UnlockedKinds

(* The row of the Upsert, which is a transaction of its own. *)
LEMMA InsertOwned ==
  ASSUME IInv, NEW p \in Req, pc[p] = "beat_insert", Granted(p)
  PROVE  WritesOwn(p)
<1>0. /\ req[p].kind = "BEAT" /\ req[p].drone \in DroneID /\ DOMAIN buf[p] = {req[p].drone}
      /\ buf[p][req[p].drone] \in DroneRow /\ buf[p][req[p].drone].status # "ABSENT"
  BY KindOf, AskedFor DEF IInv, Phases, Phase, BeatPhase
<1>1. <<req[p].drone, "NOKEY">> \in Wants(p)
  BY <1>0 DEF Wants, SaveLocks
<1>2. \A q \in Req \ {p} : ~Locks(q, req[p].drone)
  BY <1>1, GrantedAlone
<1> QED
  BY <1>0, <1>2, TxAssumption DEF WritesOwn, Rows

LEMMA CommitStep ==
  ASSUME IInv, NEW p \in Req, Commit(p)
  PROVE  IInv'
<1>1. /\ pc[p] \in {"commit", "save_link"} /\ Writes(p) /\ OthersStay(p)
      /\ pc'[p] = "idle" /\ req'[p] = NoReq /\ held'[p] = {} /\ buf'[p] = <<>>
  BY DEF Commit, Writes, OthersStay, IInv, RequestsOK
<1>2. WritesOwn(p)
  BY <1>1, CommitOwned, OwnedWritesOwn, SaveOwned
<1>3. Phase(p)'
  BY <1>1, NoReqFacts DEF Phase, Idle
<1> QED
  BY <1>1, <1>2, <1>3, NoRows, Writing

LEMMA BeatInsertWrites ==
  ASSUME IInv, NEW p \in Req, BeatInsert(p)
  PROVE  /\ pc[p] = "beat_insert" /\ Granted(p) /\ OthersStay(p) /\ WritesOwn(p) /\ Writes(p)
         /\ pc'[p] = "save" /\ req'[p] = req[p] /\ held'[p] = held[p] /\ buf'[p] = buf[p]
         /\ orders' = orders /\ jobs' = jobs
         /\ req[p].kind = "BEAT" /\ req[p].drone \in DroneID /\ BeatPhase(p) /\ held[p] = {}
<1>1. /\ pc[p] = "beat_insert" /\ Granted(p) /\ OthersStay(p)
      /\ pc'[p] = "save" /\ req'[p] = req[p] /\ held'[p] = held[p] /\ buf'[p] = buf[p]
      /\ drones' = Written(p, drones) /\ orders' = orders /\ jobs' = jobs
  BY DEF BeatInsert, OthersStay, IInv, RequestsOK
<1>2. WritesOwn(p)
  BY <1>1, InsertOwned
<1>3. req[p].kind = "BEAT" /\ req[p].drone \in DroneID /\ BeatPhase(p) /\ held[p] = {}
  BY <1>1, KindOf, AskedFor DEF IInv, Phases, Phase, BeatPhase, WritingBack
<1>4. Writes(p)
  <2>1. DOMAIN buf[p] = {req[p].drone}
    BY <1>1, <1>3 DEF BeatPhase
  <2>2. orders = Written(p, orders)
    BY <1>3, <2>1, TxAssumption DEF IInv, TablesOK, Written
  <2>3. jobs = Written(p, jobs)
    BY <1>3, <2>1, TxAssumption DEF IInv, TablesOK, Written
  <2> QED
    BY <1>1, <2>2, <2>3 DEF Writes
<1> QED
  BY <1>1, <1>2, <1>3, <1>4

LEMMA BeatInsertStep ==
  ASSUME IInv, NEW p \in Req, BeatInsert(p)
  PROVE  IInv'
<1> DEFINE d == req[p].drone
<1>1. /\ pc[p] = "beat_insert" /\ pc'[p] = "save" /\ req'[p] = req[p] /\ held'[p] = {}
      /\ buf'[p] = buf[p] /\ req[p].kind = "BEAT" /\ d \in DroneID /\ Writes(p)
      /\ DOMAIN buf[p] = {d} /\ buf[p][d] \in DroneRow /\ buf[p][d].status # "ABSENT"
  BY BeatInsertWrites DEF BeatPhase
<1>2. drones'[d].status # "ABSENT"
  BY <1>1, WrittenRows DEF IInv
<1>3. Phase(p)'
  BY <1>1, <1>2 DEF Phase, BeatPhase, WritingBack
<1>4. req'[p] \in Requests \cup {NoReq}
  BY <1>1 DEF IInv, RequestsOK
<1> QED
  BY BeatInsertWrites, <1>1, <1>3, <1>4, Writing

-----------------------------------------------------------------------------
(* The inductive invariant.                                                *)

LEMMA Initially == Init => IInv
<1> SUFFICES ASSUME Init PROVE IInv
  OBVIOUS
<1>1. TablesOK
  BY DEF Init, TablesOK, OrderRow, NoOrder, DroneRow, DroneStatus, NoDrone, NewDrone, JobRow, NoJob
<1>2. JobsHaveOrders
  BY DEF Init, JobsHaveOrders, NoJob
<1>3. RequestsOK
  BY DEF Init, RequestsOK
<1>4. Phases
  BY NoReqFacts DEF Init, Phases, Phase, Idle
<1>5. Exclusive /\ LockedPresent
  BY DEF Init, Exclusive, LockedPresent, Locks
<1>6. NewAreUnique
  BY NoRows DEF Init, NewAreUnique
<1> QED
  BY <1>1, <1>2, <1>3, <1>4, <1>5, <1>6 DEF IInv

(* The step of a request, by its statement.                                *)
LEMMA StepKeeps ==
  ASSUME IInv, NEW p \in Req, Start(p) \/ Step(p) \/ Abort(p) \/ DeadlockVictim(p)
  PROVE  IInv'
BY StartStep, RollbackKeeps, CreateStep, CancelOrderStep, CancelJobsStep, ReserveJobStep,
   ReserveLinkStep, ReserveOrderStep, ReserveDroneStep, GrabOrderStep, GrabDroneStep,
   CompleteOrderStep, CompleteDroneStep, CompleteJobStep, BrokenDroneStep, BrokenOrderStep,
   BrokenJobsStep, BeatReadStep, BeatInsertStep, FixedReadStep, AdminReadStep, SaveStep, CommitStep
   DEF Step, OutOfIdentifiers, Abort, DeadlockVictim

LEMMA StutterKeeps ==
  ASSUME IInv, UNCHANGED vars
  PROVE  IInv'
<1>1. TablesOK' /\ JobsHaveOrders' /\ RequestsOK'
  BY DEF IInv, vars, TablesOK, JobsHaveOrders, RequestsOK
<1>2. Phases'
  <2>1. ASSUME NEW p \in Req PROVE Phase(p)'
    <3>1. Steady(p)
      BY DEF vars, Steady
    <3> QED
      BY <3>1, SteadyPhase DEF IInv, Phases
  <2> QED
    BY <2>1 DEF Phases
<1>3. Exclusive' /\ LockedPresent' /\ NewAreUnique'
  BY DEF IInv, vars, Exclusive, LockedPresent, NewAreUnique, Locks, Present
<1> QED
  BY <1>1, <1>2, <1>3 DEF IInv

(* However requests interleave and are interrupted, whatever is stale: each *)
(* is in a phase of its kind, rows have one owner, and the rows that are    *)
(* owned or named by jobs are there.                                        *)
THEOREM AlwaysIInv == Spec => []IInv
<1>1. IInv /\ [Next]_vars => IInv'
  BY StepKeeps, StutterKeeps DEF Next
<1> QED
  BY Initially, <1>1, PTL DEF Spec

(* Only rows of the three tables are on their way. *)
LEMMA BufferedRows ==
  ASSUME IInv, NEW p \in Req
  PROVE  DOMAIN buf[p] \subseteq Rows
<1>0. Phase(p) /\ req[p].kind \in AllKinds \cup {"NONE"}
  BY AskedFor DEF IInv, Phases
<1>1. CASE pc[p] = "commit"
  BY <1>1, CommitOwned DEF Owned
<1>2. CASE req[p].kind \in {"NONE", "CREATE", "CANCEL", "GRAB", "COMPLETE"} /\ pc[p] # "commit"
  <2>1. req[p].kind # "NONE" /\ req[p].kind # "CREATE" => req[p].order \in OrderID
    BY <1>2, AskedFor DEF IInv
  <2>2. req[p].kind = "COMPLETE" => req[p].drone \in DroneID
    BY AskedFor DEF IInv
  <2> QED
    BY <1>0, <1>2, <2>1, <2>2, NoRows DEF Phase, Idle, CreatePhase, CancelPhase, GrabPhase, CompletePhase, Rows
<1>3. CASE req[p].kind = "RESERVE" /\ pc[p] # "commit"
  <2> DEFINE o == jobs[req[p].job].order
  <2>1. ReservePhase(p) /\ req[p].job \in JobID
    BY <1>0, <1>3, AskedFor DEF IInv, Phase
  <2>2. CASE DOMAIN buf[p] \subseteq {req[p].job}
    BY <2>1, <2>2 DEF Rows
  <2>3. CASE DOMAIN buf[p] = {req[p].job, o} /\ CanReserveJob(jobs[req[p].job])
    <3>1. o \in OrderID
      BY <2>1, <2>3, JobMethods DEF IInv, TablesOK, JobsHaveOrders, JobRow
    <3> QED
      BY <2>1, <2>3, <3>1 DEF Rows
  <2> QED
    BY <1>3, <2>1, <2>2, <2>3 DEF ReservePhase
<1>4. CASE req[p].kind = "BROKEN" /\ pc[p] # "commit"
  <2> DEFINE o == drones[req[p].drone].order
  <2>1. BrokenPhase(p) /\ req[p].drone \in DroneID
    BY <1>0, <1>4, AskedFor DEF IInv, Phase
  <2>2. o \in OrderID \cup {Nil}
    BY <2>1 DEF IInv, TablesOK, DroneRow
  <2> QED
    BY <1>4, <2>1, <2>2 DEF BrokenPhase, TakenFrom, Rows
<1>5. CASE req[p].kind \in UnlockedKinds
  <2>1. /\ req[p].kind = "ADMIN" => req[p].order \in OrderID
        /\ req[p].kind # "ADMIN" => req[p].drone \in DroneID
    BY <1>5, AskedFor DEF IInv, UnlockedKinds
  <2> QED
    BY <1>0, <1>5, <2>1 DEF Phase, BeatPhase, FixedPhase, AdminPhase, Rows, UnlockedKinds
<1> QED
  BY <1>0, <1>1, <1>2, <1>3, <1>4, <1>5 DEF AllKinds, TxKinds

(* The tables, the requests in service and the locks and rows of their     *)
(* transactions are well formed, and a request that is not in service has  *)
(* left neither.                                                           *)
THEOREM TypeCorrect == Spec => []TypeOK
<1>1. IInv => TypeOK
  <2> SUFFICES ASSUME IInv, NEW p \in Req
               PROVE  /\ req[p] \in Requests \cup {NoReq}
                      /\ pc[p] = "idle" <=> req[p] = NoReq
                      /\ held[p] \subseteq Rows \X Modes
                      /\ DOMAIN buf[p] \subseteq Rows
                      /\ pc[p] = "idle" => held[p] = {} /\ buf[p] = <<>>
    BY DEF IInv, TypeOK, TablesOK, Rows, Modes
  <2>1. req[p] \in Requests \cup {NoReq} /\ held[p] \subseteq Rows \X Modes
    BY DEF IInv, RequestsOK
  <2>2. pc[p] = "idle" <=> req[p] = NoReq
    BY KindOf, AskedFor DEF IInv, Phases
  <2>3. pc[p] = "idle" => held[p] = {} /\ buf[p] = <<>>
    BY KindOf DEF IInv, Phases, Phase, Idle
  <2>4. DOMAIN buf[p] \subseteq Rows
    BY BufferedRows
  <2> QED
    BY <2>1, <2>2, <2>3, <2>4
<1> QED
  BY AlwaysIInv, <1>1, PTL

-----------------------------------------------------------------------------
(* The jobs.                                                               *)

Live(i) == jobs[i].status \notin {"ABSENT", "CANCELLED"}

(* A commit closes or moves on an open job, or inserts one for an order    *)
(* that has, from then on, no other live job.                              *)
JobWritten(p, j) ==
  \/ jobs[j].status \in {"OPEN", "RESERVED"} /\ buf[p][j].order = jobs[j].order
  \/ /\ jobs[j].status = "ABSENT"
     /\ \A i \in JobID \ {j} :
          \/ i \in DOMAIN buf[p] /\ buf[p][i].status = "CANCELLED"
          \/ i \notin DOMAIN buf[p] /\ (~Live(i) \/ jobs[i].order # buf[p][j].order)

(* Every write of a job is of that kind. *)
LEMMA JobsWritten ==
  ASSUME IInv, OneLiveJob, NEW p \in Req, pc[p] \in {"commit", "save_link", "beat_insert"},
         NEW j \in JobID, j \in DOMAIN buf[p]
  PROVE  JobWritten(p, j)
<1> USE DEF IInv
<1>0. Phase(p)
  BY DEF Phases
<1>1. CASE req[p].kind = "CREATE"
  <2>1. PICK o \in OrderID, n \in JobID :
          /\ DOMAIN buf[p] = {o, n}
          /\ orders[o].status = "ABSENT" /\ jobs[n].status = "ABSENT" /\ buf[p][n] = NewJob(o)
    BY <1>0, <1>1 DEF Phase, CreatePhase
  <2>2. n = j /\ buf[p][j].order = o
    BY <2>1, TxAssumption DEF NewJob
  <2>3. \A i \in JobID : jobs[i].order # o
    BY <2>1, NilAssumption DEF JobsHaveOrders
  <2> QED
    BY <2>1, <2>2, <2>3, TxAssumption DEF JobWritten
<1>2. CASE req[p].kind = "CANCEL"
  <2> DEFINE o == req[p].order
  <2>1. CancelPhase(p) /\ o \in OrderID
    BY <1>0, <1>2, AskedFor DEF Phase
  <2>2. /\ DOMAIN buf[p] = {o} \cup JobsToCancel(o)
        /\ \A i \in JobsToCancel(o) : buf[p][i] = CancelJob(jobs[i])
    BY <2>1 DEF CancelPhase, CancelledHere
  <2>3. j \in JobsToCancel(o)
    BY <2>1, <2>2, TxAssumption
  <2>4. jobs[j].status \notin {"ABSENT", "COMPLETED", "CANCELLED"}
    BY <2>1, <2>3, NilAssumption DEF JobsToCancel, CanCancelJob, JobsHaveOrders
  <2>5. jobs[j].status \in {"OPEN", "RESERVED"}
    BY <2>4 DEF TablesOK, JobRow, JobStatus
  <2> QED
    BY <2>2, <2>3, <2>5, JobMethods DEF JobWritten, TablesOK
<1>3. CASE req[p].kind = "RESERVE"
  <2>1. ReservePhase(p) /\ req[p].job \in JobID /\ req[p].drone \in DroneID
    BY <1>0, <1>3, AskedFor DEF Phase
  <2>2. /\ CanReserveJob(jobs[req[p].job])
        /\ buf[p][req[p].job] = ReserveJob(jobs[req[p].job], req[p].drone)
        /\ DOMAIN buf[p] = {req[p].job, jobs[req[p].job].order, req[p].drone}
    BY <2>1 DEF ReservePhase
  <2>3. jobs[req[p].job].order \in OrderID
    BY <2>1, <2>2, JobMethods DEF TablesOK, JobsHaveOrders, JobRow
  <2>4. j = req[p].job
    BY <2>1, <2>2, <2>3, TxAssumption
  <2>5. jobs[j].status = "OPEN" /\ jobs[j] \in JobRow
    BY <2>1, <2>2, <2>4 DEF CanReserveJob, TablesOK
  <2>6. buf[p][j].order = jobs[j].order
    BY <2>1, <2>2, <2>4, <2>5, JobMethods
  <2> QED
    BY <2>5, <2>6 DEF JobWritten
<1>4. CASE req[p].kind = "GRAB"
  <2>1. req[p].order \in OrderID /\ req[p].drone \in DroneID
    BY <1>4, AskedFor
  <2> QED
    BY <1>0, <1>4, <2>1, TxAssumption DEF Phase, GrabPhase
<1>5. CASE req[p].kind = "COMPLETE"
  <2> DEFINE o == req[p].order
  <2>1. CompletePhase(p) /\ o \in OrderID /\ req[p].drone \in DroneID
    BY <1>0, <1>5, AskedFor DEF Phase
  <2>2. /\ DOMAIN buf[p] = {o, req[p].drone} \cup JobsToComplete(o)
        /\ \A i \in JobsToComplete(o) : buf[p][i] = CompleteJob(jobs[i])
    BY <2>1 DEF CompletePhase
  <2>3. j \in JobsToComplete(o)
    BY <2>1, <2>2, TxAssumption
  <2> QED
    BY <2>2, <2>3, JobMethods DEF JobWritten, JobsToComplete, CanCompleteJob, TablesOK
<1>6. CASE req[p].kind = "BROKEN"
  <2> DEFINE d  == req[p].drone
             o  == drones[d].order
             js == JobsToCancel(o)
  <2>1. BrokenPhase(p) /\ d \in DroneID
    BY <1>0, <1>6, AskedFor DEF Phase
  <2>2. o # Nil /\ TakenFrom(p, d, o) /\ o \in OrderID
    BY <2>1, TxAssumption DEF BrokenPhase, TablesOK, DroneRow
  <2>3. PICK new \in JobID : /\ DOMAIN buf[p] = {d, o, new} \cup js
                             /\ jobs[new].status = "ABSENT" /\ buf[p][new] = NewJob(o)
    BY <2>2 DEF TakenFrom
  <2>4. js # {} /\ \A i \in js : buf[p][i] = CancelJob(jobs[i])
    BY <2>2 DEF TakenFrom, CancelledHere
  <2>5. \A i \in js : i \in JobID /\ jobs[i].order = o
                      /\ jobs[i].status \notin {"ABSENT", "COMPLETED", "CANCELLED"}
    BY <2>2, NilAssumption DEF JobsToCancel, CanCancelJob, JobsHaveOrders
  <2>6. CASE j \in js
    <3>1. jobs[j].status \in {"OPEN", "RESERVED"}
      BY <2>5, <2>6 DEF TablesOK, JobRow, JobStatus
    <3> QED
      BY <2>4, <2>6, <3>1, JobMethods DEF JobWritten, TablesOK
  <2>7. CASE j \notin js
    <3>1. j = new /\ buf[p][j].order = o
      BY <2>1, <2>2, <2>3, <2>7, TxAssumption DEF NewJob
    <3>2. ASSUME NEW i \in JobID \ {j}, i \notin js, jobs[i].order = o
          PROVE  ~Live(i)
      <4>1. jobs[i].status \in {"COMPLETED", "CANCELLED"}
        BY <3>2 DEF JobsToCancel, CanCancelJob
      <4>2. PICK k \in js : TRUE
        BY <2>4
      <4>3. k \in JobID /\ k # i /\ Live(k) /\ jobs[k].order = jobs[i].order
        BY <2>5, <3>2, <4>2 DEF Live
      <4> QED
        BY <4>1, <4>3 DEF OneLiveJob, Atomic!OneLiveJob, Live
    <3>3. \A i \in js : buf[p][i].status = "CANCELLED"
      BY <2>4, <2>5 DEF CancelJob, TablesOK, JobRow
    <3>4. \A i \in JobID \ {j} : i \in DOMAIN buf[p] => i \in js
      BY <2>1, <2>2, <2>3, <3>1, TxAssumption
    <3> HIDE DEF js
    <3> QED
      BY <2>3, <3>1, <3>2, <3>3, <3>4 DEF JobWritten
  <2> QED
    BY <2>6, <2>7
<1>7. CASE req[p].kind \notin TxKinds
  <2>1. req[p].kind \in UnlockedKinds \cup {"NONE"}
    BY <1>7, AskedFor DEF AllKinds
  <2>2. /\ req[p].kind = "ADMIN" => req[p].order \in OrderID
        /\ req[p].kind \in {"BEAT", "FIXED"} => req[p].drone \in DroneID
    BY AskedFor
  <2> QED
    BY <1>0, <2>1, <2>2, TxAssumption
       DEF Phase, Idle, BeatPhase, FixedPhase, AdminPhase, UnlockedKinds
<1> QED
  BY <1>1, <1>2, <1>3, <1>4, <1>5, <1>6, <1>7 DEF TxKinds

(* Only Commit changes jobs.                                               *)
LEMMA WhoWritesJobs ==
  ASSUME IInv, [Next]_vars
  PROVE  jobs' = jobs \/ \E p \in Req : Writes(p) /\ pc[p] \in {"commit", "save_link"}
<1>1. ASSUME NEW p \in Req, Start(p) \/ Step(p) \/ Abort(p) \/ DeadlockVictim(p)
      PROVE  jobs' = jobs \/ Commit(p)
  BY <1>1 DEF Start, Step, Abort, DeadlockVictim, Rollback, Statement, Read, CreateOrderAndJob,
       OutOfIdentifiers, CancelOrder1, CancelJobs2, ReserveJob1, ReserveLink2, ReserveOrder3,
       ReserveDrone4, GrabOrder1, GrabDrone2, CompleteOrder1, CompleteDrone2, CompleteJob3,
       BrokenDrone1, BrokenOrder2, BrokenJobs3, BeatRead, BeatInsert, FixedRead, AdminRead, Save, tables
<1> QED
  BY <1>1 DEF Next, vars, Commit, Writes

(* No order is ever on offer twice or delivered by two drones, whatever    *)
(* stale rows the handlers without a transaction write back.               *)
THEOREM NoOrderOfferedTwice == Spec => []OneLiveJob
<1>1. Init => OneLiveJob
  BY DEF Init, OneLiveJob, Atomic!OneLiveJob, NoJob
<1>2. ASSUME IInv, OneLiveJob, [Next]_vars PROVE OneLiveJob'
  <2>1. CASE jobs' = jobs
    BY <1>2, <2>1 DEF OneLiveJob, Atomic!OneLiveJob
  <2>2. ASSUME NEW p \in Req, Writes(p), pc[p] \in {"commit", "save_link"}
        PROVE  OneLiveJob'
    <3>1. \A j \in JobID : jobs'[j] = IF j \in DOMAIN buf[p] THEN buf[p][j] ELSE jobs[j]
      BY <1>2, <2>2, WrittenRows DEF IInv
    <3>2. \A j \in JobID : j \in DOMAIN buf[p] => JobWritten(p, j)
      BY <1>2, <2>2, JobsWritten
    <3> SUFFICES ASSUME NEW i \in JobID, NEW j \in JobID, i # j, Live(i)', Live(j)',
                        jobs'[i].order = jobs'[j].order
                 PROVE  FALSE
      BY DEF OneLiveJob, Atomic!OneLiveJob, Live
    <3>3. ASSUME NEW k \in JobID, Live(k)', jobs[k].status # "ABSENT"
          PROVE  Live(k) /\ jobs'[k].order = jobs[k].order
      BY <3>1, <3>2, <3>3 DEF JobWritten, Live
    <3>4. ASSUME NEW k \in JobID, Live(k)', jobs[k].status = "ABSENT", NEW l \in JobID \ {k}, Live(l)'
          PROVE  jobs'[l].order # jobs'[k].order
      BY <3>1, <3>2, <3>4 DEF JobWritten, Live
    <3>5. jobs[i].status # "ABSENT" /\ jobs[j].status # "ABSENT"
      BY <3>4
    <3>6. Live(i) /\ Live(j) /\ jobs[i].order = jobs[j].order
      BY <3>3, <3>5
    <3> QED
      BY <1>2, <3>6 DEF OneLiveJob, Atomic!OneLiveJob, Live
  <2> QED
    BY <1>2, <2>1, <2>2, WhoWritesJobs
<1> QED
  BY AlwaysIInv, <1>1, <1>2, PTL DEF Spec

(* A job that is completed or cancelled stays so: an order that a stale    *)
(* write revives cannot be delivered a second time.                        *)
THEOREM ClosedStayClosed == Spec => ClosedJobsFinal
<1>1. ASSUME IInv, OneLiveJob, [Next]_vars, NEW j \in JobID,
             jobs[j].status \in {"COMPLETED", "CANCELLED"}
      PROVE  jobs'[j] = jobs[j]
  <2>1. ASSUME NEW p \in Req, Writes(p), pc[p] \in {"commit", "save_link"}
        PROVE  jobs'[j] = jobs[j]
    <3>1. jobs'[j] = IF j \in DOMAIN buf[p] THEN buf[p][j] ELSE jobs[j]
      BY <1>1, <2>1, WrittenRows DEF IInv
    <3>2. j \in DOMAIN buf[p] => JobWritten(p, j)
      BY <1>1, <2>1, JobsWritten
    <3> QED
      BY <1>1, <3>1, <3>2 DEF JobWritten
  <2> QED
    BY <1>1, <2>1, WhoWritesJobs
<1>2. IInv /\ OneLiveJob /\ [Next]_vars =>
        [\A j \in JobID : jobs[j].status \in {"COMPLETED", "CANCELLED"} => jobs'[j] = jobs[j]]_vars
  BY <1>1
<1> QED
  BY AlwaysIInv, NoOrderOfferedTwice, <1>2, PTL DEF Spec, ClosedJobsFinal

-----------------------------------------------------------------------------
(* The order in which rows are locked.                                     *)

LEMMA RowStages ==
  /\ \A o \in OrderID : RowStage(o) = 1
  /\ \A d \in DroneID : RowStage(d) = 2
  /\ \A j \in JobID : RowStage(j) = 3
  /\ \A x \in Rows : RowStage(x) \in {1, 2, 3}
BY TxAssumption DEF RowStage, Rows

LEMMA Stages == \A p : Stage(p) \in 0 .. 4
BY DEF Stage

(* A request that takes rows in order: it neither reserves nor breaks, and *)
(* is no heartbeat that has its drone and writes another order back.       *)
InTurn(p) ==
  /\ req[p].kind \notin {"RESERVE", "BROKEN"}
  /\ req[p].kind = "BEAT" /\ pc[p] = "save_link" => Wants(p) = {}

(* What such a request waits for. *)
LEMMA WantStage ==
  ASSUME IInv, NEW p \in Req, InTurn(p), NEW w \in Wants(p)
  PROVE  /\ w[1] \in Rows
         /\ \/ Stage(p) = RowStage(w[1])
            \/ req[p].kind \in UnlockedKinds /\ Stage(p) = 0
<1>0. Phase(p) /\ req[p].kind \in AllKinds \cup {"NONE"}
  BY AskedFor DEF IInv, Phases
<1>1. CASE req[p].kind = "CANCEL"
  <2> DEFINE o == req[p].order
  <2>1. o \in OrderID /\ pc[p] \in {"cancel_order", "cancel_jobs", "commit"}
    BY <1>0, <1>1, AskedFor DEF IInv, Phase, CancelPhase
  <2>2. pc[p] # "commit" /\ w \in CancelLocks(p)
    BY <1>1, <2>1 DEF Wants
  <2>3. CASE pc[p] = "cancel_order"
    BY <2>1, <2>2, <2>3, RowStages DEF CancelLocks, Stage, Rows
  <2>4. CASE pc[p] = "cancel_jobs"
    BY <2>1, <2>2, <2>4, RowStages DEF CancelLocks, JobsToCancel, Stage, Rows
  <2> QED
    BY <2>1, <2>2, <2>3, <2>4
<1>2. CASE req[p].kind = "GRAB"
  <2>1. /\ req[p].order \in OrderID /\ req[p].drone \in DroneID
        /\ pc[p] \in {"grab_order", "grab_drone", "commit"}
    BY <1>0, <1>2, AskedFor DEF IInv, Phase, GrabPhase
  <2>2. pc[p] # "commit" /\ w \in GrabLocks(p)
    BY <1>2, <2>1 DEF Wants
  <2> QED
    BY <2>1, <2>2, RowStages DEF GrabLocks, OrderForUpdate, DroneForUpdate, Stage, Rows
<1>3. CASE req[p].kind = "COMPLETE"
  <2>1. /\ req[p].order \in OrderID /\ req[p].drone \in DroneID
        /\ pc[p] \in {"complete_order", "complete_drone", "complete_job", "commit"}
    BY <1>0, <1>3, AskedFor DEF IInv, Phase, CompletePhase
  <2>2. pc[p] # "commit" /\ w \in CompleteLocks(p)
    BY <1>3, <2>1 DEF Wants
  <2>3. CASE pc[p] \in {"complete_order", "complete_drone"}
    BY <2>1, <2>2, <2>3, RowStages DEF CompleteLocks, OrderForUpdate, DroneForUpdate, Stage, Rows
  <2>4. CASE pc[p] = "complete_job"
    BY <2>1, <2>2, <2>4, RowStages DEF CompleteLocks, JobOfOrderForUpdate, Stage, Rows
  <2> QED
    BY <2>1, <2>2, <2>3, <2>4
<1>4. CASE req[p].kind \in UnlockedKinds
  <2>1. pc[p] \in {"beat_read", "fixed_read", "admin_read", "beat_insert", "save", "save_link"}
    BY <1>0, <1>4 DEF Phase, BeatPhase, FixedPhase, AdminPhase, WritingBack, UnlockedKinds
  <2>2. pc[p] # "save_link"
    <3> SUFFICES ASSUME pc[p] = "save_link" PROVE FALSE
      OBVIOUS
    <3>1. w \in SaveLinkLocks(p) /\ req[p].kind # "BEAT"
      BY <1>4 DEF Wants, UnlockedKinds, InTurn
    <3>2. CASE req[p].kind = "FIXED"
      <4>1. DOMAIN buf[p] = {req[p].drone} /\ buf[p][req[p].drone].order = Nil
        BY <1>0, <3>2 DEF Phase, FixedPhase
      <4> QED
        BY <3>1, <4>1 DEF SaveLinkLocks
    <3>3. CASE req[p].kind = "ADMIN"
      <4>1. DOMAIN buf[p] = {req[p].order} /\ req[p].order \notin DroneID
        BY <1>0, <3>3, AskedFor, TxAssumption DEF IInv, Phase, AdminPhase
      <4> QED
        BY <3>1, <4>1 DEF SaveLinkLocks
    <3> QED
      BY <1>4, <3>1, <3>2, <3>3 DEF UnlockedKinds
  <2>3. w \in SaveLocks(p) /\ pc[p] \in {"beat_insert", "save"}
    BY <1>4, <2>1, <2>2 DEF Wants, UnlockedKinds
  <2>4. w[1] \in Rows
    BY <2>3, BufferedRows DEF SaveLocks
  <2> QED
    BY <1>4, <2>3, <2>4 DEF Stage
<1>5. CASE req[p].kind \in {"CREATE", "NONE"}
  <2>1. pc[p] \in {"create", "commit", "idle"}
    BY <1>0, <1>5 DEF Phase, CreatePhase, Idle
  <2> QED
    BY <1>5, <2>1 DEF Wants
<1> QED
  BY <1>0, <1>1, <1>2, <1>3, <1>4, <1>5 DEF AllKinds, TxKinds, InTurn

(* It waits for requests that are further on. *)
LEMMA WaitsRaise ==
  ASSUME IInv, InOrder, NEW p \in Req, NEW q \in Req, WaitsFor(p, q),
         InTurn(p), InTurn(q)
  PROVE  Stage(p) < Stage(q)
<1>1. PICK w \in Wants(p), h \in held[q] : w[1] = h[1]
  BY DEF WaitsFor
<1>2. w[1] \in Rows /\ Stage(p) <= RowStage(w[1])
  BY WantStage, RowStages, Stages
<1>3. h \in Rows \X Modes
  BY <1>1 DEF IInv, RequestsOK
<1>4. RowStage(h[1]) < Stage(q)
  BY <1>3 DEF InOrder, InTurn
<1> QED
  BY <1>1, <1>2, <1>4, RowStages, Stages

(* Only p's own variables change in a step of p.                           *)
LEMMA StepOfOne ==
  ASSUME IInv, NEW p \in Req, Start(p) \/ Step(p) \/ Abort(p) \/ DeadlockVictim(p)
  PROVE  OthersStay(p)
BY DEF IInv, RequestsOK, OthersStay, Start, Step, Abort, DeadlockVictim, Rollback, Statement, Read,
     CreateOrderAndJob, OutOfIdentifiers, CancelOrder1, CancelJobs2, ReserveJob1, ReserveLink2,
     ReserveOrder3, ReserveDrone4, GrabOrder1, GrabDrone2, CompleteOrder1, CompleteDrone2, CompleteJob3,
     BrokenDrone1, BrokenOrder2, BrokenJobs3, BeatRead, BeatInsert, FixedRead, AdminRead, Save,
     Commit

(* How the locks of p grow.                                                *)
LEMMA HeldStep ==
  ASSUME IInv, NEW p \in Req, Start(p) \/ Step(p) \/ Abort(p) \/ DeadlockVictim(p)
  PROVE  \/ held'[p] = {}
         \/ /\ req[p].kind \in {"RESERVE", "BROKEN"} /\ req'[p] = req[p]
         \/ /\ held'[p] = held[p] \cup Wants(p) /\ req'[p] = req[p]
            /\ <<pc[p], pc'[p]>> \in
                 {<<"create", "commit">>, <<"cancel_order", "cancel_jobs">>, <<"cancel_jobs", "commit">>,
                  <<"grab_order", "grab_drone">>, <<"grab_drone", "commit">>,
                  <<"complete_order", "complete_drone">>, <<"complete_drone", "complete_job">>,
                  <<"complete_job", "commit">>, <<"save", "save_link">>}
<1> USE DEF IInv
<1>0. Phase(p) /\ p \in DOMAIN req /\ p \in DOMAIN held /\ p \in DOMAIN pc
  BY DEF Phases, RequestsOK
<1>1. ASSUME Rollback(p) PROVE held'[p] = {}
  BY <1>0, <1>1 DEF Rollback
<1>2. ASSUME Start(p) PROVE held'[p] = {}
  BY <1>0, <1>2, KindOf DEF Start, Phase, Idle
<1>3. ASSUME Commit(p) PROVE held'[p] = {}
  BY <1>0, <1>3 DEF Commit
<1>4. ASSUME BeatRead(p) \/ BeatInsert(p) \/ FixedRead(p) \/ AdminRead(p), ~Rollback(p)
      PROVE  held'[p] = {}
  BY <1>0, <1>4, KindOf
     DEF BeatRead, BeatInsert, FixedRead, AdminRead, Read, Phase, BeatPhase, FixedPhase, AdminPhase,
         WritingBack
<1>5. ASSUME ReserveJob1(p) \/ ReserveLink2(p) \/ ReserveOrder3(p) \/ ReserveDrone4(p)
               \/ BrokenDrone1(p) \/ BrokenOrder2(p) \/ BrokenJobs3(p), ~Rollback(p)
      PROVE  req[p].kind \in {"RESERVE", "BROKEN"} /\ req'[p] = req[p]
  BY <1>0, <1>5, KindOf DEF ReserveJob1, ReserveLink2, ReserveOrder3, ReserveDrone4, BrokenDrone1,
       BrokenOrder2, BrokenJobs3, Statement
<1>6. ASSUME CreateOrderAndJob(p) \/ CancelOrder1(p) \/ CancelJobs2(p) \/ GrabOrder1(p)
               \/ GrabDrone2(p) \/ CompleteOrder1(p) \/ CompleteDrone2(p) \/ CompleteJob3(p)
               \/ Save(p), ~Rollback(p)
      PROVE  /\ held'[p] = held[p] \cup Wants(p) /\ req'[p] = req[p]
             /\ <<pc[p], pc'[p]>> \in
                  {<<"create", "commit">>, <<"cancel_order", "cancel_jobs">>, <<"cancel_jobs", "commit">>,
                   <<"grab_order", "grab_drone">>, <<"grab_drone", "commit">>,
                   <<"complete_order", "complete_drone">>, <<"complete_drone", "complete_job">>,
                   <<"complete_job", "commit">>, <<"save", "save_link">>}
  BY <1>0, <1>6 DEF CreateOrderAndJob, CancelOrder1, CancelJobs2, GrabOrder1, GrabDrone2, CompleteOrder1,
       CompleteDrone2, CompleteJob3, Save, Statement
<1>7. OutOfIdentifiers(p) \/ Abort(p) \/ DeadlockVictim(p) => Rollback(p)
  BY DEF OutOfIdentifiers, Abort, DeadlockVictim
<1> QED
  BY <1>1, <1>2, <1>3, <1>4, <1>5, <1>6, <1>7 DEF Step

LEMMA InOrderStep ==
  ASSUME IInv, InOrder, NEW p \in Req, Start(p) \/ Step(p) \/ Abort(p) \/ DeadlockVictim(p)
  PROVE  InOrder'
<1> SUFFICES ASSUME NEW q \in Req, req'[q].kind \notin {"RESERVE", "BROKEN"},
                    NEW x \in Rows, NEW m \in Modes, <<x, m>> \in held'[q]
             PROVE  RowStage(x) < Stage(q)'
  BY DEF InOrder
<1>1. CASE q # p
  <2>1. pc'[q] = pc[q] /\ req'[q] = req[q] /\ held'[q] = held[q]
    BY <1>1, StepOfOne DEF OthersStay
  <2> QED
    BY <2>1 DEF InOrder, Stage
<1>2. CASE q = p
  <2>1. /\ held'[p] = held[p] \cup Wants(p) /\ req'[p] = req[p]
        /\ <<pc[p], pc'[p]>> \in
             {<<"create", "commit">>, <<"cancel_order", "cancel_jobs">>, <<"cancel_jobs", "commit">>,
              <<"grab_order", "grab_drone">>, <<"grab_drone", "commit">>,
              <<"complete_order", "complete_drone">>, <<"complete_drone", "complete_job">>,
              <<"complete_job", "commit">>, <<"save", "save_link">>}
    BY <1>2, HeldStep
  <2>2. CASE pc[p] = "save"
    <3>1. Stage(p)' = 4
      BY <2>1, <2>2 DEF Stage
    <3> QED
      BY <1>2, <3>1, RowStages
  <2>3. CASE pc[p] # "save"
    <3>1. Stage(p) < Stage(p)' /\ Stage(p)' \in 0 .. 4
      BY <2>1, <2>3 DEF Stage
    <3>2. req[p].kind \notin UnlockedKinds /\ InTurn(p)
      BY <1>2, <2>1, <2>3, KindOf DEF IInv, Phases, UnlockedKinds, TxKinds, InTurn
    <3>3. CASE <<x, m>> \in held[p]
      <4>1. RowStage(x) < Stage(p)
        BY <3>2, <3>3 DEF InOrder, InTurn
      <4> QED
        BY <1>2, <3>1, <4>1, RowStages, Stages
    <3>4. CASE <<x, m>> \in Wants(p)
      <4>1. Stage(p) = RowStage(x)
        BY <3>2, <3>4, WantStage
      <4> QED
        BY <1>2, <3>1, <4>1, RowStages, Stages
    <3> QED
      BY <1>2, <2>1, <3>3, <3>4
  <2> QED
    BY <2>2, <2>3
<1> QED
  BY <1>1, <1>2

(* The requests that p waits for, directly or through others.              *)
ClosedUnder(S, p) == \A x \in S \cup {p}, y \in Req : WaitsFor(x, y) => y \in S
WaitChain(p) == {y \in Req : \A S \in SUBSET Req : ClosedUnder(S, p) => y \in S}

(* The chain of a request in the chain is part of it. *)
LEMMA ChainClosed ==
  ASSUME NEW p
  PROVE  /\ WaitChain(p) \in SUBSET Req /\ ClosedUnder(WaitChain(p), p)
         /\ \A q \in WaitChain(p) : WaitChain(q) \subseteq WaitChain(p)
<1>1. ClosedUnder(WaitChain(p), p)
  <2> SUFFICES ASSUME NEW x \in WaitChain(p) \cup {p}, NEW y \in Req, WaitsFor(x, y),
                      NEW S \in SUBSET Req, ClosedUnder(S, p)
               PROVE  y \in S
    BY DEF ClosedUnder, WaitChain
  <2>1. x \in S \cup {p}
    BY DEF WaitChain
  <2> QED
    BY <2>1 DEF ClosedUnder
<1>2. ASSUME NEW q \in WaitChain(p) PROVE WaitChain(q) \subseteq WaitChain(p)
  <2>1. WaitChain(p) \in SUBSET Req /\ ClosedUnder(WaitChain(p), q)
    BY <1>1 DEF WaitChain, ClosedUnder
  <2> QED
    BY <2>1 DEF WaitChain
<1> QED
  BY <1>1, <1>2 DEF WaitChain

LEMMA DeadlockedInChain ==
  ASSUME NEW p \in Req
  PROVE  Deadlocked(p) <=> p \in WaitChain(p)
BY DEF Deadlocked, WaitChain, ClosedUnder

(* The waits of requests that take rows in order go from orders to drones  *)
(* to jobs: a circle needs another one.  With its row to itself a          *)
(* heartbeat is in turn too.                                               *)
LEMMA CircleNeedsReserveOrBroken ==
  ASSUME IInv, InOrder, Alone => Exact
  PROVE  DeadlockNeedsReserveOrBroken
<1> SUFFICES ASSUME NEW p \in Req, Deadlocked(p), \A q \in Req : Deadlocked(q) => InTurn(q)
             PROVE  FALSE
  <2>1. ASSUME Alone, NEW q \in Req, req[q].kind = "BEAT", pc[q] = "save_link" PROVE Wants(q) = {}
    <3>1. DOMAIN buf[q] = {req[q].drone} /\ buf[q][req[q].drone] = drones[req[q].drone]
      BY <2>1 DEF IInv, Phases, Phase, BeatPhase, Exact, ExactOf, BeatExact
    <3> QED
      BY <2>1, <3>1 DEF Wants, SaveLinkLocks
  <2> QED
    BY <2>1 DEF DeadlockNeedsReserveOrBroken, InTurn
<1> DEFINE S == {q \in WaitChain(p) : p \notin WaitChain(q) \/ Stage(p) < Stage(q)}
<1>1. p \in WaitChain(p)
  BY DeadlockedInChain
<1>2. ASSUME NEW q \in WaitChain(p), p \in WaitChain(q)
      PROVE  q \in Req /\ InTurn(q)
  <2>1. q \in WaitChain(q)
    BY <1>2, ChainClosed
  <2>2. q \in Req
    BY DEF WaitChain
  <2> QED
    BY <2>1, <2>2, DeadlockedInChain
<1>3. ASSUME NEW x \in S \cup {p}, NEW y \in Req, WaitsFor(x, y) PROVE y \in S
  <2>1. x \in WaitChain(p) /\ y \in WaitChain(p)
    BY <1>1, <1>3, ChainClosed DEF ClosedUnder
  <2>2. CASE p \notin WaitChain(y)
    BY <2>1, <2>2
  <2>3. CASE p \in WaitChain(y)
    <3>1. y \in WaitChain(x)
      BY <1>3, ChainClosed DEF ClosedUnder
    <3>2. p \in WaitChain(x)
      BY <2>3, <3>1, ChainClosed
    <3>3. Stage(x) < Stage(y)
      BY <1>2, <1>3, <2>1, <2>3, <3>2, WaitsRaise
    <3>4. x = p \/ Stage(p) < Stage(x)
      BY <3>2
    <3>5. Stage(p) < Stage(y)
      BY <3>3, <3>4, Stages
    <3> QED
      BY <2>1, <3>5
  <2> QED
    BY <2>2, <2>3
<1>4. S \in SUBSET Req
  BY DEF WaitChain
<1>5. p \in S
  BY <1>3, <1>4 DEF Deadlocked
<1> QED
  BY <1>1, <1>5, Stages

-----------------------------------------------------------------------------
(* The handlers without a transaction, when each has its row to itself.    *)

Sole == Exact /\ NoClash

(* What the write of p reaches: the rows its request names, rows that are  *)
(* new, and through the orders of jobs and drones nothing else.            *)
Reaches(p) ==
  /\ \A x \in DOMAIN buf[p] : x \in OrderID \cup DroneID =>
       x \in RowsOf(req[p]) \/ (x \in OrderID /\ orders[x].status = "ABSENT")
  /\ \A j \in JobID : j \in DOMAIN buf[p] =>
       \/ buf[p][j].order = jobs[j].order
       \/ buf[p][j].order \in RowsOf(req[p])
       \/ buf[p][j].order \in OrderID /\ orders[buf[p][j].order].status = "ABSENT"
  /\ \A d \in DroneID : d \in DOMAIN buf[p] =>
       buf[p][d].order \in {Nil, drones[d].order} \cup RowsOf(req[p])

(* Every write keeps to that. *)
LEMMA Reach ==
  ASSUME IInv, Exact, NEW p \in Req, pc[p] \in {"commit", "save_link", "beat_insert"}
  PROVE  Reaches(p)
<1> USE DEF IInv
<1>0. Phase(p)
  BY DEF Phases
<1>1. CASE req[p].kind = "CREATE"
  <2>1. PICK o \in OrderID, n \in JobID :
          /\ DOMAIN buf[p] = {o, n}
          /\ orders[o].status = "ABSENT" /\ buf[p][n] = NewJob(o)
    BY <1>0, <1>1 DEF Phase, CreatePhase
  <2>2. buf[p][n].order = o
    BY <2>1 DEF NewJob
  <2> QED
    BY <2>1, <2>2, TxAssumption DEF Reaches
<1>2. CASE req[p].kind = "CANCEL"
  <2> DEFINE o == req[p].order
  <2>1. CancelPhase(p) /\ o \in OrderID /\ o \in RowsOf(req[p])
    BY <1>0, <1>2, AskedFor, NilAssumption DEF Phase, RowsOf
  <2>2. /\ DOMAIN buf[p] = {o} \cup JobsToCancel(o)
        /\ \A i \in JobsToCancel(o) : buf[p][i] = CancelJob(jobs[i])
    BY <2>1 DEF CancelPhase, CancelledHere
  <2>3. \A i \in JobsToCancel(o) : i \in JobID /\ buf[p][i].order = jobs[i].order
    BY <2>2, JobMethods DEF JobsToCancel, TablesOK
  <2> QED
    BY <2>1, <2>2, <2>3, TxAssumption DEF Reaches
<1>3. CASE req[p].kind = "RESERVE"
  <2> DEFINE j == req[p].job
             d == req[p].drone
             o == jobs[j].order
  <2>1. ReservePhase(p) /\ j \in JobID /\ d \in DroneID
    BY <1>0, <1>3, AskedFor DEF Phase
  <2>2. /\ CanReserveJob(jobs[j]) /\ buf[p][j] = ReserveJob(jobs[j], d)
        /\ buf[p][d] = ReserveDrone(drones[d], o)
        /\ DOMAIN buf[p] = {j, o, d}
    BY <2>1 DEF ReservePhase
  <2>3. o \in OrderID
    BY <2>1, <2>2, JobMethods DEF TablesOK, JobsHaveOrders, JobRow
  <2>4. o \in RowsOf(req[p]) /\ d \in RowsOf(req[p])
    BY <2>1, <2>3, NilAssumption DEF RowsOf
  <2>5. buf[p][j].order = jobs[j].order
    BY <2>1, <2>2, JobMethods DEF TablesOK
  <2>6. buf[p][d].order = o
    BY <2>1, <2>2 DEF ReserveDrone, TablesOK, DroneRow
  <2> QED
    BY <2>1, <2>2, <2>3, <2>4, <2>5, <2>6, TxAssumption DEF Reaches
<1>4. CASE req[p].kind = "GRAB"
  <2> DEFINE o == req[p].order
             d == req[p].drone
  <2>1. GrabPhase(p) /\ o \in OrderID /\ d \in DroneID
    BY <1>0, <1>4, AskedFor DEF Phase
  <2>2. buf[p][d] = StartDelivery(drones[d]) /\ DOMAIN buf[p] = {o, d}
    BY <2>1 DEF GrabPhase
  <2>3. o \in RowsOf(req[p]) /\ d \in RowsOf(req[p])
    BY <2>1, NilAssumption DEF RowsOf
  <2>4. buf[p][d].order = drones[d].order
    BY <2>1, <2>2 DEF StartDelivery, TablesOK, DroneRow
  <2> QED
    BY <2>1, <2>2, <2>3, <2>4, TxAssumption DEF Reaches
<1>5. CASE req[p].kind = "COMPLETE"
  <2> DEFINE o == req[p].order
             d == req[p].drone
  <2>1. CompletePhase(p) /\ o \in OrderID /\ d \in DroneID
    BY <1>0, <1>5, AskedFor DEF Phase
  <2>2. /\ buf[p][d] = GoIdle(drones[d]) /\ DOMAIN buf[p] = {o, d} \cup JobsToComplete(o)
        /\ \A i \in JobsToComplete(o) : buf[p][i] = CompleteJob(jobs[i])
    BY <2>1 DEF CompletePhase
  <2>3. o \in RowsOf(req[p]) /\ d \in RowsOf(req[p])
    BY <2>1, NilAssumption DEF RowsOf
  <2>4. \A i \in JobsToComplete(o) : i \in JobID /\ buf[p][i].order = jobs[i].order
    BY <2>2, JobMethods DEF JobsToComplete, TablesOK
  <2>5. buf[p][d].order = Nil
    BY <2>1, <2>2 DEF GoIdle, TablesOK, DroneRow
  <2> QED
    BY <2>1, <2>2, <2>3, <2>4, <2>5, TxAssumption DEF Reaches
<1>6. CASE req[p].kind = "BROKEN"
  <2> DEFINE d  == req[p].drone
             o  == drones[d].order
             js == JobsToCancel(o)
  <2>1. BrokenPhase(p) /\ d \in DroneID /\ d \in RowsOf(req[p])
    BY <1>0, <1>6, AskedFor, NilAssumption DEF Phase, RowsOf
  <2>2. buf[p][d] = MarkBroken(drones[d])
    BY <2>1 DEF BrokenPhase
  <2>3. buf[p][d].order = Nil
    BY <2>1, <2>2 DEF MarkBroken, TablesOK, DroneRow
  <2>4. CASE o = Nil
    <3>1. DOMAIN buf[p] = {d}
      BY <2>1, <2>4 DEF BrokenPhase
    <3> QED
      BY <2>1, <2>3, <3>1, TxAssumption DEF Reaches
  <2>5. CASE o # Nil
    <3>1. TakenFrom(p, d, o) /\ o \in OrderID
      BY <2>1, <2>5 DEF BrokenPhase, TablesOK, DroneRow
    <3>2. PICK new \in JobID : DOMAIN buf[p] = {d, o, new} \cup js /\ buf[p][new] = NewJob(o)
      BY <3>1 DEF TakenFrom
    <3>3. \A i \in js : buf[p][i] = CancelJob(jobs[i])
      BY <3>1 DEF TakenFrom, CancelledHere
    <3>4. \A i \in js : i \in JobID /\ buf[p][i].order = jobs[i].order
      BY <3>3, JobMethods DEF JobsToCancel, TablesOK
    <3>5. o \in RowsOf(req[p]) /\ buf[p][new].order = o
      BY <1>6, <2>5, <3>2 DEF RowsOf, NewJob
    <3> HIDE DEF js
    <3> QED
      BY <2>1, <2>3, <3>1, <3>2, <3>4, <3>5, TxAssumption DEF Reaches
  <2> QED
    BY <2>4, <2>5
<1>7. CASE req[p].kind = "BEAT"
  <2> DEFINE d == req[p].drone
  <2>1. d \in DroneID /\ d \in RowsOf(req[p]) /\ DOMAIN buf[p] = {d}
    BY <1>0, <1>7, AskedFor, NilAssumption DEF Phase, BeatPhase, RowsOf
  <2>2. buf[p][d].order \in {Nil, drones[d].order}
    BY <1>0, <1>7 DEF Exact, ExactOf, BeatExact, NewDrone, Phase, BeatPhase, WritingBack
  <2> QED
    BY <2>1, <2>2, TxAssumption DEF Reaches
<1>8. CASE req[p].kind = "FIXED"
  <2> DEFINE d == req[p].drone
  <2>1. /\ d \in DroneID /\ d \in RowsOf(req[p]) /\ DOMAIN buf[p] = {d}
        /\ buf[p][d].order = Nil
    BY <1>0, <1>8, AskedFor, NilAssumption DEF Phase, FixedPhase, RowsOf
  <2> QED
    BY <2>1, TxAssumption DEF Reaches
<1>9. CASE req[p].kind = "ADMIN"
  <2>1. /\ req[p].order \in OrderID /\ req[p].order \in RowsOf(req[p])
        /\ DOMAIN buf[p] = {req[p].order}
    BY <1>0, <1>9, AskedFor, NilAssumption DEF Phase, AdminPhase, RowsOf
  <2> QED
    BY <2>1, TxAssumption DEF Reaches
<1>10. req[p].kind # "NONE"
  BY <1>0 DEF Phase, Idle
<1> QED
  BY <1>1, <1>2, <1>3, <1>4, <1>5, <1>6, <1>7, <1>8, <1>9, <1>10, AskedFor
     DEF AllKinds, TxKinds, UnlockedKinds

(* The row of a request without a transaction.                             *)
LEMMA UnlockedRow ==
  ASSUME IInv, Exact, NEW p \in Req, req[p].kind \in UnlockedKinds
  PROVE  /\ req[p].kind \in {"BEAT", "FIXED"} =>
              req[p].drone \in DroneID /\ RowsOf(req[p]) = {req[p].drone}
         /\ req[p].kind = "ADMIN" =>
              req[p].order \in OrderID /\ RowsOf(req[p]) = {req[p].order}
         /\ \A y \in RowsOf(req[p]) : y \in OrderID => orders[y].status # "ABSENT"
<1>1. req[p] \in Requests
  BY NoReqFacts DEF IInv, RequestsOK, UnlockedKinds
<1>2. /\ req[p].job = Nil
      /\ req[p].kind \in {"BEAT", "FIXED"} => req[p].drone \in DroneID /\ req[p].order = Nil
      /\ req[p].kind = "ADMIN" => req[p].order \in OrderID /\ req[p].drone = Nil
  BY <1>1, RequestFacts DEF UnlockedKinds
<1>3. /\ req[p].kind \in {"BEAT", "FIXED"} => RowsOf(req[p]) = {req[p].drone}
      /\ req[p].kind = "ADMIN" => RowsOf(req[p]) = {req[p].order}
  BY <1>2, NilAssumption DEF RowsOf, UnlockedKinds
<1>4. req[p].kind = "ADMIN" => orders[req[p].order].status # "ABSENT"
  BY DEF Exact, ExactOf, AdminExact
<1> QED
  BY <1>2, <1>3, <1>4, TxAssumption DEF UnlockedKinds

(* No request in service names the row of another one that is unlocked. *)
LEMMA NoSharedRow ==
  ASSUME NoClash, NEW p \in Req, NEW q \in Req \ {p}, req[q].kind \in UnlockedKinds,
         NEW y \in RowsOf(req[q])
  PROVE  y \notin RowsOf(req[p])
BY DEF NoClash, Clash

(* Nobody else writes the row of such a request.                           *)
LEMMA RowUntouched ==
  ASSUME IInv, Sole, NEW p \in Req, NEW q \in Req \ {p}, req[q].kind \in UnlockedKinds,
         pc[p] \in {"commit", "save_link", "beat_insert"}, NEW y \in RowsOf(req[q])
  PROVE  y \notin DOMAIN buf[p]
<1>1. y \notin RowsOf(req[p]) /\ (y \in OrderID => orders[y].status # "ABSENT")
  BY NoSharedRow, UnlockedRow DEF Sole
<1>2. y \in OrderID \cup DroneID
  BY UnlockedRow DEF Sole, UnlockedKinds
<1> QED
  BY <1>1, <1>2, Reach DEF Sole, Reaches

(* So what such a request has read stays true. *)
LEMMA ExactStays ==
  ASSUME IInv, Sole, NEW p \in Req, NEW q \in Req \ {p}, Writes(p), OthersStay(p),
         pc[p] \in {"commit", "save_link", "beat_insert"}
  PROVE  ExactOf(q)'
<1>1. pc'[q] = pc[q] /\ req'[q] = req[q] /\ buf'[q] = buf[q] /\ ExactOf(q)
  BY DEF OthersStay, Sole, Exact
<1>2. ASSUME req[q].kind \in {"BEAT", "FIXED"} PROVE drones'[req[q].drone] = drones[req[q].drone]
  <2>1. req[q].drone \in DroneID /\ req[q].drone \notin DOMAIN buf[p]
    BY <1>2, UnlockedRow, RowUntouched DEF Sole, UnlockedKinds
  <2> QED
    BY <2>1, WrittenRows DEF IInv
<1>3. ASSUME req[q].kind = "ADMIN" PROVE orders'[req[q].order] = orders[req[q].order]
  <2>1. req[q].order \in OrderID /\ req[q].order \notin DOMAIN buf[p]
    BY <1>3, UnlockedRow, RowUntouched DEF Sole, UnlockedKinds
  <2> QED
    BY <2>1, WrittenRows DEF IInv
<1> QED
  BY <1>1, <1>2, <1>3 DEF ExactOf, BeatExact, FixedExact, AdminExact

(* The rows that a request may change: more of them only where p reaches.  *)
LEMMA RowsGrow ==
  ASSUME IInv, Exact, NEW p \in Req, NEW q \in Req \ {p}, Writes(p), OthersStay(p),
         pc[p] \in {"commit", "save_link", "beat_insert"}, NEW y \in RowsOf(req[q])'
  PROVE  \/ y \in RowsOf(req[q]) \/ y \in RowsOf(req[p])
         \/ y \in OrderID /\ orders[y].status = "ABSENT"
<1>0. req'[q] = req[q] /\ Reaches(p) /\ y # Nil
  BY Reach DEF OthersStay, RowsOf
<1>1. \/ y \in {req[q].order, req[q].drone}
      \/ req[q].job # Nil /\ y = jobs'[req[q].job].order
      \/ req[q].kind = "BROKEN" /\ y = drones'[req[q].drone].order
  BY <1>0 DEF RowsOf
<1>2. CASE y \in {req[q].order, req[q].drone}
  BY <1>0, <1>2 DEF RowsOf
<1>3. CASE req[q].job # Nil /\ y = jobs'[req[q].job].order
  <2>1. req[q].job \in JobID
    <3>1. req[q] \in Requests \cup {NoReq}
      BY DEF IInv, RequestsOK
    <3> QED
      BY <1>3, <3>1, NoReqFacts, RequestFacts DEF AllKinds, TxKinds, UnlockedKinds
  <2>2. jobs[req[q].job].order \in RowsOf(req[q]) \cup {Nil}
    BY <1>3 DEF RowsOf
  <2> QED
    BY <1>0, <1>3, <2>1, <2>2, WrittenRows DEF IInv, Reaches
<1>4. CASE req[q].kind = "BROKEN" /\ y = drones'[req[q].drone].order
  <2>1. req[q].drone \in DroneID
    BY <1>4, AskedFor DEF IInv
  <2>2. drones[req[q].drone].order \in RowsOf(req[q]) \cup {Nil}
    BY <1>4 DEF RowsOf
  <2> QED
    BY <1>0, <1>4, <2>1, <2>2, WrittenRows DEF IInv, Reaches
<1> QED
  BY <1>1, <1>2, <1>3, <1>4

LEMMA ClashStaysAway ==
  ASSUME IInv, Sole, NEW p \in Req, Writes(p), OthersStay(p),
         pc[p] \in {"commit", "save_link", "beat_insert"},
         NEW q \in Req \ {p}, NEW r \in Req \ {p}, q # r, req[r].kind \in UnlockedKinds
  PROVE  RowsOf(req[q])' \cap RowsOf(req[r])' = {}
<1>1. req'[r] = req[r] /\ req[r] \in Requests
  BY NoReqFacts DEF OthersStay, IInv, RequestsOK, UnlockedKinds
<1>2. req[r].job = Nil /\ req[r].kind # "BROKEN"
  BY <1>1, RequestFacts DEF UnlockedKinds
<1>3. RowsOf(req[r])' = RowsOf(req[r])
  BY <1>1, <1>2 DEF RowsOf
<1>4. ASSUME NEW y \in RowsOf(req[q])', y \in RowsOf(req[r]) PROVE FALSE
  <2>1. \/ y \in RowsOf(req[q]) \/ y \in RowsOf(req[p])
        \/ y \in OrderID /\ orders[y].status = "ABSENT"
    BY <1>4, RowsGrow DEF Sole
  <2>2. y \notin RowsOf(req[q]) /\ y \notin RowsOf(req[p])
    BY <1>4, NoSharedRow DEF Sole
  <2> QED
    BY <1>4, <2>1, <2>2, UnlockedRow DEF Sole
<1> QED
  BY <1>3, <1>4

(* A step of p that leaves the tables alone.                               *)
LEMMA SoleLocal ==
  ASSUME IInv, Sole, NEW p \in Req, UNCHANGED tables, OthersStay(p), ExactOf(p)',
         \A q \in Req \ {p} : ~Clash(req'[p], req[q])
  PROVE  Sole'
<1>1. Exact'
  <2>1. ASSUME NEW q \in Req \ {p} PROVE ExactOf(q)'
    BY DEF Sole, Exact, ExactOf, BeatExact, FixedExact, AdminExact, OthersStay, tables
  <2> QED
    BY <2>1 DEF Exact
<1>2. \A q, r : Clash(q, r) <=> Clash(r, q)
  BY DEF Clash
<1>3. NoClash'
  <2>1. ASSUME NEW q \in Req, NEW r \in Req, q # r PROVE ~Clash(req'[q], req'[r])
    BY <1>2, <2>1 DEF Sole, NoClash, OthersStay
  <2>2. ASSUME NEW q \in Req, NEW r \in Req, q # r PROVE ~(Clash(req[q], req[r])')
    BY <2>1, <2>2 DEF Clash, RowsOf, tables
  <2> QED
    BY <2>2 DEF NoClash
<1> QED
  BY <1>1, <1>3 DEF Sole

LEMMA SoleRollback ==
  ASSUME IInv, Sole, NEW p \in Req, Rollback(p)
  PROVE  Sole'
<1>1. req'[p] = NoReq /\ OthersStay(p) /\ UNCHANGED tables
  BY DEF IInv, RequestsOK, Rollback, OthersStay
<1>2. ExactOf(p)'
  BY <1>1, NoReqFacts DEF ExactOf
<1>3. RowsOf(NoReq) = {}
  BY NoReqFacts DEF RowsOf
<1> QED
  BY <1>1, <1>2, <1>3, SoleLocal DEF Clash

LEMMA SoleStart ==
  ASSUME Alone, IInv, Sole, NEW p \in Req, Start(p)
  PROVE  Sole'
<1>1. PICK q \in Requests : HasItsRow(q) /\ req'[p] = q /\ pc'[p] = First[q.kind]
  BY DEF Start, IInv, RequestsOK
<1>2. UNCHANGED tables /\ OthersStay(p)
  BY DEF Start, OthersStay, IInv, RequestsOK
<1>3. q.kind = "ADMIN" => orders'[q.order].status # "ABSENT"
  BY <1>1, <1>2 DEF HasItsRow, tables
<1>4. q.kind \in UnlockedKinds => pc'[p] \notin {"beat_insert", "save", "save_link"}
  BY <1>1 DEF First, UnlockedKinds
<1>5. ExactOf(p)'
  BY <1>1, <1>3, <1>4 DEF ExactOf, BeatExact, FixedExact, AdminExact, UnlockedKinds
<1> QED
  BY <1>1, <1>2, <1>5, SoleLocal DEF HasItsRow

LEMMA SoleRead ==
  ASSUME Alone, IInv, Sole, NEW p \in Req, BeatRead(p) \/ FixedRead(p) \/ AdminRead(p), ~Rollback(p)
  PROVE  Sole'
<1>1. UNCHANGED <<tables, req, held>> /\ OthersStay(p)
  BY DEF BeatRead, FixedRead, AdminRead, Read, OthersStay, IInv, RequestsOK
<1>2. ASSUME BeatRead(p) PROVE ExactOf(p)'
  <2> DEFINE d == req[p].drone
  <2>1. req[p].kind = "BEAT"
    BY <1>2, KindOf DEF BeatRead, IInv, Phases
  <2>2. \/ pc'[p] = "save" /\ buf'[p] = Row(d, drones[d])
        \/ pc'[p] = "beat_insert" /\ buf'[p] = Row(d, NewDrone) /\ drones[d].status = "ABSENT"
    BY <1>2 DEF BeatRead, Read, IInv, RequestsOK
  <2> QED
    BY <1>1, <2>1, <2>2 DEF ExactOf, BeatExact, Row, tables
<1>3. ASSUME FixedRead(p) PROVE ExactOf(p)'
  <2> DEFINE d == req[p].drone
  <2>1. req[p].kind = "FIXED"
    BY <1>3, KindOf DEF FixedRead, Read, IInv, Phases
  <2>2. buf'[p] = Row(d, MarkFixed(drones[d])) /\ CanFix(drones[d])
    BY <1>3 DEF FixedRead, Read, IInv, RequestsOK
  <2> QED
    BY <1>1, <2>1, <2>2 DEF ExactOf, FixedExact, Row, tables
<1>4. ASSUME AdminRead(p) PROVE ExactOf(p)'
  <2> DEFINE o == req[p].order
  <2>1. req[p].kind = "ADMIN"
    BY <1>4, KindOf DEF AdminRead, Read, IInv, Phases
  <2>2. buf'[p] = Row(o, Reroute(orders[o], req[p].arg)) /\ CanReroute(orders[o], req[p].arg)
    BY <1>4 DEF AdminRead, Read, IInv, RequestsOK
  <2> QED
    BY <1>1, <2>1, <2>2 DEF ExactOf, AdminExact, CanReroute, Row, tables
<1>5. req'[p] = req[p]
  BY <1>1
<1> QED
  BY <1>1, <1>2, <1>3, <1>4, <1>5, SoleLocal DEF Sole, NoClash

LEMMA SoleSave ==
  ASSUME IInv, Sole, NEW p \in Req, Save(p)
  PROVE  Sole'
<1> DEFINE none == <<>>
<1>1. pc[p] = "save" /\ Goes(p, "save_link", none) /\ DOMAIN none = {}
  BY NoRows DEF Save, Statement, Goes, OthersStay, IInv, RequestsOK
<1>2. PICK x \in Rows :
        /\ DOMAIN buf[p] = {x}
        /\ x = IF req[p].kind = "ADMIN" THEN req[p].order ELSE req[p].drone
  BY <1>1, BackRow
<1> HIDE DEF none
<1>3. /\ UNCHANGED tables /\ OthersStay(p) /\ req'[p] = req[p] /\ pc'[p] = "save_link"
      /\ buf'[p][x] = buf[p][x]
  BY <1>1, <1>2, Gone DEF Goes
<1>4. req[p].kind \in UnlockedKinds
  BY <1>1, KindOf DEF IInv, Phases
<1>5. ExactOf(p)'
  BY <1>1, <1>2, <1>3, <1>4 DEF Sole, Exact, ExactOf, BeatExact, FixedExact, AdminExact, tables, UnlockedKinds
<1> QED
  BY <1>3, <1>5, SoleLocal DEF Sole, NoClash

LEMMA SoleBeatInsert ==
  ASSUME IInv, Sole, NEW p \in Req, BeatInsert(p)
  PROVE  Sole'
<1> DEFINE d == req[p].drone
<1>1. /\ pc[p] = "beat_insert" /\ OthersStay(p) /\ Writes(p) /\ req[p].kind = "BEAT" /\ d \in DroneID
      /\ pc'[p] = "save" /\ req'[p] = req[p] /\ buf'[p] = buf[p] /\ jobs' = jobs
      /\ DOMAIN buf[p] = {d}
  BY BeatInsertWrites DEF BeatPhase
<1>2. buf[p][d] = NewDrone
  BY <1>1 DEF Sole, Exact, ExactOf, BeatExact
<1>3. drones'[d] = NewDrone /\ \A x \in DroneID \ {d} : drones'[x] = drones[x]
  BY <1>1, <1>2, WrittenRows DEF IInv
<1>4. ExactOf(p)'
  BY <1>1, <1>2, <1>3 DEF ExactOf, BeatExact
<1>5. Exact'
  BY <1>1, <1>4, ExactStays DEF Exact
<1>6. \A q \in Req : req'[q] = req[q] /\ (req[q].kind = "BROKEN" => req[q].drone \in DroneID)
  BY <1>1, AskedFor DEF OthersStay, IInv
<1>7. ASSUME NEW q \in Req PROVE RowsOf(req[q])' \subseteq RowsOf(req[q])
  <2>1. req[q].kind = "BROKEN" =>
          drones'[req[q].drone].order \in {Nil, drones[req[q].drone].order}
    BY <1>3, <1>6 DEF NewDrone
  <2> QED
    BY <1>1, <1>6, <2>1 DEF RowsOf
<1>8. NoClash'
  BY <1>6, <1>7 DEF Sole, NoClash, Clash
<1> QED
  BY <1>5, <1>8 DEF Sole

LEMMA SoleCommit ==
  ASSUME IInv, Sole, NEW p \in Req, Commit(p)
  PROVE  Sole'
<1>1. pc[p] \in {"commit", "save_link"} /\ OthersStay(p) /\ Writes(p) /\ req'[p] = NoReq
  BY DEF Commit, Writes, OthersStay, IInv, RequestsOK
<1>2. ExactOf(p)'
  BY <1>1, NoReqFacts DEF ExactOf
<1>3. Exact'
  BY <1>1, <1>2, ExactStays DEF Exact
<1>4. RowsOf(req[p])' = {}
  BY <1>1, NoReqFacts DEF RowsOf
<1>5. ASSUME NEW q \in Req, NEW r \in Req, q # r PROVE ~(Clash(req[q], req[r])')
  <2>1. CASE p \in {q, r}
    BY <1>4, <2>1 DEF Clash
  <2>2. CASE p \notin {q, r}
    <3>1. req'[q] = req[q] /\ req'[r] = req[r]
      BY <1>1, <2>2 DEF OthersStay
    <3>2. req[q].kind \in UnlockedKinds \/ req[r].kind \in UnlockedKinds =>
            RowsOf(req[q])' \cap RowsOf(req[r])' = {}
      BY <1>1, <1>5, <2>2, ClashStaysAway
    <3> QED
      BY <3>1, <3>2 DEF Clash
  <2> QED
    BY <2>1, <2>2
<1>6. NoClash'
  BY <1>5 DEF NoClash
<1> QED
  BY <1>3, <1>6 DEF Sole

LEMMA SoleStep ==
  ASSUME Alone, IInv, Sole, NEW p \in Req, Start(p) \/ Step(p) \/ Abort(p) \/ DeadlockVictim(p)
  PROVE  Sole'
<1>1. CASE Rollback(p)
  BY <1>1, SoleRollback
<1>2. CASE Start(p)
  BY <1>2, SoleStart
<1>3. CASE Commit(p)
  BY <1>3, SoleCommit
<1>4. CASE BeatInsert(p)
  BY <1>4, SoleBeatInsert
<1>5. CASE (BeatRead(p) \/ FixedRead(p) \/ AdminRead(p)) /\ ~Rollback(p)
  BY <1>5, SoleRead
<1>7. CASE Save(p)
  BY <1>7, SoleSave
<1>6. CASE /\ \/ CreateOrderAndJob(p) \/ CancelOrder1(p) \/ CancelJobs2(p)
              \/ ReserveJob1(p) \/ ReserveLink2(p) \/ ReserveOrder3(p) \/ ReserveDrone4(p)
              \/ GrabOrder1(p) \/ GrabDrone2(p)
              \/ CompleteOrder1(p) \/ CompleteDrone2(p) \/ CompleteJob3(p)
              \/ BrokenDrone1(p) \/ BrokenOrder2(p) \/ BrokenJobs3(p)
           /\ ~Rollback(p)
  <2>1. UNCHANGED <<tables, req>> /\ req[p].kind \notin UnlockedKinds
    BY <1>6, KindOf DEF IInv, Phases, UnlockedKinds, CreateOrderAndJob, CancelOrder1, CancelJobs2,
         ReserveJob1, ReserveLink2, ReserveOrder3, ReserveDrone4, GrabOrder1, GrabDrone2, CompleteOrder1,
         CompleteDrone2, CompleteJob3, BrokenDrone1, BrokenOrder2, BrokenJobs3, Statement
  <2>2. ExactOf(p)'
    BY <2>1 DEF ExactOf, UnlockedKinds
  <2>3. OthersStay(p) /\ req'[p] = req[p]
    BY <2>1, StepOfOne
  <2> QED
    BY <2>1, <2>2, <2>3, SoleLocal DEF Sole, NoClash
<1> QED
  BY <1>1, <1>2, <1>3, <1>4, <1>5, <1>6, <1>7 DEF Step, OutOfIdentifiers, Abort, DeadlockVictim

(* A request that reads without a lock has its row to itself, or there is  *)
(* none.                                                                   *)
NoneStale == Alone \/ Kinds \cap UnlockedKinds = {}

LEMMA AlwaysSole == ASSUME NoneStale PROVE Spec => []Sole
<1>1. CASE Kinds \cap UnlockedKinds = {}
  <2>1. IInv => Sole
    BY <1>1, AskedFor DEF IInv, Sole, Exact, ExactOf, NoClash, Clash, AllKinds, UnlockedKinds
  <2> QED
    BY AlwaysIInv, <2>1, PTL
<1>2. CASE Alone
  <2>1. Init => Sole
    BY NoReqFacts DEF Init, Sole, Exact, ExactOf, NoClash, Clash, RowsOf
  <2>2. IInv /\ Sole /\ [Next]_vars => Sole'
    <3>1. ASSUME Sole, UNCHANGED vars PROVE Sole'
      <4>1. \A p \in Req : ExactOf(p) => ExactOf(p)'
        BY <3>1 DEF vars, ExactOf, BeatExact, FixedExact, AdminExact
      <4>2. \A p \in Req : req'[p] = req[p] /\ RowsOf(req[p])' = RowsOf(req[p])
        BY <3>1 DEF vars, RowsOf
      <4>3. \A p, q \in Req : Clash(req[p], req[q])' <=> Clash(req[p], req[q])
        BY <4>2 DEF Clash
      <4> QED
        BY <3>1, <4>1, <4>3 DEF Sole, Exact, NoClash
    <3> QED
      BY <1>2, <3>1, SoleStep DEF Next
  <2> QED
    BY AlwaysIInv, <2>1, <2>2, PTL DEF Spec
<1> QED
  BY <1>1, <1>2 DEF NoneStale

(* Every deadlock involves a request that reserves a job or reports a      *)
(* breakdown, which lock the rows in another order than the rest, or else  *)
(* a heartbeat that has locked its drone and writes an old order back.     *)
THEOREM DeadlockOnlyThroughThem == Spec => []DeadlockNeedsReserveOrBroken
<1>1. Init => InOrder
  BY DEF Init, InOrder
<1>2. IInv /\ InOrder /\ [Next]_vars => InOrder'
  <2>1. ASSUME IInv, InOrder, UNCHANGED vars PROVE InOrder'
    BY <2>1 DEF vars, InOrder, Stage
  <2> QED
    BY <2>1, InOrderStep DEF Next
<1>3. CASE Alone
  <2>1. IInv /\ InOrder /\ Sole => DeadlockNeedsReserveOrBroken
    BY CircleNeedsReserveOrBroken DEF Sole
  <2>2. Spec => []Sole
    BY <1>3, AlwaysSole DEF NoneStale
  <2> QED
    BY AlwaysIInv, <1>1, <1>2, <2>1, <2>2, PTL DEF Spec
<1>4. CASE ~Alone
  <2>1. IInv /\ InOrder => DeadlockNeedsReserveOrBroken
    BY <1>4, CircleNeedsReserveOrBroken
  <2> QED
    BY AlwaysIInv, <1>1, <1>2, <2>1, PTL DEF Spec
<1> QED
  BY <1>3, <1>4

-----------------------------------------------------------------------------
(* The refinement: a commit is a step of Delivery, and so is the Upsert.   *)

(* A write of one row, or of none, of a table. *)
LEMMA OneOrder ==
  ASSUME TablesOK, NEW p \in Req, Writes(p), NEW o \in OrderID, DOMAIN buf[p] \cap OrderID = {o}
  PROVE  orders' = [orders EXCEPT ![o] = buf[p][o]]
BY DEF TablesOK, Writes, Written

LEMMA OneDrone ==
  ASSUME TablesOK, NEW p \in Req, Writes(p), NEW d \in DroneID, DOMAIN buf[p] \cap DroneID = {d}
  PROVE  drones' = [drones EXCEPT ![d] = buf[p][d]]
BY DEF TablesOK, Writes, Written

LEMMA OneJob ==
  ASSUME TablesOK, NEW p \in Req, Writes(p), NEW j \in JobID, DOMAIN buf[p] \cap JobID = {j}
  PROVE  jobs' = [jobs EXCEPT ![j] = buf[p][j]]
BY DEF TablesOK, Writes, Written

LEMMA NoneWritten ==
  ASSUME TablesOK, NEW p \in Req, Writes(p)
  PROVE  /\ DOMAIN buf[p] \cap OrderID = {} => orders' = orders
         /\ DOMAIN buf[p] \cap DroneID = {} => drones' = drones
         /\ DOMAIN buf[p] \cap JobID = {} => jobs' = jobs
BY DEF TablesOK, Writes, Written

(* The commit of each kind of request is the step of Delivery of its kind. *)
LEMMA CreateRefines ==
  ASSUME IInv, NEW p \in Req, pc[p] = "commit", Writes(p), req[p].kind = "CREATE"
  PROVE  Atomic!Next
<1>1. Phase(p) /\ req[p].arg \in Route /\ TablesOK
  BY AskedFor DEF IInv, Phases
<1>2. PICK o \in OrderID, j \in JobID :
        /\ DOMAIN buf[p] = {o, j}
        /\ orders[o].status = "ABSENT" /\ buf[p][o] = NewOrder(req[p].arg)
        /\ jobs[j].status = "ABSENT" /\ buf[p][j] = NewJob(o)
  BY <1>1 DEF Phase, CreatePhase
<1>3. /\ DOMAIN buf[p] \cap OrderID = {o} /\ DOMAIN buf[p] \cap JobID = {j}
      /\ DOMAIN buf[p] \cap DroneID = {}
  BY <1>2, TxAssumption
<1>4. /\ orders' = [orders EXCEPT ![o] = buf[p][o]] /\ jobs' = [jobs EXCEPT ![j] = buf[p][j]]
      /\ drones' = drones
  BY <1>1, <1>3, OneOrder, OneJob, NoneWritten
<1>5. Atomic!CreateOrderAndJob(req[p].arg, o, j)
  BY <1>2, <1>4 DEF Atomic!CreateOrderAndJob, Atomic!NewOrder, Atomic!NewJob, NewOrder, NewJob
<1> QED
  BY <1>1, <1>5 DEF Atomic!Next

LEMMA CancelRefines ==
  ASSUME IInv, NEW p \in Req, pc[p] = "commit", Writes(p), req[p].kind = "CANCEL"
  PROVE  Atomic!Next
<1> DEFINE o  == req[p].order
           js == JobsToCancel(o)
<1>1. Phase(p) /\ o \in OrderID /\ TablesOK
  BY AskedFor DEF IInv, Phases
<1>2. /\ CanCancelOrder(orders[o]) /\ buf[p][o] = CancelOrder(orders[o])
      /\ DOMAIN buf[p] = {o} \cup js /\ js # {}
      /\ \A j \in js : buf[p][j] = CancelJob(jobs[j])
  BY <1>1 DEF Phase, CancelPhase, CancelledHere
<1>3. DOMAIN buf[p] \cap OrderID = {o} /\ DOMAIN buf[p] \cap DroneID = {}
  BY <1>1, <1>2, TxAssumption DEF JobsToCancel
<1>4. orders' = [orders EXCEPT ![o] = buf[p][o]] /\ drones' = drones
  BY <1>1, <1>3, OneOrder, NoneWritten
<1>5. jobs' = CancelByOrderID(jobs, o)
  BY <1>1, <1>2, TxAssumption DEF Writes, Written, CancelByOrderID, JobsToCancel, TablesOK
<1>6. \E j \in JobID : CanCancelJob(jobs[j], o)
  BY <1>2 DEF JobsToCancel
<1>7. Atomic!CancelOrderAndJob(o)
  BY <1>2, <1>4, <1>5, <1>6
     DEF Atomic!CancelOrderAndJob, Atomic!CanCancelOrder, Atomic!CancelOrder, Atomic!CanCancelJob,
         Atomic!CancelByOrderID, Atomic!CancelJob, CanCancelOrder, CancelOrder, CanCancelJob,
         CancelByOrderID, CancelJob
<1> QED
  BY <1>1, <1>7 DEF Atomic!Next

LEMMA ReserveRefines ==
  ASSUME IInv, NEW p \in Req, pc[p] = "commit", Writes(p), req[p].kind = "RESERVE"
  PROVE  Atomic!Next
<1> DEFINE j == req[p].job
           d == req[p].drone
           o == jobs[j].order
<1>1. Phase(p) /\ j \in JobID /\ d \in DroneID /\ TablesOK
  BY AskedFor DEF IInv, Phases
<1>2. /\ CanReserveJob(jobs[j]) /\ buf[p][j] = ReserveJob(jobs[j], d)
      /\ CanAssign(orders[o]) /\ buf[p][o] = Assign(orders[o], d)
      /\ CanReserveDrone(drones[d]) /\ buf[p][d] = ReserveDrone(drones[d], o)
      /\ drones[d].status # "ABSENT" /\ DOMAIN buf[p] = {j, o, d}
  BY <1>1 DEF Phase, ReservePhase
<1>3. o \in OrderID
  BY <1>1, <1>2, JobMethods DEF IInv, TablesOK, JobsHaveOrders, JobRow
<1>4. /\ DOMAIN buf[p] \cap OrderID = {o} /\ DOMAIN buf[p] \cap JobID = {j}
      /\ DOMAIN buf[p] \cap DroneID = {d}
  BY <1>1, <1>2, <1>3, TxAssumption
<1>5. /\ orders' = [orders EXCEPT ![o] = buf[p][o]] /\ jobs' = [jobs EXCEPT ![j] = buf[p][j]]
      /\ drones' = [drones EXCEPT ![d] = buf[p][d]]
  BY <1>1, <1>3, <1>4, OneOrder, OneJob, OneDrone
<1>6. Atomic!ReserveJobAndAssign(j, d)
  BY <1>2, <1>5
     DEF Atomic!ReserveJobAndAssign, Atomic!CanReserve, Atomic!CanReserveJob, Atomic!CanAssign,
         Atomic!CanReserveDrone, Atomic!ReserveJob, Atomic!Assign, Atomic!ReserveDrone,
         CanReserveJob, CanAssign, CanReserveDrone, ReserveJob, Assign, ReserveDrone
<1> QED
  BY <1>1, <1>6 DEF Atomic!Next

LEMMA GrabRefines ==
  ASSUME IInv, NEW p \in Req, pc[p] = "commit", Writes(p), req[p].kind = "GRAB"
  PROVE  Atomic!Next
<1> DEFINE o == req[p].order
           d == req[p].drone
<1>1. Phase(p) /\ o \in OrderID /\ d \in DroneID /\ TablesOK
  BY AskedFor DEF IInv, Phases
<1>2. /\ orders[o].drone = d /\ CanPickUp(orders[o]) /\ buf[p][o] = MarkPickedUp(orders[o])
      /\ CanStartDelivery(drones[d]) /\ buf[p][d] = StartDelivery(drones[d])
      /\ DOMAIN buf[p] = {o, d}
  BY <1>1 DEF Phase, GrabPhase
<1>3. /\ DOMAIN buf[p] \cap OrderID = {o} /\ DOMAIN buf[p] \cap JobID = {}
      /\ DOMAIN buf[p] \cap DroneID = {d}
  BY <1>1, <1>2, TxAssumption
<1>4. /\ orders' = [orders EXCEPT ![o] = buf[p][o]] /\ jobs' = jobs
      /\ drones' = [drones EXCEPT ![d] = buf[p][d]]
  BY <1>1, <1>3, OneOrder, OneDrone, NoneWritten
<1>5. Atomic!GrabOrder(o, d)
  BY <1>2, <1>4
     DEF Atomic!GrabOrder, Atomic!CanPickUp, Atomic!MarkPickedUp, Atomic!CanStartDelivery,
         Atomic!StartDelivery, CanPickUp, MarkPickedUp, CanStartDelivery, StartDelivery
<1> QED
  BY <1>1, <1>5 DEF Atomic!Next

LEMMA CompleteRefines ==
  ASSUME IInv, OneLiveJob, NEW p \in Req, pc[p] = "commit", Writes(p), req[p].kind = "COMPLETE"
  PROVE  Atomic!Next
<1> DEFINE o  == req[p].order
           d  == req[p].drone
           js == JobsToComplete(o)
<1>1. /\ Phase(p) /\ o \in OrderID /\ d \in DroneID /\ TablesOK
      /\ req[p].arg \in {"DELIVERED", "FAILED"}
  BY AskedFor DEF IInv, Phases
<1>2. /\ orders[o].drone = d /\ CanFinish(orders[o])
      /\ buf[p][o] = MarkFinished(orders[o], req[p].arg)
      /\ drones[d].status # "ABSENT" /\ buf[p][d] = GoIdle(drones[d])
      /\ DOMAIN buf[p] = {o, d} \cup js /\ js # {}
      /\ \A j \in js : buf[p][j] = CompleteJob(jobs[j])
  BY <1>1 DEF Phase, CompletePhase
<1>3. PICK j \in js : TRUE
  BY <1>2
<1>4. j \in JobID /\ IsJobOf(jobs[j], o) /\ CanCompleteJob(jobs[j])
  BY <1>3 DEF JobsToComplete
<1>5. js = {j}
  <2>1. ASSUME NEW i \in js PROVE i = j
    BY <1>4, <2>1 DEF JobsToComplete, IsJobOf, CanCompleteJob, OneLiveJob, Atomic!OneLiveJob
  <2> QED
    BY <1>3, <2>1
<1>6. /\ DOMAIN buf[p] \cap OrderID = {o} /\ DOMAIN buf[p] \cap JobID = {j}
      /\ DOMAIN buf[p] \cap DroneID = {d}
  BY <1>1, <1>2, <1>4, <1>5, TxAssumption
<1>7. /\ orders' = [orders EXCEPT ![o] = buf[p][o]] /\ jobs' = [jobs EXCEPT ![j] = buf[p][j]]
      /\ drones' = [drones EXCEPT ![d] = buf[p][d]]
  BY <1>1, <1>4, <1>6, OneOrder, OneJob, OneDrone
<1>8. buf[p][j] = CompleteJob(jobs[j])
  BY <1>2, <1>3
<1> HIDE DEF js
<1>9. Atomic!CompleteDelivery(o, d, req[p].arg)
  BY <1>2, <1>4, <1>7, <1>8
     DEF Atomic!CompleteDelivery, Atomic!CanFinish, Atomic!MarkFinished, Atomic!GoIdle, Atomic!IsJobOf,
         Atomic!CanCompleteJob, Atomic!CompleteJob, CanFinish, MarkFinished, GoIdle, IsJobOf,
         CanCompleteJob, CompleteJob
<1> QED
  BY <1>1, <1>9 DEF Atomic!Next

LEMMA BrokenRefines ==
  ASSUME IInv, NEW p \in Req, pc[p] = "commit", Writes(p), req[p].kind = "BROKEN"
  PROVE  Atomic!Next
<1> DEFINE d  == req[p].drone
           o  == drones[d].order
           js == JobsToCancel(o)
<1>1. Phase(p) /\ d \in DroneID /\ TablesOK
  BY AskedFor DEF IInv, Phases
<1>2. BrokenPhase(p) /\ CanBreak(drones[d]) /\ buf[p][d] = MarkBroken(drones[d])
  BY <1>1 DEF Phase, BrokenPhase
<1>3. CASE o = Nil
  <2>1. DOMAIN buf[p] = {d}
    BY <1>2, <1>3 DEF BrokenPhase
  <2>2. /\ DOMAIN buf[p] \cap OrderID = {} /\ DOMAIN buf[p] \cap JobID = {}
        /\ DOMAIN buf[p] \cap DroneID = {d}
    BY <1>1, <2>1, TxAssumption
  <2>3. orders' = orders /\ jobs' = jobs /\ drones' = [drones EXCEPT ![d] = buf[p][d]]
    BY <1>1, <2>2, OneDrone, NoneWritten
  <2>4. Atomic!BreakFree(d)
    BY <1>2, <1>3, <2>3
       DEF Atomic!BreakFree, Atomic!CanHandleBroken, Atomic!CanBreak, Atomic!MarkBroken, CanBreak, MarkBroken
  <2> QED
    BY <1>1, <2>4 DEF Atomic!Next, Atomic!HandleDroneBroken
<1>4. CASE o # Nil
  <2>1. TakenFrom(p, d, o) /\ o \in OrderID
    BY <1>1, <1>2, <1>4 DEF BrokenPhase, TablesOK, DroneRow
  <2>2. /\ CanAwaitHandoff(orders[o]) /\ buf[p][o] = AwaitHandoff(orders[o]) /\ js # {}
        /\ \A j \in js : buf[p][j] = CancelJob(jobs[j])
    BY <2>1 DEF TakenFrom, CancelledHere
  <2>3. PICK new \in JobID : /\ DOMAIN buf[p] = {d, o, new} \cup js
                             /\ jobs[new].status = "ABSENT" /\ buf[p][new] = NewJob(o)
    BY <2>1 DEF TakenFrom
  <2>4. DOMAIN buf[p] \cap OrderID = {o} /\ DOMAIN buf[p] \cap DroneID = {d}
    BY <1>1, <2>1, <2>3, TxAssumption DEF JobsToCancel
  <2>5. /\ orders' = [orders EXCEPT ![o] = buf[p][o]]
        /\ drones' = [drones EXCEPT ![d] = buf[p][d]]
    BY <1>1, <2>1, <2>4, OneOrder, OneDrone
  <2>6. jobs' = [CancelByOrderID(jobs, o) EXCEPT ![new] = NewJob(o)]
    <3>1. \A j \in JobID : j \in DOMAIN buf[p] <=> j = new \/ j \in js
      BY <1>1, <2>1, <2>3, TxAssumption
    <3>2. \A j \in JobID : j \in js <=> CanCancelJob(jobs[j], o)
      BY DEF JobsToCancel
    <3>3. new \notin js
      BY <2>1, <2>3, <3>2, NilAssumption DEF CanCancelJob, IInv, JobsHaveOrders
    <3>4. /\ DOMAIN jobs = JobID /\ jobs' = Written(p, jobs)
      BY <1>1 DEF TablesOK, Writes
    <3>5. \A j \in JobID :
            jobs'[j] = IF j = new THEN NewJob(o)
                       ELSE IF CanCancelJob(jobs[j], o) THEN CancelJob(jobs[j]) ELSE jobs[j]
      BY <2>2, <2>3, <3>1, <3>2, <3>3, <3>4 DEF Written
    <3>6. jobs' = [j \in JobID |-> jobs'[j]]
      BY <3>4 DEF Written
    <3> QED
      BY <3>4, <3>5, <3>6 DEF CancelByOrderID
  <2>7. \E j \in JobID : CanCancelJob(jobs[j], o)
    BY <2>2 DEF JobsToCancel
  <2> HIDE DEF js
  <2>8. Atomic!BreakCarrying(d, new)
    BY <1>2, <1>4, <2>2, <2>3, <2>5, <2>6, <2>7
       DEF Atomic!BreakCarrying, Atomic!CanHandleBroken, Atomic!CanBreak, Atomic!MarkBroken,
           Atomic!CanAwaitHandoff, Atomic!AwaitHandoff, Atomic!CanCancelJob, Atomic!CancelByOrderID,
           Atomic!CancelJob, Atomic!NewJob, CanBreak, MarkBroken, CanAwaitHandoff, AwaitHandoff,
           CanCancelJob, CancelByOrderID, CancelJob, NewJob
  <2> QED
    BY <1>1, <2>8 DEF Atomic!Next, Atomic!HandleDroneBroken
<1> QED
  BY <1>3, <1>4

(* The writes without a transaction: the Upsert registers a drone, the     *)
(* save of a heartbeat changes nothing, a repair and an update by an       *)
(* administrator are steps of Delivery.                                    *)
LEMMA UnlockedRefines ==
  ASSUME IInv, Exact, NEW p \in Req, pc[p] \in {"save_link", "beat_insert"}, Writes(p)
  PROVE  [Atomic!Next]_Atomic!vars
<1> DEFINE d == req[p].drone
           o == req[p].order
<1>1. Phase(p) /\ req[p].kind \in UnlockedKinds /\ TablesOK
  BY KindOf DEF IInv, Phases, UnlockedKinds
<1>2. CASE req[p].kind = "BEAT"
  <2>1. d \in DroneID /\ DOMAIN buf[p] = {d}
    BY <1>1, <1>2, AskedFor DEF IInv, Phase, BeatPhase
  <2>2. /\ DOMAIN buf[p] \cap OrderID = {} /\ DOMAIN buf[p] \cap JobID = {}
        /\ DOMAIN buf[p] \cap DroneID = {d}
    BY <2>1, TxAssumption
  <2>3. orders' = orders /\ jobs' = jobs /\ drones' = [drones EXCEPT ![d] = buf[p][d]]
    BY <1>1, <2>1, <2>2, OneDrone, NoneWritten
  <2>4. CASE pc[p] = "save_link"
    <3>1. buf[p][d] = drones[d]
      BY <1>2, <2>4 DEF Exact, ExactOf, BeatExact
    <3>2. drones' = drones
      BY <1>1, <2>1, <2>3, <3>1 DEF TablesOK
    <3> QED
      BY <2>3, <3>2 DEF Atomic!vars
  <2>5. CASE pc[p] = "beat_insert"
    <3>1. drones[d].status = "ABSENT" /\ buf[p][d] = NewDrone
      BY <1>2, <2>5 DEF Exact, ExactOf, BeatExact
    <3>2. Atomic!Heartbeat(d)
      BY <2>3, <3>1 DEF Atomic!Heartbeat, Atomic!NewDrone, NewDrone
    <3> QED
      BY <2>1, <3>2 DEF Atomic!Next
  <2> QED
    BY <2>4, <2>5
<1>3. CASE req[p].kind = "FIXED"
  <2>1. d \in DroneID /\ DOMAIN buf[p] = {d} /\ pc[p] = "save_link"
    BY <1>1, <1>3, AskedFor DEF IInv, Phase, FixedPhase, WritingBack
  <2>2. /\ DOMAIN buf[p] \cap OrderID = {} /\ DOMAIN buf[p] \cap JobID = {}
        /\ DOMAIN buf[p] \cap DroneID = {d}
    BY <2>1, TxAssumption
  <2>3. orders' = orders /\ jobs' = jobs /\ drones' = [drones EXCEPT ![d] = buf[p][d]]
    BY <1>1, <2>1, <2>2, OneDrone, NoneWritten
  <2>4. CanFix(drones[d]) /\ buf[p][d] = MarkFixed(drones[d])
    BY <1>3, <2>1 DEF Exact, ExactOf, FixedExact
  <2>5. Atomic!MarkDroneFixed(d)
    BY <2>3, <2>4 DEF Atomic!MarkDroneFixed, Atomic!CanFix, Atomic!MarkFixed, CanFix, MarkFixed
  <2> QED
    BY <2>1, <2>5 DEF Atomic!Next
<1>4. CASE req[p].kind = "ADMIN"
  <2>1. o \in OrderID /\ req[p].arg \in Route \cup {Nil} /\ DOMAIN buf[p] = {o} /\ pc[p] = "save_link"
    BY <1>1, <1>4, AskedFor DEF IInv, Phase, AdminPhase, WritingBack
  <2>2. /\ DOMAIN buf[p] \cap OrderID = {o} /\ DOMAIN buf[p] \cap JobID = {}
        /\ DOMAIN buf[p] \cap DroneID = {}
    BY <2>1, TxAssumption
  <2>3. orders' = [orders EXCEPT ![o] = buf[p][o]] /\ jobs' = jobs /\ drones' = drones
    BY <1>1, <2>1, <2>2, OneOrder, NoneWritten
  <2>4. CanReroute(orders[o], req[p].arg) /\ buf[p][o] = Reroute(orders[o], req[p].arg)
    BY <1>4, <2>1 DEF Exact, ExactOf, AdminExact
  <2>5. Atomic!AdminUpdateOrder(o, req[p].arg)
    BY <2>3, <2>4 DEF Atomic!AdminUpdateOrder, Atomic!CanReroute, Atomic!Reroute, Atomic!IsTerminal,
         CanReroute, Reroute, IsTerminal
  <2> QED
    BY <2>1, <2>5 DEF Atomic!Next
<1> QED
  BY <1>1, <1>2, <1>3, <1>4 DEF UnlockedKinds

(* No other step changes a table.                                          *)
LEMMA WhoWrites ==
  ASSUME IInv, [Next]_vars
  PROVE  \/ UNCHANGED tables
         \/ \E p \in Req : Writes(p) /\ pc[p] \in {"commit", "save_link", "beat_insert"}
<1>1. ASSUME NEW p \in Req, Start(p) \/ Step(p) \/ Abort(p) \/ DeadlockVictim(p)
      PROVE  UNCHANGED tables \/ Commit(p) \/ BeatInsert(p)
  BY <1>1 DEF Start, Step, Abort, DeadlockVictim, Rollback, Statement, Read, CreateOrderAndJob,
       OutOfIdentifiers, CancelOrder1, CancelJobs2, ReserveJob1, ReserveLink2, ReserveOrder3,
       ReserveDrone4, GrabOrder1, GrabDrone2, CompleteOrder1, CompleteDrone2, CompleteJob3,
       BrokenDrone1, BrokenOrder2, BrokenJobs3, BeatRead, FixedRead, AdminRead, Save, tables
<1>2. \A p \in Req : Commit(p) => Writes(p) /\ pc[p] \in {"commit", "save_link"}
  BY DEF Commit, Writes
<1> QED
  BY <1>1, <1>2, BeatInsertWrites DEF Next, vars, tables

(* The transactions of internal/delivery, however they interleave and are  *)
(* interrupted, change the tables as the indivisible steps of Delivery do; *)
(* so do heartbeats, repairs and admin updates as long as each has its row *)
(* to itself.                                                              *)
THEOREM TransactionsRefineDelivery == ASSUME NoneStale PROVE Spec => Refines
<1>1. Init => Atomic!Init
  BY DEF Init, Atomic!Init, Atomic!NoOrder, Atomic!NoDrone, Atomic!NewDrone, Atomic!NoJob,
       NoOrder, NoDrone, NewDrone, NoJob
<1>2. ASSUME IInv, OneLiveJob, Sole, [Next]_vars PROVE [Atomic!Next]_Atomic!vars
  <2>1. CASE UNCHANGED tables
    BY <2>1 DEF tables, Atomic!vars
  <2>2. ASSUME NEW p \in Req, Writes(p), pc[p] = "commit" PROVE Atomic!Next
    <3>1. req[p].kind \in TxKinds
      BY <1>2, <2>2, KindOf DEF IInv, Phases
    <3> QED
      BY <1>2, <2>2, <3>1, CreateRefines, CancelRefines, ReserveRefines, GrabRefines, CompleteRefines,
         BrokenRefines DEF TxKinds
  <2>3. ASSUME NEW p \in Req, Writes(p), pc[p] \in {"save_link", "beat_insert"}
        PROVE  [Atomic!Next]_Atomic!vars
    BY <1>2, <2>3, UnlockedRefines DEF Sole
  <2> QED
    BY <1>2, <2>1, <2>2, <2>3, WhoWrites
<1> QED
  BY AlwaysIInv, NoOrderOfferedTwice, AlwaysSole, <1>1, <1>2, PTL DEF Spec, Refines, Atomic!Spec

-----------------------------------------------------------------------------
(* What the transactions therefore have in common with Delivery.           *)

P == INSTANCE CustodyProofs

(* Orders, drones and jobs tell the same. *)
TablesAgree ==
  /\ Atomic!Mirror /\ Atomic!DroneFollowsOrder /\ Atomic!CarrierBound
  /\ Atomic!OneLiveJob /\ Atomic!JobFollowsOrder /\ Atomic!OrderHasJob

(* Atomic and P are the same module twice. *)
LEMMA SameInit == Atomic!Init <=> P!Init
BY DEF Atomic!Init, P!Init, Atomic!NoOrder, P!NoOrder, Atomic!NoDrone, P!NoDrone, Atomic!NewDrone,
       P!NewDrone, Atomic!NoJob, P!NoJob

LEMMA SameNext == Atomic!Next => P!Next
<1>1. \A r, o, j : Atomic!CreateOrderAndJob(r, o, j) <=> P!CreateOrderAndJob(r, o, j)
  BY DEF Atomic!CreateOrderAndJob, P!CreateOrderAndJob, Atomic!NewOrder, P!NewOrder,
        Atomic!NewJob, P!NewJob
<1>2. \A o : Atomic!CancelOrderAndJob(o) <=> P!CancelOrderAndJob(o)
  BY DEF Atomic!CancelOrderAndJob, P!CancelOrderAndJob, Atomic!CanCancelOrder,
        P!CanCancelOrder, Atomic!CancelOrder, P!CancelOrder, Atomic!CanCancelJob,
        P!CanCancelJob, Atomic!CancelByOrderID, P!CancelByOrderID, Atomic!CancelJob,
        P!CancelJob
<1>3. \A j, d : Atomic!ReserveJobAndAssign(j, d) <=> P!ReserveJobAndAssign(j, d)
  BY DEF Atomic!ReserveJobAndAssign, P!ReserveJobAndAssign, Atomic!CanReserve,
        P!CanReserve, Atomic!CanReserveJob, P!CanReserveJob, Atomic!CanAssign,
        P!CanAssign, Atomic!CanReserveDrone, P!CanReserveDrone, Atomic!ReserveJob,
        P!ReserveJob, Atomic!Assign, P!Assign, Atomic!ReserveDrone, P!ReserveDrone
<1>4. \A o, d : Atomic!GrabOrder(o, d) <=> P!GrabOrder(o, d)
  BY DEF Atomic!GrabOrder, P!GrabOrder, Atomic!CanPickUp, P!CanPickUp,
        Atomic!CanStartDelivery, P!CanStartDelivery, Atomic!MarkPickedUp,
        P!MarkPickedUp, Atomic!StartDelivery, P!StartDelivery
<1>5. \A o, d, s : Atomic!CompleteDelivery(o, d, s) <=> P!CompleteDelivery(o, d, s)
  BY DEF Atomic!CompleteDelivery, P!CompleteDelivery, Atomic!CanFinish, P!CanFinish,
        Atomic!IsJobOf, P!IsJobOf, Atomic!CanCompleteJob, P!CanCompleteJob,
        Atomic!CompleteJob, P!CompleteJob, Atomic!MarkFinished, P!MarkFinished,
        Atomic!GoIdle, P!GoIdle
<1>6. \A d : Atomic!HandleDroneBroken(d) <=> P!HandleDroneBroken(d)
  BY DEF Atomic!HandleDroneBroken, P!HandleDroneBroken, Atomic!BreakFree, P!BreakFree,
        Atomic!BreakCarrying, P!BreakCarrying, Atomic!CanHandleBroken,
        P!CanHandleBroken, Atomic!CanBreak, P!CanBreak, Atomic!CanAwaitHandoff,
        P!CanAwaitHandoff, Atomic!CanCancelJob, P!CanCancelJob, Atomic!MarkBroken,
        P!MarkBroken, Atomic!AwaitHandoff, P!AwaitHandoff, Atomic!NewJob, P!NewJob,
        Atomic!CancelByOrderID, P!CancelByOrderID, Atomic!CancelJob, P!CancelJob
<1>7. \A d : Atomic!MarkDroneFixed(d) <=> P!MarkDroneFixed(d)
  BY DEF Atomic!MarkDroneFixed, P!MarkDroneFixed, Atomic!CanFix, P!CanFix, Atomic!MarkFixed,
        P!MarkFixed
<1>8. \A o, r : Atomic!AdminUpdateOrder(o, r) <=> P!AdminUpdateOrder(o, r)
  BY DEF Atomic!AdminUpdateOrder, P!AdminUpdateOrder, Atomic!CanReroute, P!CanReroute,
        Atomic!IsTerminal, P!IsTerminal, Atomic!Reroute, P!Reroute
<1>9. \A d : Atomic!Heartbeat(d) <=> P!Heartbeat(d)
  BY DEF Atomic!Heartbeat, P!Heartbeat, Atomic!NewDrone, P!NewDrone
<1> QED
  BY <1>1, <1>2, <1>3, <1>4, <1>5, <1>6, <1>7, <1>8, <1>9 DEF Atomic!Next, P!Next

(* The committed tables keep the invariant of Delivery. *)
LEMMA DeliveryGoesOn == ASSUME NoneStale PROVE Spec => P!Init /\ [][P!Next]_(P!vars) /\ []P!IInv
<1>1. [Atomic!Next]_Atomic!vars => [P!Next]_(P!vars)
  BY SameNext DEF Atomic!vars, P!vars
<1>2. P!Init => P!IInv
  BY P!InitIInv, NilAssumption
<1>3. P!IInv /\ [P!Next]_(P!vars) => P!IInv'
  BY P!StepIInv, NilAssumption
<1> QED
  BY TransactionsRefineDelivery, SameInit, <1>1, <1>2, <1>3, PTL DEF Refines, Atomic!Spec

(* In every committed state orders, drones and jobs agree, whatever        *)
(* transactions are half-way and wherever they are interrupted.            *)
THEOREM TablesAlwaysAgree == ASSUME NoneStale PROVE Spec => []TablesAgree
<1>1. P!IInv => TablesAgree
  BY DEF P!IInv, P!Linked, P!Offered, TablesAgree, Atomic!Mirror, P!Mirror,
        Atomic!DroneFollowsOrder, P!DroneFollowsOrder, Atomic!CarrierBound, P!CarrierBound,
        Atomic!OneLiveJob, P!OneLiveJob, Atomic!JobFollowsOrder, P!JobFollowsOrder,
        Atomic!OrderHasJob, P!OrderHasJob, Atomic!IsJobOf, P!IsJobOf
<1> QED
  BY DeliveryGoesOn, <1>1, PTL

(* Both modules read the custody of an order off the tables in one way. *)
LEMMA SameCustody ==
  /\ P!Promise!Init => Atomic!Promise!Init
  /\ [P!Promise!Next]_(P!Promise!vars) => [Atomic!Promise!Next]_(Atomic!Promise!vars)
<1>1. \A o \in OrderID : Atomic!Place(o) = P!Place(o) /\ Atomic!Carrier(o) = P!Carrier(o)
  BY DEF Atomic!Place, P!Place, Atomic!Carrier, P!Carrier, Atomic!HasJob, P!HasJob
<1>2. \A o \in OrderID : Atomic!Place(o)' = P!Place(o)' /\ Atomic!Carrier(o)' = P!Carrier(o)'
  BY DEF Atomic!Place, P!Place, Atomic!Carrier, P!Carrier, Atomic!HasJob, P!HasJob
<1>3. /\ [o \in OrderID |-> Atomic!Place(o)] = [o \in OrderID |-> P!Place(o)]
      /\ [o \in OrderID |-> Atomic!Carrier(o)] = [o \in OrderID |-> P!Carrier(o)]
      /\ [o \in OrderID |-> Atomic!Place(o)]' = [o \in OrderID |-> P!Place(o)]'
      /\ [o \in OrderID |-> Atomic!Carrier(o)]' = [o \in OrderID |-> P!Carrier(o)]'
  BY <1>1, <1>2
<1>4. P!Promise!Init => Atomic!Promise!Init
  BY <1>3 DEF Atomic!Promise!Init, P!Promise!Init
<1>5. \A o, from, to, d : P!Promise!Move(o, from, to, d) => Atomic!Promise!Move(o, from, to, d)
  BY <1>3 DEF Atomic!Promise!Move, P!Promise!Move
<1>6. \A o, d : P!Promise!Take(o, d) => Atomic!Promise!Take(o, d)
  BY <1>3, <1>5 DEF Atomic!Promise!Take, P!Promise!Take
<1>7. P!Promise!Next => Atomic!Promise!Next
  BY <1>5, <1>6 DEF Atomic!Promise!Next, P!Promise!Next, Atomic!Promise!Offer, P!Promise!Offer,
       Atomic!Promise!HandBack, P!Promise!HandBack, Atomic!Promise!Finish, P!Promise!Finish,
       Atomic!Promise!Withdraw, P!Promise!Withdraw
<1> QED
  BY <1>3, <1>4, <1>7 DEF Atomic!Promise!vars, P!Promise!vars

(* The statements of concurrent transactions keep the promise of Custody:  *)
(* every order is offered, in the hands of one drone, or done with, and    *)
(* goes from drone to drone only through another offer.                    *)
THEOREM TransactionsKeepCustody == ASSUME NoneStale PROVE Spec => Atomic!ImplementsCustody
<1>1. P!Init => Atomic!Promise!Init
  BY P!CustodyInit, SameCustody, NilAssumption
<1>2. P!IInv /\ P!IInv' /\ [P!Next]_(P!vars) => [Atomic!Promise!Next]_(Atomic!Promise!vars)
  BY P!CustodyStep, SameCustody, NilAssumption
<1> QED
  BY DeliveryGoesOn, <1>1, <1>2, PTL DEF Atomic!ImplementsCustody, Atomic!Promise!Spec

(* Nor do interleavings and crashes undo what is finished, separate a      *)
(* drone from an order that goes on, or credit the wrong drone.            *)
THEOREM TransactionsKeepHistory ==
  ASSUME NoneStale
  PROVE  Spec => /\ Atomic!FinishedOrdersFrozen /\ Atomic!ReleasedTogether
                 /\ Atomic!CreditedToCarrier
<1>1. Spec => P!Spec
  BY DeliveryGoesOn, PTL DEF P!Spec
<1>2. P!Spec => P!FinishedOrdersFrozen
  BY P!FinishedStayFrozen, NilAssumption
<1>3. P!Spec => P!ReleasedTogether
  BY P!AlwaysReleasedTogether, NilAssumption
<1>4. P!Spec => P!CreditedToCarrier
  BY P!AlwaysCredited, NilAssumption
<1>5. P!FinishedOrdersFrozen => Atomic!FinishedOrdersFrozen
  BY PTL DEF P!FinishedOrdersFrozen, Atomic!FinishedOrdersFrozen, P!vars, Atomic!vars
<1>6. P!ReleasedTogether => Atomic!ReleasedTogether
  BY PTL DEF P!ReleasedTogether, Atomic!ReleasedTogether, P!vars, Atomic!vars
<1>7. P!CreditedToCarrier => Atomic!CreditedToCarrier
  BY PTL DEF P!CreditedToCarrier, Atomic!CreditedToCarrier, P!vars, Atomic!vars
<1> QED
  BY <1>1, <1>2, <1>3, <1>4, <1>5, <1>6, <1>7, PTL
=============================================================================
