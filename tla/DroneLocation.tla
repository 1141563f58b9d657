---------------------------- MODULE DroneLocation ----------------------------
(***************************************************************************)
(* Where a drone is: in its row, written by heartbeats, and in a cache     *)
(* with a time to live, written by heartbeats and, on a miss, by readers.  *)
(* Order details show the place of the order's drone.  No request locks    *)
(* anything, and none knows of the others.                                 *)
(*                                                                         *)
(* A place is the number of the report it came with; 0 stands for the      *)
(* (0,0) of a row that was just inserted.  The status of a drone is        *)
(* DeliveryTx's matter: here repairs and reservations come at any time.    *)
(***************************************************************************)
EXTENDS Naturals

CONSTANTS
  DroneID, Req, Nil,
  TTL,         \* ticks an entry of the cache lives
  Delay,       \* ticks a request takes at most
  MaxReports   \* bound of the model: heartbeats per drone

ASSUME LocationAssumption ==
  TTL \in Nat \ {0} /\ Delay \in Nat \ {0} /\ MaxReports \in Nat

VARIABLES
  row,      \* row[d]: the place in the row of d; Nil: d has no row
  cache,    \* cache[d]: a place (Nil: none) and the ticks it has left
  carrier,  \* the assigned drone of the order, or Nil
  pc,       \* pc[p]: the next step of request p
  req,      \* req[p]: its kind, its drone and the place it carries along
  elapsed,  \* elapsed[p]: ticks since it began
  reports,  \* reports[d]: heartbeats d has sent
  age,      \* history: age[d][x], ticks since x was the place in the row of d
  gone      \* history: gone[d], ticks since d was the carrier

vars == <<row, cache, carrier, pc, req, elapsed, reports, age, gone>>

Places == 0..MaxReports

NoEntry == [place |-> Nil, left |-> 0]
NoReq   == [kind |-> "NONE", drone |-> Nil, place |-> Nil]

(* The ages told apart: the last stands for all that are greater. *)
Old == TTL + 2 * Delay

Older(n, limit) == IF n < limit THEN n + 1 ELSE limit

Init ==
  /\ row = [d \in DroneID |-> Nil]
  /\ cache = [d \in DroneID |-> NoEntry]
  /\ carrier = Nil
  /\ pc = [p \in Req |-> "idle"]
  /\ req = [p \in Req |-> NoReq]
  /\ elapsed = [p \in Req |-> 0]
  /\ reports = [d \in DroneID |-> 0]
  /\ age = [d \in DroneID |-> [x \in Places |-> Old]]
  /\ gone = [d \in DroneID |-> Delay + 1]

-----------------------------------------------------------------------------
Begin(p, first, q) ==
  /\ pc[p] = "idle"
  /\ pc' = [pc EXCEPT ![p] = first]
  /\ req' = [req EXCEPT ![p] = q]
  /\ elapsed' = [elapsed EXCEPT ![p] = 0]

Go(p, this, next) ==
  /\ pc[p] = this
  /\ pc' = [pc EXCEPT ![p] = next]
  /\ UNCHANGED elapsed

End(p) ==
  /\ pc' = [pc EXCEPT ![p] = "idle"]
  /\ req' = [req EXCEPT ![p] = NoReq]
  /\ elapsed' = [elapsed EXCEPT ![p] = 0]

(* UPDATE or INSERT of the row of d. *)
WriteRow(d, x) ==
  /\ row' = [row EXCEPT ![d] = x]
  /\ age' = [age EXCEPT ![d][x] = 0]

(* Mutant: the entry lives a tick too long. *)
WriteCacheLonger(d, x) ==
  cache' = [cache EXCEPT ![d] = [place |-> x, left |-> TTL + 1]]

WriteCache(d, x) == cache' = [cache EXCEPT ![d] = [place |-> x, left |-> TTL]]

-----------------------------------------------------------------------------
(* Heartbeat. *)

Report(p, d) ==
  /\ reports[d] < MaxReports
  /\ reports' = [reports EXCEPT ![d] = @ + 1]
  /\ Begin(p, "exists", [kind |-> "BEAT", drone |-> d, place |-> reports[d] + 1])
  /\ UNCHANGED <<row, cache, carrier, age, gone>>

(* EnsureExists takes a read that fails for a missing row. *)
EnsureExists(p) ==
  /\ \/ Go(p, "exists", "insert")
     \/ Go(p, "exists", "update") /\ row[req[p].drone] # Nil
  /\ UNCHANGED <<row, cache, carrier, req, reports, age, gone>>

(* The Upsert, over whatever is there. *)
Insert(p) ==
  /\ Go(p, "insert", "update")
  /\ WriteRow(req[p].drone, 0)
  /\ UNCHANGED <<cache, carrier, req, reports, gone>>

(* Mutant: the cache is written before the row. *)
UpdateCacheFirst(p) ==
  /\ Go(p, "update", "cache")
  /\ WriteCache(req[p].drone, req[p].place)
  /\ UNCHANGED <<row, carrier, req, reports, age, gone>>

Update(p) ==
  /\ Go(p, "update", "cache")
  /\ WriteRow(req[p].drone, req[p].place)
  /\ UNCHANGED <<cache, carrier, req, reports, gone>>

Publish(p) ==
  /\ pc[p] = "cache"
  /\ WriteCache(req[p].drone, req[p].place)
  /\ End(p)
  /\ UNCHANGED <<row, carrier, reports, age, gone>>

-----------------------------------------------------------------------------
(* MarkDroneFixed reads the row, and writes all of it back. *)

FixedRead(p, d) ==
  /\ row[d] # Nil
  /\ Begin(p, "save", [kind |-> "FIXED", drone |-> d, place |-> row[d]])
  /\ UNCHANGED <<row, cache, carrier, reports, age, gone>>

FixedSave(p) ==
  /\ pc[p] = "save"
  /\ WriteRow(req[p].drone, req[p].place)
  /\ End(p)
  /\ UNCHANGED <<cache, carrier, reports, gone>>

-----------------------------------------------------------------------------
(* GetOrderDetails, for an order that has a drone. *)

Details(p) ==
  /\ carrier # Nil
  /\ Begin(p, "lookup", [kind |-> "DETAILS", drone |-> carrier, place |-> Nil])
  /\ UNCHANGED <<row, cache, carrier, reports, age, gone>>

(* Mutant: a hit renews the time to live. *)
CacheHitRenews(p) ==
  LET d == req[p].drone IN
  /\ Go(p, "lookup", "answer")
  /\ cache[d] # NoEntry
  /\ req' = [req EXCEPT ![p].place = cache[d].place]
  /\ WriteCache(d, cache[d].place)
  /\ UNCHANGED <<row, carrier, reports, age, gone>>

CacheHit(p) ==
  LET d == req[p].drone IN
  /\ Go(p, "lookup", "answer")
  /\ cache[d] # NoEntry
  /\ req' = [req EXCEPT ![p].place = cache[d].place]
  /\ UNCHANGED <<row, cache, carrier, reports, age, gone>>

(* A cache that does not answer is read as one that has no entry. *)
CacheMiss(p) ==
  LET d == req[p].drone IN
  /\ Go(p, "lookup", "fill")
  /\ row[d] # Nil
  /\ req' = [req EXCEPT ![p].place = row[d]]
  /\ UNCHANGED <<row, cache, carrier, reports, age, gone>>

Fill(p) ==
  /\ Go(p, "fill", "answer")
  /\ WriteCache(req[p].drone, req[p].place)
  /\ UNCHANGED <<row, carrier, req, reports, age, gone>>

Answer(p) ==
  /\ pc[p] = "answer"
  /\ End(p)
  /\ UNCHANGED <<row, cache, carrier, reports, age, gone>>

-----------------------------------------------------------------------------
(* A statement or a cache write fails, or the client or the server goes    *)
(* away: what is written stays.  Heartbeats answer 500, details come       *)
(* without a place.                                                        *)
Fail(p) ==
  /\ pc[p] # "idle"
  /\ End(p)
  /\ UNCHANGED <<row, cache, carrier, reports, age, gone>>

(* The workflows give the order a drone, or take it from it. *)
Carry(d) ==
  /\ carrier = Nil /\ row[d] # Nil
  /\ carrier' = d
  /\ gone' = [gone EXCEPT ![d] = 0]
  /\ UNCHANGED <<row, cache, pc, req, elapsed, reports, age>>

Release ==
  /\ carrier # Nil
  /\ carrier' = Nil
  /\ UNCHANGED <<row, cache, pc, req, elapsed, reports, age, gone>>

Tick ==
  /\ \A p \in Req : pc[p] # "idle" => elapsed[p] < Delay
  /\ elapsed' = [p \in Req |-> IF pc[p] = "idle" THEN 0 ELSE elapsed[p] + 1]
  /\ cache' = [d \in DroneID |->
                 IF cache[d].left <= 1 THEN NoEntry ELSE [cache[d] EXCEPT !.left = @ - 1]]
  /\ age' = [d \in DroneID |-> [x \in Places |->
               IF row[d] = x THEN 0 ELSE Older(age[d][x], Old)]]
  /\ gone' = [d \in DroneID |-> IF carrier = d THEN 0 ELSE Older(gone[d], Delay + 1)]
  /\ UNCHANGED <<row, carrier, pc, req, reports>>

-----------------------------------------------------------------------------
Step(p) ==
  \/ EnsureExists(p) \/ Insert(p) \/ Update(p) \/ Publish(p)
  \/ FixedSave(p)
  \/ CacheHit(p) \/ CacheMiss(p) \/ Fill(p) \/ Answer(p)
  \/ Fail(p)

Next ==
  \/ \E p \in Req :
       \/ \E d \in DroneID : Report(p, d) \/ FixedRead(p, d)
       \/ Details(p)
       \/ Step(p)
  \/ \E d \in DroneID : Carry(d)
  \/ Release
  \/ Tick

Spec == Init /\ [][Next]_vars

(* Requests come to an end, and time passes. *)
LiveSpec == Spec /\ WF_vars(Tick) /\ \A p \in Req : WF_vars(Step(p))

-----------------------------------------------------------------------------
TypeOK ==
  /\ row \in [DroneID -> Places \cup {Nil}]
  /\ cache \in [DroneID -> {NoEntry} \cup [place: Places, left: 1..TTL]]
  /\ carrier \in DroneID \cup {Nil}
  /\ pc \in [Req -> {"idle", "exists", "insert", "update", "cache", "save",
                     "lookup", "fill", "answer"}]
  /\ req \in [Req -> [kind: {"NONE", "BEAT", "FIXED", "DETAILS"},
                      drone: DroneID \cup {Nil}, place: Places \cup {Nil}]]
  /\ \A p \in Req : pc[p] = "idle" <=> req[p] = NoReq
  /\ elapsed \in [Req -> 0..Delay]
  /\ reports \in [DroneID -> Places]
  /\ age \in [DroneID -> [Places -> 0..Old]]
  /\ gone \in [DroneID -> 0..Delay + 1]

(* Readers that fill the cache late, heartbeats that overtake each other,  *)
(* writes that fail: whatever the cache holds was in the row less than a   *)
(* time to live and the duration of one request ago.                       *)
CacheBoundedStale ==
  \A d \in DroneID : cache[d] # NoEntry => age[d][cache[d].place] < TTL + Delay

(* Order details put together an order, read first, and a place, read      *)
(* later: it is the place of a drone that carried the order while they     *)
(* were put together, and no staler than the cache allows.                 *)
DetailsCoherent ==
  \A p \in Req : pc[p] = "answer" =>
    /\ gone[req[p].drone] <= Delay
    /\ age[req[p].drone][req[p].place] < TTL + 2 * Delay

(* Once a drone is silent and its repairs are over, the cache agrees with  *)
(* the row, or is empty, for ever: no reader keeps an old place alive.     *)
Agreed == \A d \in DroneID : cache[d] # NoEntry => cache[d].place = row[d]
Quiet  == \A p \in Req : req[p].kind \notin {"BEAT", "FIXED"}

Settles == <>[]Quiet => <>[]Agreed
=============================================================================
