------------------------- MODULE DroneLocationProofs -------------------------
(***************************************************************************)
(* The place of a drone, for any number of drones and requests, any time   *)
(* to live and any duration of a request.                                  *)
(***************************************************************************)
EXTENDS DroneLocation, TLAPS

Steps == {"idle", "exists", "insert", "update", "cache", "save", "lookup", "fill", "answer"}
Kinds == {"NONE", "BEAT", "FIXED", "DETAILS"}

Beating == {"exists", "insert", "update", "cache"}
Showing == {"lookup", "fill", "answer"}

(* The types: of the requests, and of the rest.                            *)
RequestsOK ==
  /\ pc \in [Req -> Steps]
  /\ req \in [Req -> [kind: Kinds, drone: DroneID \cup {Nil}, place: Places \cup {Nil}]]
  /\ \A p \in Req : IF pc[p] = "idle" THEN req[p] = NoReq ELSE req[p].kind # "NONE"
  /\ elapsed \in [Req -> 0..Delay]

TablesOK ==
  /\ row \in [DroneID -> Places \cup {Nil}]
  /\ cache \in [DroneID -> {NoEntry} \cup [place: Places, left: 1..TTL]]
  /\ carrier \in DroneID \cup {Nil}
  /\ reports \in [DroneID -> Places]
  /\ age \in [DroneID -> [Places -> 0..Old]]
  /\ gone \in [DroneID -> 0..Delay + 1]

(* What a request carries along is there when it uses it. *)
Carries ==
  /\ \A p \in Req : pc[p] # "idle" => req[p].drone \in DroneID
  /\ \A p \in Req : pc[p] \in Beating \cup {"save", "fill", "answer"} => req[p].place \in Places

(* The place in the row is of now.                                         *)
RowCurrent == \A d \in DroneID : row[d] # Nil => age[d][row[d]] = 0

(* An entry loses of its time to live what its place gains in age; it was  *)
(* at most one request old when it was written.                            *)
CacheAges ==
  \A d \in DroneID : cache[d] # NoEntry => age[d][cache[d].place] + cache[d].left <= Delay + TTL

(* A place that was taken from the row, or put there, is no older than the *)
(* request that carries it; one from the cache was at most as stale as the *)
(* cache allows when it was taken.                                         *)
PlacesAge ==
  \A p \in Req :
    /\ pc[p] \in {"cache", "fill"} => age[req[p].drone][req[p].place] <= elapsed[p]
    /\ pc[p] = "answer" =>
         age[req[p].drone][req[p].place] <= TTL + Delay - 1 + elapsed[p]

(* The drone whose place is shown was the carrier when the request began.  *)
CarrierAges ==
  /\ carrier # Nil => gone[carrier] = 0
  /\ \A p \in Req : pc[p] \in Showing => gone[req[p].drone] <= elapsed[p]

IInv ==
  RequestsOK /\ TablesOK /\ Carries /\ RowCurrent /\ CacheAges /\ PlacesAge /\ CarrierAges

LEMMA TypeParts == RequestsOK /\ TablesOK => TypeOK
BY DEF TypeOK, RequestsOK, TablesOK, Steps, Kinds, NoReq

LEMMA InitIInv == Init => IInv
<1> SUFFICES ASSUME Init PROVE IInv
  OBVIOUS
<1>1. Nil \in DroneID \cup {Nil} /\ 0 \in Places /\ Old \in Nat
  BY LocationAssumption DEF Places, Old
<1>2. RequestsOK
  BY <1>1, LocationAssumption DEF Init, RequestsOK, Steps, Kinds, NoReq
<1>3. TablesOK
  BY <1>1, LocationAssumption DEF Init, TablesOK
<1>4. Carries /\ RowCurrent /\ CacheAges /\ PlacesAge /\ CarrierAges
  BY DEF Init, Carries, RowCurrent, CacheAges, PlacesAge, CarrierAges, Beating, Showing
<1> QED
  BY <1>2, <1>3, <1>4 DEF IInv

-----------------------------------------------------------------------------
(* The parts of a step. *)

(* Request p goes to step next and carries q; the others stay.             *)
Moves(p, next, q) ==
  /\ \A o \in Req : /\ pc'[o] = IF o = p THEN next ELSE pc[o]
                    /\ req'[o] = IF o = p THEN q ELSE req[o]
                    /\ o # p \/ (pc[p] # "idle" /\ next # "idle") => elapsed'[o] = elapsed[o]

LEMMA BeginMoves ==
  ASSUME RequestsOK, NEW p \in Req, NEW first \in Steps \ {"idle"},
         NEW kind \in Kinds \ {"NONE"}, NEW d \in DroneID, NEW x \in Places \cup {Nil},
         Begin(p, first, [kind |-> kind, drone |-> d, place |-> x])
  PROVE  RequestsOK' /\ pc[p] = "idle" /\ Moves(p, first, [kind |-> kind, drone |-> d, place |-> x])
<1> DEFINE q == [kind |-> kind, drone |-> d, place |-> x]
<1>1. q \in [kind: Kinds, drone: DroneID \cup {Nil}, place: Places \cup {Nil}] /\ q.kind # "NONE"
  OBVIOUS
<1>2. pc[p] = "idle" /\ pc' = [pc EXCEPT ![p] = first] /\ req' = [req EXCEPT ![p] = q]
      /\ elapsed' = [elapsed EXCEPT ![p] = 0]
  BY DEF Begin
<1> HIDE DEF q
<1>3. Moves(p, first, q)
  BY <1>2 DEF Moves, RequestsOK
<1>4. RequestsOK'
  BY <1>1, <1>2, LocationAssumption DEF RequestsOK
<1> QED
  BY <1>2, <1>3, <1>4 DEF q

LEMMA GoMoves ==
  ASSUME RequestsOK, NEW p \in Req, NEW this \in Steps \ {"idle"}, NEW next \in Steps \ {"idle"},
         Go(p, this, next), req' = req
  PROVE  RequestsOK' /\ pc[p] = this /\ Moves(p, next, req[p])
BY DEF Go, RequestsOK, Moves

LEMMA GoCarriesMoves ==
  ASSUME RequestsOK, NEW p \in Req, NEW this \in Steps \ {"idle"}, NEW next \in Steps \ {"idle"},
         Go(p, this, next), NEW x \in Places, req' = [req EXCEPT ![p].place = x]
  PROVE  RequestsOK' /\ pc[p] = this /\ Moves(p, next, [req[p] EXCEPT !.place = x])
<1>1. /\ req[p].kind # "NONE" /\ req[p] \in [kind: Kinds, drone: DroneID \cup {Nil}, place: Places \cup {Nil}]
      /\ req' = [req EXCEPT ![p] = [req[p] EXCEPT !.place = x]]
  BY DEF Go, RequestsOK
<1> DEFINE q == [req[p] EXCEPT !.place = x]
<1>2. q \in [kind: Kinds, drone: DroneID \cup {Nil}, place: Places \cup {Nil}] /\ q.kind # "NONE"
  BY <1>1
<1>3. req' = [req EXCEPT ![p] = q]
  BY <1>1
<1> HIDE DEF q
<1>4. RequestsOK' /\ pc[p] = this /\ Moves(p, next, q)
  BY <1>2, <1>3 DEF Go, RequestsOK, Moves
<1> QED
  BY <1>4 DEF q

LEMMA EndMoves ==
  ASSUME RequestsOK, NEW p \in Req, End(p)
  PROVE  RequestsOK' /\ Moves(p, "idle", NoReq)
<1>1. NoReq \in [kind: Kinds, drone: DroneID \cup {Nil}, place: Places \cup {Nil}]
  BY DEF NoReq, Kinds
<1> QED
  BY <1>1, LocationAssumption DEF End, RequestsOK, Moves, Steps

LEMMA WriteRowWrites ==
  ASSUME TablesOK, NEW d \in DroneID, NEW x \in Places, WriteRow(d, x)
  PROVE  /\ row' \in [DroneID -> Places \cup {Nil}] /\ age' \in [DroneID -> [Places -> 0..Old]]
         /\ \A e \in DroneID : row'[e] = IF e = d THEN x ELSE row[e]
         /\ \A e \in DroneID, y \in Places : age'[e][y] = IF e = d /\ y = x THEN 0 ELSE age[e][y]
<1>1. 0 \in 0..Old
  BY LocationAssumption DEF Old
<1> QED
  BY <1>1 DEF TablesOK, WriteRow

LEMMA WriteCacheWrites ==
  ASSUME TablesOK, NEW d \in DroneID, NEW x \in Places, WriteCache(d, x)
  PROVE  /\ cache' \in [DroneID -> {NoEntry} \cup [place: Places, left: 1..TTL]]
         /\ \A e \in DroneID : cache'[e] = IF e = d THEN [place |-> x, left |-> TTL] ELSE cache[e]
<1>1. TTL \in 1..TTL
  BY LocationAssumption
<1> QED
  BY <1>1 DEF TablesOK, WriteCache

(* What every step but Tick does to the ages: nothing becomes older.       *)
Younger ==
  /\ \A d \in DroneID, x \in Places : age'[d][x] <= age[d][x]
  /\ \A d \in DroneID : gone'[d] <= gone[d]

LEMMA Numbers ==
  ASSUME RequestsOK, TablesOK
  PROVE  /\ \A d \in DroneID, x \in Places : age[d][x] \in Nat
         /\ \A d \in DroneID : gone[d] \in Nat
         /\ \A p \in Req : elapsed[p] \in Nat /\ elapsed[p] <= Delay
         /\ \A d \in DroneID : cache[d] # NoEntry =>
              cache[d].place \in Places /\ cache[d].left \in 1..TTL
         /\ TTL \in Nat /\ TTL >= 1 /\ Delay \in Nat /\ Delay >= 1
BY LocationAssumption DEF RequestsOK, TablesOK, Old

(* Entries that stay, or are written with a place that is at most one      *)
(* request old, keep the bound of the cache.                               *)
LEMMA CacheAgesKept ==
  ASSUME RequestsOK, TablesOK, TablesOK', CacheAges, Younger,
         \A d \in DroneID : \/ cache'[d] = cache[d]
                            \/ /\ cache'[d].left = TTL /\ cache'[d].place \in Places
                               /\ age[d][cache'[d].place] <= Delay
  PROVE  CacheAges'
<1> SUFFICES ASSUME NEW d \in DroneID, cache'[d] # NoEntry
             PROVE  age'[d][cache'[d].place] + cache'[d].left <= Delay + TTL
  BY DEF CacheAges, NoEntry
<1>0. \A x \in Places : age[d][x] \in Nat /\ age'[d][x] \in Nat /\ age'[d][x] <= age[d][x]
  BY LocationAssumption DEF Younger, TablesOK, Old
<1>1. CASE cache'[d] = cache[d]
  <2>1. age[d][cache[d].place] + cache[d].left <= Delay + TTL
    BY <1>1 DEF CacheAges
  <2> QED
    BY <1>0, <1>1, <2>1, Numbers
<1>2. CASE cache'[d].left = TTL /\ cache'[d].place \in Places /\ age[d][cache'[d].place] <= Delay
  BY <1>0, <1>2, LocationAssumption
<1> QED
  BY <1>1, <1>2

(* A request that moves to a step where nothing is asked of its place      *)
(* leaves the other requests as they were.                                 *)
LEMMA PlacesAgeKept ==
  ASSUME RequestsOK, TablesOK, TablesOK', Carries, PlacesAge, Younger,
         NEW p \in Req, NEW next, NEW q, Moves(p, next, q),
         next \in {"cache", "fill"} => age'[q.drone][q.place] <= elapsed'[p],
         next = "answer" => age'[q.drone][q.place] <= TTL + Delay - 1 + elapsed'[p]
  PROVE  PlacesAge'
<1> SUFFICES ASSUME NEW o \in Req, o # p
             PROVE  /\ pc'[o] \in {"cache", "fill"} => age'[req'[o].drone][req'[o].place] <= elapsed'[o]
                    /\ pc'[o] = "answer" =>
                         age'[req'[o].drone][req'[o].place] <= TTL + Delay - 1 + elapsed'[o]
  BY DEF PlacesAge, Moves
<1>1. pc'[o] = pc[o] /\ req'[o] = req[o] /\ elapsed'[o] = elapsed[o]
  BY DEF Moves
<1> SUFFICES ASSUME pc[o] \in {"cache", "fill", "answer"}
             PROVE  /\ age'[req[o].drone][req[o].place] <= age[req[o].drone][req[o].place]
                    /\ age'[req[o].drone][req[o].place] \in Nat
                    /\ age[req[o].drone][req[o].place] \in Nat
  BY <1>1, Numbers DEF PlacesAge
<1>2. req[o].drone \in DroneID /\ req[o].place \in Places
  BY DEF Carries, Beating
<1> QED
  BY <1>2, LocationAssumption DEF Younger, TablesOK, Old

LEMMA CarrierAgesKept ==
  ASSUME RequestsOK, TablesOK, TablesOK', Carries, CarrierAges, Younger, carrier' = carrier,
         NEW p \in Req, NEW next, NEW q, Moves(p, next, q),
         next \in Showing => gone'[q.drone] <= elapsed'[p]
  PROVE  CarrierAges'
<1>1. carrier # Nil => gone'[carrier] = 0
  BY LocationAssumption DEF CarrierAges, Younger, TablesOK
<1>2. ASSUME NEW o \in Req, o # p, pc'[o] \in Showing
      PROVE  gone'[req'[o].drone] <= elapsed'[o]
  <2>1. pc'[o] = pc[o] /\ req'[o] = req[o] /\ elapsed'[o] = elapsed[o] /\ req[o].drone \in DroneID
    BY <1>2 DEF Moves, Carries, Showing
  <2>2. gone[req[o].drone] <= elapsed[o]
    BY <1>2, <2>1 DEF CarrierAges
  <2>3. gone[req[o].drone] \in Nat /\ gone'[req[o].drone] \in Nat
        /\ gone'[req[o].drone] <= gone[req[o].drone]
    BY <2>1, LocationAssumption DEF Younger, TablesOK
  <2> QED
    BY <2>1, <2>2, <2>3, Numbers
<1>3. \A o \in Req : pc'[o] \in Showing => gone'[req'[o].drone] <= elapsed'[o]
  BY <1>2 DEF Moves
<1> QED
  BY <1>1, <1>3 DEF CarrierAges

LEMMA CarriesKept ==
  ASSUME Carries, NEW p \in Req, NEW next, NEW q, Moves(p, next, q),
         next # "idle" => q.drone \in DroneID,
         next \in Beating \cup {"save", "fill", "answer"} => q.place \in Places
  PROVE  Carries'
BY DEF Carries, Moves
-----------------------------------------------------------------------------
(* The steps. *)

LEMMA ReportStep ==
  ASSUME IInv, NEW p \in Req, NEW d \in DroneID, Report(p, d)
  PROVE  IInv'
<1> DEFINE q == [kind |-> "BEAT", drone |-> d, place |-> reports[d] + 1]
<1>1. reports[d] + 1 \in Places
  <2>1. reports[d] \in Places /\ reports[d] < MaxReports
    BY DEF IInv, Report, TablesOK
  <2> QED
    BY <2>1, LocationAssumption DEF Places
<1>2. RequestsOK' /\ Moves(p, "exists", q)
  BY <1>1, BeginMoves DEF IInv, Report, Steps, Kinds
<1>3. TablesOK' /\ Younger /\ UNCHANGED <<row, cache, carrier, age, gone>>
  BY <1>1, Numbers DEF IInv, Report, TablesOK, Younger
<1> HIDE DEF q
<1>4. q.drone \in DroneID /\ q.place \in Places
  BY <1>1 DEF q
<1>5. Carries'
  BY <1>2, <1>4, CarriesKept DEF IInv
<1>6. RowCurrent' /\ CacheAges'
  BY <1>3 DEF IInv, RowCurrent, CacheAges
<1>7. PlacesAge'
  BY <1>2, <1>3, PlacesAgeKept DEF IInv
<1>8. CarrierAges'
  BY <1>2, <1>3, CarrierAgesKept DEF IInv, Showing
<1> QED
  BY <1>2, <1>3, <1>5, <1>6, <1>7, <1>8 DEF IInv

LEMMA FixedReadStep ==
  ASSUME IInv, NEW p \in Req, NEW d \in DroneID, FixedRead(p, d)
  PROVE  IInv'
<1> DEFINE q == [kind |-> "FIXED", drone |-> d, place |-> row[d]]
<1>1. row[d] \in Places
  BY DEF IInv, FixedRead, TablesOK
<1>2. RequestsOK' /\ Moves(p, "save", q)
  BY <1>1, BeginMoves DEF IInv, FixedRead, Steps, Kinds
<1>3. TablesOK' /\ Younger /\ UNCHANGED <<row, cache, carrier, age, gone>>
  BY Numbers DEF IInv, FixedRead, TablesOK, Younger
<1> HIDE DEF q
<1>4. q.drone \in DroneID /\ q.place \in Places
  BY <1>1 DEF q
<1>5. Carries'
  BY <1>2, <1>4, CarriesKept DEF IInv
<1>6. RowCurrent' /\ CacheAges'
  BY <1>3 DEF IInv, RowCurrent, CacheAges
<1>7. PlacesAge'
  BY <1>2, <1>3, PlacesAgeKept DEF IInv
<1>8. CarrierAges'
  BY <1>2, <1>3, CarrierAgesKept DEF IInv, Showing
<1> QED
  BY <1>2, <1>3, <1>5, <1>6, <1>7, <1>8 DEF IInv

LEMMA DetailsStep ==
  ASSUME IInv, NEW p \in Req, Details(p)
  PROVE  IInv'
<1> DEFINE q == [kind |-> "DETAILS", drone |-> carrier, place |-> Nil]
<1>1. carrier \in DroneID /\ gone[carrier] = 0
  BY DEF IInv, Details, TablesOK, CarrierAges
<1>2. RequestsOK' /\ Moves(p, "lookup", q)
  BY <1>1, BeginMoves DEF IInv, Details, Steps, Kinds
<1>3. TablesOK' /\ Younger /\ UNCHANGED <<row, cache, carrier, age, gone>>
  BY Numbers DEF IInv, Details, TablesOK, Younger
<1> HIDE DEF q
<1>4. q.drone \in DroneID /\ gone'[q.drone] <= elapsed'[p]
  BY <1>1, <1>2, <1>3, LocationAssumption DEF q, RequestsOK
<1>5. Carries'
  BY <1>2, <1>4, CarriesKept DEF IInv, Beating
<1>6. RowCurrent' /\ CacheAges'
  BY <1>3 DEF IInv, RowCurrent, CacheAges
<1>7. PlacesAge'
  BY <1>2, <1>3, PlacesAgeKept DEF IInv
<1>8. CarrierAges'
  BY <1>2, <1>3, <1>4, CarrierAgesKept DEF IInv, Showing
<1> QED
  BY <1>2, <1>3, <1>5, <1>6, <1>7, <1>8 DEF IInv

LEMMA EnsureExistsStep ==
  ASSUME IInv, NEW p \in Req, EnsureExists(p)
  PROVE  IInv'
<1>1. PICK next \in {"insert", "update"} : Go(p, "exists", next)
  BY DEF EnsureExists
<1>2. RequestsOK' /\ pc[p] = "exists" /\ Moves(p, next, req[p])
  BY <1>1, GoMoves DEF IInv, EnsureExists, Steps
<1>3. TablesOK' /\ Younger /\ UNCHANGED <<row, cache, carrier, age, gone>>
  BY Numbers DEF IInv, EnsureExists, TablesOK, Younger
<1>4. Carries'
  BY <1>2, CarriesKept DEF IInv, Carries, Beating
<1>5. RowCurrent' /\ CacheAges'
  BY <1>3 DEF IInv, RowCurrent, CacheAges
<1>6. PlacesAge'
  BY <1>2, <1>3, PlacesAgeKept DEF IInv
<1>7. CarrierAges'
  BY <1>2, <1>3, CarrierAgesKept DEF IInv, Showing
<1> QED
  BY <1>2, <1>3, <1>4, <1>5, <1>6, <1>7 DEF IInv

(* The statements of a heartbeat and of a repair that write the row.       *)
LEMMA RowWrittenStep ==
  ASSUME IInv, NEW p \in Req, NEW d \in DroneID, NEW x \in Places, WriteRow(d, x),
         UNCHANGED <<cache, carrier, reports, gone>>,
         RequestsOK', Carries', NEW next \in Steps \ Showing, NEW q, Moves(p, next, q),
         next = "cache" => age'[q.drone][q.place] = 0
  PROVE  IInv'
<1>1. /\ row' \in [DroneID -> Places \cup {Nil}] /\ age' \in [DroneID -> [Places -> 0..Old]]
      /\ \A e \in DroneID : row'[e] = IF e = d THEN x ELSE row[e]
      /\ \A e \in DroneID, y \in Places : age'[e][y] = IF e = d /\ y = x THEN 0 ELSE age[e][y]
  BY WriteRowWrites DEF IInv
<1>2. TablesOK'
  BY <1>1 DEF IInv, TablesOK
<1>3. Younger
  BY <1>1, Numbers DEF IInv, Younger
<1>4. RowCurrent'
  BY SMTT(30), <1>1, <1>2 DEF IInv, RowCurrent, TablesOK
<1>5. CacheAges'
  BY <1>2, <1>3, CacheAgesKept DEF IInv
<1>6. PlacesAge'
  <2>1. next \in {"cache", "fill"} => age'[q.drone][q.place] <= elapsed'[p]
    BY LocationAssumption DEF RequestsOK, Showing
  <2> QED
    BY <1>2, <1>3, <2>1, PlacesAgeKept DEF IInv, Showing
<1>7. CarrierAges'
  BY <1>2, <1>3, CarrierAgesKept DEF IInv
<1> QED
  BY <1>2, <1>4, <1>5, <1>6, <1>7 DEF IInv

LEMMA InsertStep ==
  ASSUME IInv, NEW p \in Req, Insert(p)
  PROVE  IInv'
<1>1. RequestsOK' /\ pc[p] = "insert" /\ Moves(p, "update", req[p])
  BY GoMoves DEF IInv, Insert, Steps
<1>2. Carries'
  BY <1>1, CarriesKept DEF IInv, Carries, Beating
<1>3. req[p].drone \in DroneID /\ 0 \in Places
  BY <1>1, LocationAssumption DEF IInv, Carries, Places
<1> QED
  BY <1>1, <1>2, <1>3, RowWrittenStep DEF Insert, Steps, Showing

LEMMA UpdateStep ==
  ASSUME IInv, NEW p \in Req, Update(p)
  PROVE  IInv'
<1>1. RequestsOK' /\ pc[p] = "update" /\ Moves(p, "cache", req[p])
  BY GoMoves DEF IInv, Update, Steps
<1>2. Carries'
  BY <1>1, CarriesKept DEF IInv, Carries, Beating
<1>3. req[p].drone \in DroneID /\ req[p].place \in Places
  BY <1>1 DEF IInv, Carries, Beating
<1>4. age'[req[p].drone][req[p].place] = 0
  BY <1>3, WriteRowWrites DEF IInv, Update
<1> QED
  BY <1>1, <1>2, <1>3, <1>4, RowWrittenStep DEF Update, Steps, Showing

LEMMA FixedSaveStep ==
  ASSUME IInv, NEW p \in Req, FixedSave(p)
  PROVE  IInv'
<1>1. RequestsOK' /\ pc[p] = "save" /\ Moves(p, "idle", NoReq)
  BY EndMoves DEF IInv, FixedSave
<1>2. Carries'
  BY <1>1, CarriesKept DEF IInv, Beating
<1>3. req[p].drone \in DroneID /\ req[p].place \in Places
  BY <1>1 DEF IInv, Carries
<1> QED
  BY <1>1, <1>2, <1>3, RowWrittenStep DEF FixedSave, Steps, Showing

(* The steps that write the cache: a heartbeat's last, and a reader's.     *)
LEMMA CacheWrittenStep ==
  ASSUME IInv, NEW p \in Req, pc[p] \in {"cache", "fill"}, WriteCache(req[p].drone, req[p].place),
         UNCHANGED <<row, carrier, reports, age, gone>>, RequestsOK', Carries',
         \/ Moves(p, "idle", NoReq)
         \/ pc[p] = "fill" /\ Moves(p, "answer", req[p])
  PROVE  IInv'
<1> DEFINE d == req[p].drone
           x == req[p].place
<1>1. d \in DroneID /\ x \in Places /\ age[d][x] <= elapsed[p]
  BY DEF IInv, Carries, PlacesAge, Beating
<1>2. /\ cache' \in [DroneID -> {NoEntry} \cup [place: Places, left: 1..TTL]]
      /\ \A e \in DroneID : cache'[e] = IF e = d THEN [place |-> x, left |-> TTL] ELSE cache[e]
  BY <1>1, WriteCacheWrites DEF IInv
<1>3. TablesOK' /\ Younger
  BY <1>2, Numbers DEF IInv, TablesOK, Younger
<1>4. age[d][x] \in Nat /\ elapsed[p] \in Nat /\ age[d][x] <= Delay
  BY <1>1, Numbers DEF IInv
<1>5. CacheAges'
  BY <1>1, <1>2, <1>3, <1>4, CacheAgesKept DEF IInv
<1>6. RowCurrent'
  BY DEF IInv, RowCurrent
<1>7. PlacesAge' /\ CarrierAges'
  <2>1. CASE Moves(p, "idle", NoReq)
    BY <1>3, <2>1, PlacesAgeKept, CarrierAgesKept DEF IInv, Showing
  <2>2. CASE pc[p] = "fill" /\ Moves(p, "answer", req[p])
    <3>1. elapsed'[p] = elapsed[p] /\ gone[d] <= elapsed[p]
      BY <2>2 DEF IInv, CarrierAges, Showing, Moves
    <3>2. age'[d][x] <= TTL + Delay - 1 + elapsed'[p]
      BY <1>1, <1>4, <3>1, LocationAssumption
    <3> QED
      BY <1>3, <2>2, <3>1, <3>2, PlacesAgeKept, CarrierAgesKept DEF IInv, Showing
  <2> QED
    BY <2>1, <2>2
<1> QED
  BY <1>3, <1>5, <1>6, <1>7 DEF IInv

LEMMA PublishStep ==
  ASSUME IInv, NEW p \in Req, Publish(p)
  PROVE  IInv'
<1>1. RequestsOK' /\ Moves(p, "idle", NoReq)
  BY EndMoves DEF IInv, Publish
<1>2. Carries'
  BY <1>1, CarriesKept DEF IInv, Beating
<1> QED
  BY <1>1, <1>2, CacheWrittenStep DEF Publish

LEMMA FillStep ==
  ASSUME IInv, NEW p \in Req, Fill(p)
  PROVE  IInv'
<1>1. RequestsOK' /\ pc[p] = "fill" /\ Moves(p, "answer", req[p])
  BY GoMoves DEF IInv, Fill, Steps
<1>2. Carries'
  BY <1>1, CarriesKept DEF IInv, Carries
<1> QED
  BY <1>1, <1>2, CacheWrittenStep DEF Fill

(* The steps of a reader that take a place. *)
LEMMA LookupStep ==
  ASSUME IInv, NEW p \in Req, CacheHit(p) \/ CacheMiss(p)
  PROVE  IInv'
<1> DEFINE d == req[p].drone
<1>0. pc[p] = "lookup"
  BY DEF CacheHit, CacheMiss, Go
<1>1. d \in DroneID /\ gone[d] <= elapsed[p]
  BY <1>0 DEF IInv, Carries, CarrierAges, Showing
<1>2. PICK x \in Places, next \in {"fill", "answer"} :
        /\ Go(p, "lookup", next) /\ req' = [req EXCEPT ![p].place = x]
        /\ next = "fill" => age[d][x] = 0
        /\ next = "answer" => age[d][x] <= TTL + Delay - 1
  <2>1. CASE CacheHit(p)
    <3>1. cache[d] # NoEntry /\ cache[d].place \in Places /\ cache[d].left \in 1..TTL
      BY <1>1, <2>1, Numbers DEF IInv, CacheHit
    <3>2. age[d][cache[d].place] + cache[d].left <= Delay + TTL /\ age[d][cache[d].place] \in Nat
      BY <1>1, <3>1, Numbers DEF IInv, CacheAges
    <3>3. age[d][cache[d].place] <= TTL + Delay - 1
      BY <3>1, <3>2, LocationAssumption
    <3> QED
      BY <2>1, <3>1, <3>3 DEF CacheHit
  <2>2. CASE CacheMiss(p)
    BY <1>1, <2>2 DEF IInv, CacheMiss, TablesOK, RowCurrent
  <2> QED
    BY <2>1, <2>2
<1> DEFINE q == [req[p] EXCEPT !.place = x]
<1>3. RequestsOK' /\ Moves(p, next, q)
  BY <1>2, GoCarriesMoves DEF IInv, Steps
<1>4. q.drone = d /\ q.place = x
  BY DEF IInv, RequestsOK
<1> HIDE DEF q
<1>5. TablesOK' /\ Younger /\ UNCHANGED <<row, cache, carrier, age, gone>>
  BY Numbers DEF IInv, CacheHit, CacheMiss, TablesOK, Younger
<1>6. elapsed'[p] = elapsed[p] /\ elapsed[p] \in Nat /\ age[d][x] \in Nat
  BY <1>0, <1>1, <1>2, <1>3, Numbers DEF IInv, Moves
<1>7. Carries'
  BY <1>1, <1>3, <1>4, CarriesKept DEF IInv
<1>8. RowCurrent' /\ CacheAges'
  BY <1>5 DEF IInv, RowCurrent, CacheAges
<1>9. PlacesAge'
  <2>1. /\ next = "fill" => age'[q.drone][q.place] <= elapsed'[p]
        /\ next = "answer" => age'[q.drone][q.place] <= TTL + Delay - 1 + elapsed'[p]
    BY <1>2, <1>4, <1>5, <1>6, LocationAssumption
  <2> QED
    BY <1>3, <1>5, <2>1, PlacesAgeKept DEF IInv
<1>10. CarrierAges'
  BY <1>1, <1>3, <1>4, <1>5, <1>6, CarrierAgesKept DEF IInv
<1> QED
  BY <1>3, <1>5, <1>7, <1>8, <1>9, <1>10 DEF IInv

LEMMA EndStep ==
  ASSUME IInv, NEW p \in Req, Answer(p) \/ Fail(p)
  PROVE  IInv'
<1>1. RequestsOK' /\ Moves(p, "idle", NoReq)
  BY EndMoves DEF IInv, Answer, Fail
<1>2. TablesOK' /\ Younger /\ UNCHANGED <<row, cache, carrier, age, gone>>
  BY Numbers DEF IInv, Answer, Fail, TablesOK, Younger
<1>3. Carries'
  BY <1>1, CarriesKept DEF IInv, Beating
<1>4. RowCurrent' /\ CacheAges'
  BY <1>2 DEF IInv, RowCurrent, CacheAges
<1>5. PlacesAge' /\ CarrierAges'
  BY <1>1, <1>2, PlacesAgeKept, CarrierAgesKept DEF IInv, Showing
<1> QED
  BY <1>1, <1>2, <1>3, <1>4, <1>5 DEF IInv

(* The order changes hands. *)
LEMMA CarrierStep ==
  ASSUME IInv, (\E d \in DroneID : Carry(d)) \/ Release
  PROVE  IInv'
<1>1. RequestsOK' /\ Carries' /\ RowCurrent' /\ CacheAges' /\ PlacesAge'
  BY DEF IInv, Carry, Release, RequestsOK, Carries, RowCurrent, CacheAges, PlacesAge
<1>2. CASE Release
  BY <1>1, <1>2 DEF IInv, Release, TablesOK, CarrierAges
<1>3. ASSUME NEW d \in DroneID, Carry(d) PROVE IInv'
  <2>1. /\ carrier' = d /\ UNCHANGED <<row, cache, pc, req, elapsed, reports, age>>
        /\ gone' = [gone EXCEPT ![d] = 0] /\ 0 \in 0..Delay + 1
    BY <1>3, LocationAssumption DEF Carry
  <2>2. TablesOK' /\ \A e \in DroneID : gone'[e] = IF e = d THEN 0 ELSE gone[e]
    BY <2>1 DEF IInv, TablesOK
  <2>3. ASSUME NEW p \in Req, pc[p] \in Showing PROVE gone'[req[p].drone] <= elapsed[p]
    <3>1. req[p].drone \in DroneID /\ gone[req[p].drone] <= elapsed[p]
      BY <2>3 DEF IInv, Carries, CarrierAges, Showing
    <3> QED
      BY <2>2, <3>1, Numbers DEF IInv
  <2> QED
    BY <1>1, <2>1, <2>2, <2>3 DEF IInv, CarrierAges
<1> QED
  BY <1>2, <1>3

(* Time passes for all at once. *)
LEMMA TickStep ==
  ASSUME IInv, Tick
  PROVE  IInv'
<1>0. RequestsOK /\ TablesOK /\ Delay \in Nat /\ Old \in Nat
  BY LocationAssumption DEF IInv, Old
<1>1. UNCHANGED <<row, carrier, pc, req, reports>>
  BY DEF Tick
<1>2. /\ elapsed' \in [Req -> 0..Delay]
      /\ \A p \in Req : pc[p] # "idle" => elapsed'[p] = elapsed[p] + 1
  BY <1>0 DEF Tick, RequestsOK
<1>3. /\ age' \in [DroneID -> [Places -> 0..Old]]
      /\ \A d \in DroneID, x \in Places : /\ age'[d][x] <= age[d][x] + 1
                                          /\ row[d] = x => age'[d][x] = 0
  <2>1. \A d \in DroneID, x \in Places :
          age'[d][x] = IF row[d] = x THEN 0 ELSE IF age[d][x] < Old THEN age[d][x] + 1 ELSE Old
    BY DEF Tick, Older
  <2>2. \A d \in DroneID, x \in Places : age'[d][x] \in 0..Old
    BY <1>0, <2>1 DEF TablesOK
  <2>3. age' \in [DroneID -> [Places -> 0..Old]]
    BY <2>2 DEF Tick
  <2> QED
    BY <1>0, <2>1, <2>3 DEF TablesOK
<1>4. /\ gone' \in [DroneID -> 0..Delay + 1]
      /\ \A d \in DroneID : /\ gone'[d] <= gone[d] + 1
                            /\ carrier = d => gone'[d] = 0
  BY <1>0 DEF Tick, Older, TablesOK
<1>5. /\ cache' \in [DroneID -> {NoEntry} \cup [place: Places, left: 1..TTL]]
      /\ \A d \in DroneID : cache'[d] # NoEntry =>
           /\ cache[d] # NoEntry /\ cache'[d].place = cache[d].place
           /\ cache'[d].left = cache[d].left - 1
  <2>1. \A d \in DroneID :
          cache'[d] = IF cache[d].left <= 1 THEN NoEntry ELSE [cache[d] EXCEPT !.left = @ - 1]
    BY DEF Tick
  <2>2. ASSUME NEW d \in DroneID
        PROVE  /\ cache'[d] \in {NoEntry} \cup [place: Places, left: 1..TTL]
               /\ cache'[d] # NoEntry =>
                    /\ cache[d] # NoEntry /\ cache'[d].place = cache[d].place
                    /\ cache'[d].left = cache[d].left - 1
    <3>1. CASE cache[d] = NoEntry
      <4>1. cache[d].left = 0
        BY <3>1 DEF NoEntry
      <4>2. cache[d].left <= 1
        BY <4>1
      <4>3. cache'[d] = NoEntry
        BY <2>1, <4>2, Zenon
      <4> QED
        BY <4>3
    <3>2. CASE cache[d] # NoEntry
      <4>1. cache[d] \in [place: Places, left: 1..TTL] /\ TTL \in Nat
        BY <1>0, <3>2, LocationAssumption DEF TablesOK
      <4>2. CASE cache[d].left <= 1
        BY <2>1, <4>2
      <4>3. CASE cache[d].left > 1
        <5>1. cache'[d] = [cache[d] EXCEPT !.left = @ - 1]
          BY <2>1, <4>1, <4>3
        <5>2. cache[d].left - 1 \in 1..TTL
          BY <4>1, <4>3
        <5>3. /\ cache'[d] \in [place: Places, left: 1..TTL]
              /\ cache'[d].place = cache[d].place /\ cache'[d].left = cache[d].left - 1
          BY <4>1, <5>1, <5>2
        <5> QED
          BY <3>2, <5>3
      <4> QED
        BY <4>1, <4>2, <4>3
    <3> QED
      BY <3>1, <3>2
  <2> QED
    BY <2>2 DEF Tick
<1>6. RequestsOK' /\ TablesOK' /\ Carries'
  BY <1>0, <1>1, <1>2, <1>3, <1>4, <1>5 DEF IInv, RequestsOK, TablesOK, Carries
<1>7. RowCurrent'
  BY <1>0, <1>1, <1>3 DEF RowCurrent, TablesOK
<1>8. CacheAges'
  <2> SUFFICES ASSUME NEW d \in DroneID, cache'[d] # NoEntry
               PROVE  age'[d][cache'[d].place] + cache'[d].left <= Delay + TTL
    BY DEF CacheAges, NoEntry
  <2>1. /\ age[d][cache[d].place] + cache[d].left <= Delay + TTL
        /\ cache[d].place \in Places /\ cache[d].left \in 1..TTL
    BY <1>0, <1>5, Numbers DEF IInv, CacheAges
  <2>2. /\ age[d][cache[d].place] \in Nat /\ age'[d][cache[d].place] \in Nat
        /\ age'[d][cache[d].place] <= age[d][cache[d].place] + 1
    BY <1>0, <1>3, <2>1, Numbers
  <2> QED
    BY <1>5, <2>1, <2>2, LocationAssumption
<1>9. PlacesAge'
  <2> SUFFICES ASSUME NEW p \in Req, pc[p] \in {"cache", "fill", "answer"}
               PROVE  /\ pc[p] \in {"cache", "fill"} =>
                           age'[req[p].drone][req[p].place] <= elapsed'[p]
                      /\ pc[p] = "answer" =>
                           age'[req[p].drone][req[p].place] <= TTL + Delay - 1 + elapsed'[p]
    BY <1>1 DEF PlacesAge
  <2>1. req[p].drone \in DroneID /\ req[p].place \in Places
    BY DEF IInv, Carries, Beating
  <2>2. /\ age[req[p].drone][req[p].place] \in Nat /\ age'[req[p].drone][req[p].place] \in Nat
        /\ age'[req[p].drone][req[p].place] <= age[req[p].drone][req[p].place] + 1
        /\ elapsed'[p] = elapsed[p] + 1 /\ elapsed[p] \in Nat
    BY <1>0, <1>2, <1>3, <2>1, Numbers
  <2> QED
    BY <2>2, LocationAssumption DEF IInv, PlacesAge
<1>10. CarrierAges'
  <2>1. carrier' # Nil => gone'[carrier'] = 0
    BY <1>0, <1>1, <1>4 DEF TablesOK
  <2>2. ASSUME NEW p \in Req, pc[p] \in Showing PROVE gone'[req[p].drone] <= elapsed'[p]
    <3>1. req[p].drone \in DroneID /\ gone[req[p].drone] <= elapsed[p] /\ pc[p] # "idle"
      BY <2>2 DEF IInv, Carries, CarrierAges, Showing
    <3>2. gone'[req[p].drone] <= gone[req[p].drone] + 1 /\ gone'[req[p].drone] \in Nat
      BY <1>0, <1>4, <3>1
    <3> QED
      BY <1>0, <1>2, <3>1, <3>2, Numbers
  <2> QED
    BY <1>1, <2>1, <2>2 DEF CarrierAges
<1> QED
  BY <1>6, <1>7, <1>8, <1>9, <1>10 DEF IInv

LEMMA AlwaysIInv == Spec => []IInv
<1>1. IInv /\ [Next]_vars => IInv'
  <2>1. IInv /\ Next => IInv'
    BY ReportStep, FixedReadStep, DetailsStep, EnsureExistsStep, InsertStep, UpdateStep,
       PublishStep, FixedSaveStep, LookupStep, FillStep, EndStep, CarrierStep, TickStep
       DEF Next, Step
  <2>2. IInv /\ UNCHANGED vars => IInv'
    BY DEF vars, IInv, RequestsOK, TablesOK, Carries, RowCurrent, CacheAges, PlacesAge, CarrierAges
  <2> QED
    BY <2>1, <2>2
<1> QED
  BY <1>1, InitIInv, PTL DEF Spec

-----------------------------------------------------------------------------
(* What requests carry, the row, the cache and the ages stay in their      *)
(* ranges.                                                                 *)
THEOREM TypeCorrect == Spec => []TypeOK
<1>1. IInv => TypeOK
  BY TypeParts DEF IInv
<1> QED
  BY <1>1, AlwaysIInv, PTL

(* Whatever the cache holds was in the row less than a time to live and    *)
(* one request ago, however readers, heartbeats and repairs overtake each  *)
(* other.                                                                  *)
THEOREM CacheStaysFresh == Spec => []CacheBoundedStale
<1>1. IInv => CacheBoundedStale
  <2> SUFFICES ASSUME IInv, NEW d \in DroneID, cache[d] # NoEntry
               PROVE  age[d][cache[d].place] < TTL + Delay
    BY DEF CacheBoundedStale
  <2>1. age[d][cache[d].place] + cache[d].left <= Delay + TTL
    BY DEF IInv, CacheAges
  <2>2. age[d][cache[d].place] \in Nat /\ cache[d].left \in 1..TTL
    BY Numbers DEF IInv
  <2> QED
    BY <2>1, <2>2, LocationAssumption
<1> QED
  BY <1>1, AlwaysIInv, PTL

(* Order details show the place of a drone that carried the order while    *)
(* they were put together, as fresh as the cache and the request allow.    *)
THEOREM DetailsStayCoherent == Spec => []DetailsCoherent
<1>1. IInv => DetailsCoherent
  <2> SUFFICES ASSUME IInv, NEW p \in Req, pc[p] = "answer"
               PROVE  /\ gone[req[p].drone] <= Delay
                      /\ age[req[p].drone][req[p].place] < TTL + 2 * Delay
    BY DEF DetailsCoherent
  <2>1. /\ req[p].drone \in DroneID /\ req[p].place \in Places
        /\ gone[req[p].drone] <= elapsed[p]
        /\ age[req[p].drone][req[p].place] <= TTL + Delay - 1 + elapsed[p]
    BY DEF IInv, Carries, PlacesAge, CarrierAges, Showing
  <2>2. /\ gone[req[p].drone] \in Nat /\ age[req[p].drone][req[p].place] \in Nat
        /\ elapsed[p] \in Nat /\ elapsed[p] <= Delay
    BY <2>1, Numbers DEF IInv
  <2> QED
    BY <2>1, <2>2, LocationAssumption
<1> QED
  BY <1>1, AlwaysIInv, PTL
=============================================================================
