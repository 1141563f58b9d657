--------------------------- MODULE GatewayProofs ----------------------------
(***************************************************************************)
(* The bulkheads and the idempotency cache, for any number of requests and *)
(* keys, and any size of the pools.                                        *)
(***************************************************************************)
EXTENDS Gateway, FiniteSetTheorems, TLAPS

(* Only requests with a key pass through the idempotency cache. *)
Keyed == \A p \in Req : pc[p] \in {"check", "run", "store"} => key[p] # NoKey

(* The permits are counted by requests in flight, so they are never        *)
(* negative, and executions belong to keys; the types need both.           *)
Balanced == TypeOK /\ PermitsBalance /\ Keyed

LEMMA InitBalanced == Init => Balanced
<1> SUFFICES ASSUME Init PROVE Balanced
  OBVIOUS
<1>1. TypeOK
  BY GatewayAssumption DEF Init, TypeOK
<1>2. \A g \in Groups : InFlight(g) = {} /\ sem[g] = 0
  BY DEF Init, InFlight
<1>3. \A g \in Groups : Capacity(g) \in Nat
  BY GatewayAssumption DEF Capacity
<1> QED
  BY <1>1, <1>2, <1>3, FS_EmptySet DEF Init, Balanced, PermitsBalance, Keyed

LEMMA InFlightFinite == \A g \in Groups : IsFiniteSet(InFlight(g))
<1>1. \A g \in Groups : InFlight(g) \subseteq Req
  BY DEF InFlight
<1> QED
  BY <1>1, FS_Subset, GatewayAssumption

(* A request that leaves gives back the permit it was counted by. *)
LEMMA LeaveBalanced ==
  ASSUME Balanced, NEW p \in Req, pc[p] # "idle", Leave(p)
  PROVE  /\ PermitsBalance' /\ Keyed'
         /\ serving' \in BOOLEAN /\ sem' \in [Groups -> Nat]
         /\ pc' \in [Req -> {"idle", "check", "run", "open", "store"}]
         /\ group' \in [Req -> Groups] /\ key' \in [Req -> Key \cup {NoKey}]
         /\ mine' \in [Req -> 0..MaxRuns]
<1> DEFINE h == group[p]
<1>1. h \in Groups /\ p \in InFlight(h)
  BY DEF Balanced, TypeOK, InFlight
<1>2. /\ Cardinality(InFlight(h) \ {p}) = Cardinality(InFlight(h)) - 1
      /\ Cardinality(InFlight(h) \ {p}) \in Nat
  BY <1>1, InFlightFinite, FS_RemoveElement, FS_CardinalityType
<1>3. /\ sem' = [sem EXCEPT ![h] = @ - 1] /\ group' = group
      /\ pc' = [pc EXCEPT ![p] = "idle"]
  BY DEF Leave
<1>4. \A g \in Groups : g = h => InFlight(g)' = InFlight(g) \ {p}
  BY <1>3 DEF Balanced, TypeOK, InFlight
<1>5. \A g \in Groups : g # h => InFlight(g)' = InFlight(g)
  BY <1>3 DEF Balanced, TypeOK, InFlight
<1>6. sem[h] = Cardinality(InFlight(h)) /\ sem[h] <= Capacity(h)
  BY <1>1 DEF Balanced, PermitsBalance
<1>7. sem' \in [Groups -> Nat]
  BY <1>1, <1>2, <1>3, <1>6 DEF Balanced, TypeOK
<1>8. \A g \in Groups : Capacity(g) \in Nat
  BY GatewayAssumption DEF Capacity
<1> HIDE DEF h
<1>9. ASSUME NEW g \in Groups PROVE sem'[g] = Cardinality(InFlight(g)') /\ sem'[g] <= Capacity(g)
  <2>1. CASE g = h
    <3>1. sem'[g] = sem[g] - 1
      BY <1>3, <1>1, <2>1 DEF Balanced, TypeOK
    <3>2. sem[g] \in Nat
      BY DEF Balanced, TypeOK
    <3> QED
      BY <1>2, <1>4, <1>6, <1>8, <2>1, <3>1, <3>2
  <2>2. CASE g # h
    BY <1>3, <1>5, <2>2 DEF Balanced, TypeOK, PermitsBalance
  <2> QED
    BY <2>1, <2>2
<1>10. PermitsBalance'
  BY <1>9 DEF PermitsBalance, Capacity
<1>11. Keyed'
  BY DEF Leave, Balanced, TypeOK, Keyed
<1> QED
  BY <1>7, <1>10, <1>11, GatewayAssumption DEF Leave, Balanced, TypeOK

(* A request that goes on keeps its permit. *)
LEMMA GoBalanced ==
  ASSUME Balanced, NEW p \in Req, pc[p] \in {"check", "run"}, NEW next \in {"run", "open", "store"},
         pc' = [pc EXCEPT ![p] = next], sem' = sem, group' = group, key' = key
  PROVE  /\ PermitsBalance' /\ Keyed'
         /\ pc' \in [Req -> {"idle", "check", "run", "open", "store"}]
<1>1. \A g \in Groups : InFlight(g)' = InFlight(g)
  BY DEF Balanced, TypeOK, InFlight
<1>2. PermitsBalance'
  BY <1>1 DEF Balanced, TypeOK, PermitsBalance, Capacity
<1>3. Keyed'
  BY DEF Balanced, TypeOK, Keyed
<1> QED
  BY <1>2, <1>3 DEF Balanced, TypeOK

(* A request that enters takes a permit, if there is one. *)
LEMMA EnterBalanced ==
  ASSUME Balanced, NEW p \in Req, NEW g \in Groups, NEW k \in Key \cup {NoKey}, Enter(p, g, k)
  PROVE  Balanced'
<1>1. /\ sem' = [sem EXCEPT ![g] = @ + 1] /\ group' = [group EXCEPT ![p] = g]
      /\ pc[p] = "idle" /\ pc' = [pc EXCEPT ![p] = pc'[p]] /\ pc'[p] \in {"check", "open"}
      /\ sem[g] < Capacity(g) /\ key' = [key EXCEPT ![p] = k]
      /\ UNCHANGED <<serving, ran, mine, cache>>
  BY DEF Enter, Admit, Balanced, TypeOK
<1>2. excused' \in [Key -> BOOLEAN]
  BY DEF Enter, Admit, Excuse, Balanced, TypeOK
<1>3. TypeOK'
  BY <1>1, <1>2 DEF Balanced, TypeOK
<1>4. p \notin InFlight(g) /\ InFlight(g)' = InFlight(g) \cup {p}
  BY <1>1 DEF Balanced, TypeOK, InFlight
<1>5. \A h \in Groups : h # g => InFlight(h)' = InFlight(h)
  BY <1>1 DEF Balanced, TypeOK, InFlight
<1>6. Cardinality(InFlight(g)') = Cardinality(InFlight(g)) + 1
  BY <1>4, InFlightFinite, FS_AddElement
<1>7. Capacity(g) \in Nat /\ sem[g] \in Nat
  BY GatewayAssumption DEF Capacity, Balanced, TypeOK
<1>8. ASSUME NEW h \in Groups PROVE sem'[h] = Cardinality(InFlight(h)') /\ sem'[h] <= Capacity(h)
  <2>1. CASE h = g
    BY <1>1, <1>6, <1>7, <2>1 DEF Balanced, TypeOK, PermitsBalance
  <2>2. CASE h # g
    BY <1>1, <1>5, <2>2 DEF Balanced, TypeOK, PermitsBalance
  <2> QED
    BY <2>1, <2>2
<1>9. PermitsBalance'
  BY <1>8 DEF PermitsBalance, Capacity
<1>10. k = NoKey => pc'[p] = "open"
  BY DEF Enter, Admit, Balanced, TypeOK
<1>11. Keyed'
  BY <1>1, <1>10 DEF Balanced, TypeOK, Keyed
<1> QED
  BY <1>3, <1>9, <1>11 DEF Balanced

(* A new process starts with all permits. *)
LEMMA StopBalanced == ASSUME Balanced, Stop PROVE Balanced'
<1>1. TypeOK'
  BY GatewayAssumption DEF Stop, Balanced, TypeOK
<1>2. \A g \in Groups : InFlight(g)' = {} /\ sem'[g] = 0
  BY DEF Stop, InFlight
<1>3. \A g \in Groups : Capacity(g) \in Nat
  BY GatewayAssumption DEF Capacity
<1>4. PermitsBalance'
  BY <1>2, <1>3, FS_EmptySet DEF PermitsBalance, Capacity
<1>5. Keyed'
  BY DEF Stop, Keyed
<1> QED
  BY <1>1, <1>4, <1>5 DEF Balanced

LEMMA StepBalanced == Balanced /\ [Next]_vars => Balanced'
<1> SUFFICES ASSUME Balanced, [Next]_vars PROVE Balanced'
  OBVIOUS
<1>a. \A k \in Key : Excuse(k) => excused' \in [Key -> BOOLEAN]
  BY DEF Excuse, Balanced, TypeOK
<1>b. \A k : Excuse(k) => excused' \in [Key -> BOOLEAN]
  BY DEF Excuse, Balanced, TypeOK
<1>1. ASSUME NEW p \in Req, NEW g \in Groups, NEW k \in Key \cup {NoKey}, Enter(p, g, k)
      PROVE  Balanced'
  BY <1>1, EnterBalanced
<1>2. ASSUME NEW p \in Req, CheckHit(p) \/ Refuse(p) PROVE Balanced'
  <2>1. pc[p] # "idle" /\ Leave(p) /\ UNCHANGED <<ran, cache, excused>>
    BY <1>2 DEF CheckHit, Refuse
  <2> QED
    BY <2>1, LeaveBalanced DEF Balanced, TypeOK
<1>3. ASSUME NEW p \in Req, ExecuteOpen(p) PROVE Balanced'
  <2>1. pc[p] # "idle" /\ Leave(p) /\ UNCHANGED <<cache, excused>>
    BY <1>3 DEF ExecuteOpen
  <2>2. ran' \in [Key -> 0..MaxRuns]
    BY <1>3, GatewayAssumption DEF ExecuteOpen, Balanced, TypeOK
  <2> QED
    BY <2>1, <2>2, LeaveBalanced DEF Balanced, TypeOK
<1>4. ASSUME NEW p \in Req, Store(p) PROVE Balanced'
  <2>1. pc[p] # "idle" /\ Leave(p) /\ UNCHANGED <<ran, excused>>
    BY <1>4 DEF Store
  <2>2. cache' \in [Key -> 0..MaxRuns]
    BY <1>4 DEF Store, Balanced, TypeOK
  <2> QED
    BY <2>1, <2>2, LeaveBalanced DEF Balanced, TypeOK
<1>5. ASSUME NEW p \in Req, StoreFails(p) PROVE Balanced'
  <2>1. pc[p] # "idle" /\ Leave(p) /\ UNCHANGED <<ran, cache>> /\ Excuse(key[p])
    BY <1>5 DEF StoreFails
  <2> QED
    BY <1>b, <2>1, LeaveBalanced DEF Balanced, TypeOK
<1>6. ASSUME NEW p \in Req, CheckMiss(p) \/ CheckFails(p) PROVE Balanced'
  <2>1. /\ pc[p] = "check" /\ (Go(p, "run") \/ Go(p, "open")) /\ UNCHANGED <<ran, cache>>
        /\ excused' \in [Key -> BOOLEAN]
    BY <1>6, <1>b DEF CheckMiss, CheckFails, Balanced, TypeOK
  <2>2. PermitsBalance' /\ Keyed' /\ pc' \in [Req -> {"idle", "check", "run", "open", "store"}]
    BY <2>1, GoBalanced DEF Go
  <2> QED
    BY <2>1, <2>2 DEF Go, Balanced, TypeOK
<1>7. ASSUME NEW p \in Req, Execute(p) PROVE Balanced'
  <2>1. pc[p] = "run" /\ ran[key[p]] < MaxRuns /\ pc' = [pc EXCEPT ![p] = "store"]
        /\ UNCHANGED <<serving, sem, group, key, cache, excused>>
    BY <1>7 DEF Execute
  <2>2. PermitsBalance' /\ Keyed' /\ pc' \in [Req -> {"idle", "check", "run", "open", "store"}]
    BY <2>1, GoBalanced
  <2>3. ran' \in [Key -> 0..MaxRuns]
    <3>1. key[p] \in Key /\ ran' = [ran EXCEPT ![key[p]] = ran[key[p]] + 1]
      BY <1>7, <2>1 DEF Execute, Balanced, TypeOK, Keyed
    <3>2. ran[key[p]] + 1 \in 0..MaxRuns
      BY <2>1, <3>1, GatewayAssumption DEF Balanced, TypeOK
    <3> QED
      BY <3>1, <3>2 DEF Balanced, TypeOK
  <2>4. mine' \in [Req -> 0..MaxRuns]
    <3>1. key[p] \in Key /\ mine' = [mine EXCEPT ![p] = ran[key[p]] + 1]
      BY <1>7, <2>1 DEF Execute, Balanced, TypeOK, Keyed
    <3>2. ran[key[p]] + 1 \in 0..MaxRuns
      BY <2>1, <3>1, GatewayAssumption DEF Balanced, TypeOK
    <3> QED
      BY <3>1, <3>2 DEF Balanced, TypeOK
  <2> QED
    BY <2>1, <2>2, <2>3, <2>4 DEF Balanced, TypeOK
<1>8. ASSUME NEW k \in Key, Expire(k) PROVE Balanced'
  <2>1. TypeOK'
    BY <1>8, <1>a, GatewayAssumption DEF Expire, Balanced, TypeOK
  <2>2. PermitsBalance'
    BY <1>8 DEF Expire, Balanced, PermitsBalance, InFlight, Capacity
  <2> QED
    BY <1>8, <2>1, <2>2 DEF Expire, Balanced, Keyed
<1>9. ASSUME Shutdown PROVE Balanced'
  <2>1. TypeOK' /\ Keyed'
    BY <1>9 DEF Shutdown, Balanced, TypeOK, Keyed
  <2>2. PermitsBalance'
    BY <1>9 DEF Shutdown, Balanced, PermitsBalance, InFlight, Capacity
  <2> QED
    BY <2>1, <2>2 DEF Balanced
<1>10. ASSUME Drained \/ TimedOut \/ Crash PROVE Balanced'
  BY <1>10, StopBalanced DEF Drained, TimedOut, Crash
<1>11. ASSUME UNCHANGED vars PROVE Balanced'
  BY <1>11 DEF vars, Balanced, TypeOK, PermitsBalance, InFlight, Capacity, Keyed
<1> QED
  BY <1>1, <1>2, <1>3, <1>4, <1>5, <1>6, <1>7, <1>8, <1>9, <1>10, <1>11
     DEF Next, Around, Handler

LEMMA AlwaysBalanced == Spec => []Balanced
BY InitBalanced, StepBalanced, PTL DEF Spec

(* Permits and phases stay in their ranges. *)
THEOREM TypeCorrect == Spec => []TypeOK
<1>1. Balanced => TypeOK
  BY DEF Balanced
<1> QED
  BY <1>1, AlwaysBalanced, PTL

(* A bulkhead counts exactly the requests in flight, whatever ends them,   *)
(* and never more than its pool.                                           *)
THEOREM PermitsAlwaysBalance == Spec => []PermitsBalance
<1>1. Balanced => PermitsBalance
  BY DEF Balanced
<1> QED
  BY <1>1, AlwaysBalanced, PTL

-----------------------------------------------------------------------------
(* Retries. *)

(* What is stored, or about to be, is the number of an execution. *)
Stored ==
  /\ \A k \in Key : cache[k] <= ran[k]
  /\ \A p \in Req : pc[p] = "store" => mine[p] \in 1..ran[key[p]]
  /\ \A p \in Req : pc[p] = "idle" => key[p] = NoKey

(* While nothing excuses a repetition of k, at most one request with k is  *)
(* on its way, through the cache; and once the operation took effect, its  *)
(* answer is in the cache or about to be stored, so that no other request  *)
(* gets as far as the handler.                                             *)
Orderly(k) ==
  /\ \A p, q \in Req : key[p] = k /\ key[q] = k => p = q
  /\ \A p \in Req : key[p] = k => pc[p] \in {"check", "run", "store"}
  /\ \A p \in Req : key[p] = k /\ pc[p] = "run" => ran[k] = 0
  /\ \/ ran[k] = 0
     \/ ran[k] = 1 /\ (cache[k] # 0 \/ \E p \in Req : key[p] = k /\ pc[p] = "store")

Retried == Balanced /\ Stored /\ \A k \in Key : ~excused[k] => Orderly(k)

LEMMA InitRetried == Init => Retried
<1> SUFFICES ASSUME Init PROVE Retried
  OBVIOUS
<1>1. Balanced
  BY InitBalanced
<1>2. Stored
  BY DEF Init, Stored
<1>3. \A k \in Key : Orderly(k)
  BY GatewayAssumption DEF Init, Orderly
<1> QED
  BY <1>1, <1>2, <1>3 DEF Retried

(* A request that is neither idle nor without middleware has a key. *)
LEMMA HasKey ==
  ASSUME Balanced, NEW p \in Req, pc[p] \in {"check", "run", "store"}
  PROVE  key[p] \in Key
BY DEF Balanced, TypeOK, Keyed

LEMMA StepStored == Retried /\ [Next]_vars => Stored'
<1> SUFFICES ASSUME Retried, [Next]_vars PROVE Stored'
  OBVIOUS
<1>0. Balanced /\ TypeOK /\ Stored
  BY DEF Retried, Balanced
<1>1. ASSUME NEW p \in Req, NEW g \in Groups, NEW k \in Key \cup {NoKey}, Enter(p, g, k)
      PROVE  Stored'
  BY <1>0, <1>1 DEF Enter, Admit, TypeOK, Stored
<1>2. ASSUME NEW p \in Req, CheckHit(p) \/ Refuse(p) \/ StoreFails(p) PROVE Stored'
  <2>1. Leave(p) /\ UNCHANGED <<ran, cache>>
    BY <1>2 DEF CheckHit, Refuse, StoreFails
  <2> QED
    BY <1>0, <2>1 DEF Leave, TypeOK, Stored
<1>3. ASSUME NEW p \in Req, ExecuteOpen(p) PROVE Stored'
  <2>1. \A k \in Key : ran'[k] \in {ran[k], ran[k] + 1} /\ ran[k] \in Nat
    BY <1>0, <1>3, GatewayAssumption DEF ExecuteOpen, TypeOK
  <2>2. Leave(p) /\ cache' = cache
    BY <1>3 DEF ExecuteOpen
  <2>3. \A k \in Key : cache[k] \in Nat
    BY <1>0, GatewayAssumption DEF TypeOK
  <2>4. \A q \in Req : pc'[q] = "store" =>
          key[q] \in Key /\ key'[q] = key[q] /\ mine'[q] = mine[q] /\ pc[q] = "store" /\ mine[q] \in Nat
    BY <1>0, <2>2, HasKey, GatewayAssumption DEF Leave, TypeOK
  <2>5. \A q \in Req : pc'[q] = "idle" => key'[q] = NoKey
    BY <1>0, <2>2 DEF Leave, TypeOK, Stored
  <2>6. \A q \in Req : pc'[q] = "store" => mine'[q] \in 1..ran'[key'[q]]
    BY <1>0, <2>1, <2>4 DEF Stored
  <2> QED
    BY <1>0, <2>1, <2>2, <2>3, <2>5, <2>6 DEF Stored
<1>4. ASSUME NEW p \in Req, Store(p) PROVE Stored'
  <2>1. key[p] \in Key /\ mine[p] \in 1..ran[key[p]] /\ Leave(p) /\ ran' = ran
    BY <1>0, <1>4, HasKey DEF Store, Stored
  <2>2. \A k \in Key : cache'[k] <= ran[k]
    BY <1>0, <1>4, <2>1, GatewayAssumption DEF Store, TypeOK, Stored
  <2> QED
    BY <1>0, <2>1, <2>2 DEF Leave, TypeOK, Stored
<1>5. ASSUME NEW p \in Req, CheckMiss(p) \/ CheckFails(p) PROVE Stored'
  <2>1. /\ pc' = [pc EXCEPT ![p] = pc'[p]] /\ pc'[p] \in {"run", "open"}
        /\ UNCHANGED <<ran, cache, key, mine>>
    BY <1>0, <1>5 DEF CheckMiss, CheckFails, Go, TypeOK
  <2> QED
    BY <1>0, <2>1 DEF TypeOK, Stored
<1>6. ASSUME NEW p \in Req, Execute(p) PROVE Stored'
  <2>1. key[p] \in Key /\ ran[key[p]] \in Nat
    BY <1>0, <1>6, HasKey, GatewayAssumption DEF Execute, TypeOK
  <2>2. /\ \A k \in Key : ran'[k] = IF k = key[p] THEN ran[k] + 1 ELSE ran[k]
        /\ \A q \in Req : mine'[q] = IF q = p THEN ran[key[p]] + 1 ELSE mine[q]
        /\ \A q \in Req : pc'[q] = IF q = p THEN "store" ELSE pc[q]
        /\ key' = key /\ cache' = cache
    BY <1>0, <1>6 DEF Execute, TypeOK
  <2>3. \A k \in Key : cache[k] \in Nat /\ ran[k] \in Nat
    BY <1>0, GatewayAssumption DEF TypeOK
  <2>4. \A k \in Key : cache'[k] <= ran'[k]
    BY <1>0, <2>2, <2>3 DEF Stored
  <2>5. ASSUME NEW q \in Req, pc'[q] = "store" PROVE mine'[q] \in 1..ran'[key'[q]]
    <3>1. CASE q = p
      BY <2>1, <2>2, <3>1
    <3>2. CASE q # p
      <4>1. key[q] \in Key /\ mine[q] \in 1..ran[key[q]]
        BY <1>0, <2>2, <2>5, <3>2, HasKey DEF Stored
      <4> QED
        BY <2>2, <2>3, <3>2, <4>1
    <3> QED
      BY <3>1, <3>2
  <2>6. \A q \in Req : pc'[q] = "idle" => key'[q] = NoKey
    BY <1>0, <2>2 DEF Stored
  <2> QED
    BY <2>4, <2>5, <2>6 DEF Stored
<1>7. ASSUME NEW k \in Key, Expire(k) PROVE Stored'
  <2>1. \A x \in Key : ran[x] \in Nat
    BY <1>0, GatewayAssumption DEF TypeOK
  <2> QED
    BY <1>0, <1>7, <2>1 DEF Expire, TypeOK, Stored
<1>8. ASSUME Stop PROVE Stored'
  BY <1>0, <1>8 DEF Stop, TypeOK, Stored
<1>9. ASSUME Shutdown \/ UNCHANGED vars PROVE Stored'
  BY <1>0, <1>9 DEF Shutdown, vars, Stored
<1> QED
  BY <1>1, <1>2, <1>3, <1>4, <1>5, <1>6, <1>7, <1>8, <1>9
     DEF Next, Around, Handler, Drained, TimedOut, Crash

(* What an excuse is taken for. *)
LEMMA Excused ==
  ASSUME TypeOK, NEW k \in Key, NEW x, Excuse(x), ~excused'[k]
  PROVE  x # k /\ ~excused[k]
BY DEF TypeOK, Excuse

(* A request leaves, after its operation took effect or without.           *)
LEMMA LeaveOrderly ==
  ASSUME Retried, NEW k \in Key, Orderly(k), NEW p \in Req, Leave(p),
         ran' = ran, cache'[k] = cache[k] \/ cache'[k] # 0,
         key[p] = k /\ pc[p] = "store" => cache'[k] # 0
  PROVE  Orderly(k)'
<1>1. TypeOK
  BY DEF Retried, Balanced
<1>2. /\ \A q \in Req : key'[q] = IF q = p THEN NoKey ELSE key[q]
      /\ \A q \in Req : pc'[q] = IF q = p THEN "idle" ELSE pc[q]
  BY <1>1 DEF Leave, TypeOK
<1>3. k # NoKey
  BY GatewayAssumption
<1> QED
  BY <1>2, <1>3 DEF Orderly

LEMMA StepOrderly ==
  ASSUME Retried, [Next]_vars, NEW k \in Key, ~excused'[k]
  PROVE  Orderly(k)'
<1>0. Balanced /\ TypeOK /\ Stored /\ k # NoKey
  BY GatewayAssumption DEF Retried, Balanced
<1>a. ~excused[k] => Orderly(k)
  BY DEF Retried
<1>1. ASSUME NEW p \in Req, NEW g \in Groups, NEW x \in Key \cup {NoKey}, Enter(p, g, x)
      PROVE  Orderly(k)'
  <2>1. /\ pc[p] = "idle" /\ ran' = ran /\ cache' = cache
        /\ \A q \in Req : key'[q] = IF q = p THEN x ELSE key[q]
        /\ \A q \in Req : pc'[q] = IF q = p THEN pc'[p] ELSE pc[q]
        /\ pc'[p] \in {"check", "open"}
    BY <1>0, <1>1 DEF Enter, Admit, TypeOK
  <2>2. CASE x # k
    <3>1. Orderly(k)
      BY <1>0, <1>1, <1>a, Excused DEF Enter, Admit
    <3> QED
      BY <1>0, <2>1, <2>2, <3>1 DEF Orderly, Stored
  <2>3. CASE x = k
    <3>1. /\ UNCHANGED excused /\ ~\E q \in Req : pc[q] # "idle" /\ key[q] = k
          /\ g \in Mutations
      BY <1>0, <1>1, <2>3, Excused DEF Enter, Admit
    <3>2. Orderly(k) /\ pc'[p] = "check"
      BY <1>0, <1>1, <1>a, <2>3, <3>1 DEF Enter, Admit, TypeOK
    <3>3. \A q \in Req : key[q] # k
      BY <1>0, <3>1 DEF Stored
    <3> QED
      BY <2>1, <2>3, <3>2, <3>3 DEF Orderly
  <2> QED
    BY <2>2, <2>3
<1>2. ASSUME NEW p \in Req, CheckHit(p) \/ Refuse(p) PROVE Orderly(k)'
  <2>1. Leave(p) /\ UNCHANGED <<ran, cache, excused>> /\ pc[p] # "store"
    BY <1>2 DEF CheckHit, Refuse
  <2> QED
    BY <1>a, <2>1, LeaveOrderly
<1>3. ASSUME NEW p \in Req, CheckMiss(p) PROVE Orderly(k)'
  <2>1. /\ UNCHANGED <<ran, cache, key, excused>> /\ pc[p] = "check"
        /\ \A q \in Req : pc'[q] = IF q = p THEN "run" ELSE pc[q]
        /\ key[p] = k => cache[k] = 0
    BY <1>0, <1>3 DEF CheckMiss, Go, TypeOK
  <2>2. Orderly(k)
    BY <1>a, <2>1
  <2>3. key[p] = k => ran[k] = 0
    BY <2>1, <2>2 DEF Orderly
  <2> QED
    BY <2>1, <2>2, <2>3 DEF Orderly
<1>4. ASSUME NEW p \in Req, CheckFails(p) PROVE Orderly(k)'
  <2>1. /\ UNCHANGED <<ran, cache, key>> /\ pc[p] = "check"
        /\ \A q \in Req : pc'[q] = IF q = p THEN "open" ELSE pc[q]
    BY <1>0, <1>4 DEF CheckFails, Go, TypeOK
  <2>2. Orderly(k) /\ key[p] # k
    BY <1>0, <1>4, <1>a, Excused DEF CheckFails
  <2> QED
    BY <2>1, <2>2 DEF Orderly
<1>5. ASSUME NEW p \in Req, Execute(p) PROVE Orderly(k)'
  <2>1. /\ pc[p] = "run" /\ UNCHANGED <<key, cache, excused>>
        /\ \A q \in Req : pc'[q] = IF q = p THEN "store" ELSE pc[q]
        /\ ran'[k] = IF k = key[p] THEN ran[k] + 1 ELSE ran[k]
    BY <1>0, <1>5, HasKey DEF Execute, TypeOK
  <2>2. Orderly(k)
    BY <1>a, <2>1
  <2> QED
    BY <2>1, <2>2 DEF Orderly
<1>6. ASSUME NEW p \in Req, ExecuteOpen(p) PROVE Orderly(k)'
  <2>1. /\ pc[p] = "open" /\ Leave(p) /\ UNCHANGED <<cache, excused>>
        /\ ran'[k] = IF k = key[p] THEN ran[k] + 1 ELSE ran[k]
    BY <1>6 DEF ExecuteOpen
  <2>2. Orderly(k) /\ key[p] # k
    BY <1>a, <2>1 DEF Orderly
  <2>3. /\ \A q \in Req : key'[q] = IF q = p THEN NoKey ELSE key[q]
        /\ \A q \in Req : pc'[q] = IF q = p THEN "idle" ELSE pc[q]
    BY <1>0, <2>1 DEF Leave, TypeOK
  <2> QED
    BY <1>0, <2>1, <2>2, <2>3 DEF Orderly
<1>7. ASSUME NEW p \in Req, Store(p) PROVE Orderly(k)'
  <2>1. /\ Leave(p) /\ UNCHANGED <<ran, excused>> /\ key[p] \in Key
        /\ mine[p] \in 1..ran[key[p]]
        /\ cache' = [cache EXCEPT ![key[p]] = IF @ = 0 THEN mine[p] ELSE @]
    BY <1>0, <1>7, HasKey DEF Store, Stored
  <2>2. cache'[k] = cache[k] \/ cache'[k] # 0
    BY <1>0, <2>1 DEF TypeOK
  <2>3. key[p] = k => cache'[k] # 0
    BY <1>0, <2>1 DEF TypeOK
  <2> QED
    BY <1>a, <2>1, <2>2, <2>3, LeaveOrderly
<1>8. ASSUME NEW p \in Req, StoreFails(p) PROVE Orderly(k)'
  <2>1. Leave(p) /\ UNCHANGED <<ran, cache>>
    BY <1>8 DEF StoreFails
  <2>2. Orderly(k) /\ key[p] # k
    BY <1>0, <1>8, <1>a, Excused DEF StoreFails
  <2> QED
    BY <2>1, <2>2, LeaveOrderly
<1>9. ASSUME NEW x \in Key, Expire(x) PROVE Orderly(k)'
  <2>1. Orderly(k) /\ x # k
    BY <1>0, <1>9, <1>a, Excused DEF Expire
  <2>2. cache'[k] = cache[k] /\ UNCHANGED <<ran, pc, key>>
    BY <1>0, <1>9, <2>1 DEF Expire, TypeOK
  <2> QED
    BY <2>1, <2>2 DEF Orderly
<1>10. ASSUME Stop PROVE Orderly(k)'
  <2>1. ~excused[k] /\ ~\E p \in Req : key[p] = k /\ pc[p] = "store"
    BY <1>10 DEF Stop
  <2>2. UNCHANGED <<ran, cache>> /\ \A p \in Req : key'[p] = NoKey
    BY <1>10 DEF Stop
  <2> QED
    BY <1>0, <1>a, <2>1, <2>2 DEF Orderly
<1>11. ASSUME Shutdown \/ UNCHANGED vars PROVE Orderly(k)'
  BY <1>a, <1>11 DEF Shutdown, vars, Orderly
<1> QED
  BY <1>1, <1>2, <1>3, <1>4, <1>5, <1>6, <1>7, <1>8, <1>9, <1>10, <1>11
     DEF Next, Around, Handler, Drained, TimedOut, Crash

LEMMA AlwaysRetried == Spec => []Retried
<1>1. Retried /\ [Next]_vars => Retried'
  BY StepBalanced, StepStored, StepOrderly DEF Retried
<1> QED
  BY <1>1, InitRetried, PTL DEF Spec

(* Without an excuse, an operation takes effect once, however often and    *)
(* however late its request is sent again.                                 *)
THEOREM RepeatsAlwaysExcused == Spec => []RepeatsExcused
<1>1. Retried => RepeatsExcused
  BY GatewayAssumption DEF Retried, Orderly, RepeatsExcused
<1> QED
  BY <1>1, AlwaysRetried, PTL

(* Only an answer that expires makes way for another one. *)
THEOREM FirstReplyAlwaysStays == Spec => FirstReplyStays
<1> DEFINE A == \A k \in Key : cache'[k] # cache[k] =>
                  \/ cache[k] = 0 /\ cache'[k] \in 1..ran[k]
                  \/ cache[k] # 0 /\ cache'[k] = 0 /\ UNCHANGED pc
<1>1. Retried /\ [Next]_vars => [A]_vars
  <2> SUFFICES ASSUME Retried, Next, NEW k \in Key, cache'[k] # cache[k]
               PROVE  \/ cache[k] = 0 /\ cache'[k] \in 1..ran[k]
                      \/ cache[k] # 0 /\ cache'[k] = 0 /\ UNCHANGED pc
    OBVIOUS
  <2>0. Balanced /\ TypeOK /\ Stored
    BY DEF Retried, Balanced
  <2>1. ASSUME NEW p \in Req, Store(p)
        PROVE  cache[k] = 0 /\ cache'[k] \in 1..ran[k]
    <3>1. key[p] \in Key /\ mine[p] \in 1..ran[key[p]]
      BY <2>0, <2>1, HasKey DEF Store, Stored
    <3> QED
      BY <2>0, <2>1, <3>1 DEF Store, TypeOK
  <2>2. ASSUME NEW x \in Key, Expire(x)
        PROVE  cache[k] # 0 /\ cache'[k] = 0 /\ UNCHANGED pc
    BY <2>0, <2>2 DEF Expire, TypeOK
  <2> QED
    BY <2>1, <2>2
       DEF Next, Around, Handler, Enter, Admit, CheckHit, CheckMiss, CheckFails, Refuse,
           Execute, ExecuteOpen, StoreFails, Shutdown, Drained, TimedOut, Crash, Stop
<1>2. Spec => [][A]_vars
  BY <1>1, AlwaysRetried, PTL DEF Spec
<1> QED
  BY <1>2 DEF FirstReplyStays
=============================================================================
