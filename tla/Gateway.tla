------------------------------ MODULE Gateway -------------------------------
(***************************************************************************)
(* The middleware around the handlers that change something: the bulkhead  *)
(* of the route group, then, for customers and drones, the idempotency     *)
(* cache, then the handler.  Many requests run at once; a client may send  *)
(* a request again under the same Idempotency-Key.  The process is shut    *)
(* down and started again; Redis keeps its entries meanwhile.              *)
(*                                                                         *)
(* A key stands for a (user, Idempotency-Key) pair, and for the one        *)
(* operation the client wants done under it.                               *)
(***************************************************************************)
EXTENDS Naturals, FiniteSets

CONSTANTS
  Req,        \* slots for requests being served
  Key,        \* idempotency keys
  NoKey,      \* no Idempotency-Key header
  Groups,     \* the route groups that are used
  MutationPool, HeartbeatPool, AdminPool, \* permits of a bulkhead
  Overlap,    \* a client may send a key again before it has an answer
  Faults,     \* what may fail: "redis", "disconnect", "expire", "crash"
  MaxRuns     \* bound of the model: executions per key

(* The route groups with their own bulkhead.  Those of customers and       *)
(* drones each have one of the size of the mutation pool.                  *)
Mutations == {"enduser", "drone"}

Capacity(g) == IF g \in Mutations THEN MutationPool
               ELSE IF g = "heartbeat" THEN HeartbeatPool ELSE AdminPool

ASSUME GatewayAssumption ==
  /\ Groups \subseteq Mutations \cup {"heartbeat", "admin"}
  /\ {MutationPool, HeartbeatPool, AdminPool, MaxRuns} \subseteq Nat \ {0}
  /\ Overlap \in BOOLEAN /\ NoKey \notin Key /\ IsFiniteSet(Req)
  /\ Faults \subseteq {"redis", "disconnect", "expire", "crash"}

VARIABLES
  serving, \* the process accepts requests; FALSE: it is shutting down
  sem,     \* sem[g]: permits taken from the bulkhead of g
  pc,      \* pc[p]: "idle", "check", "run", "open" (run, never store) or "store"
  group,   \* group[p]: the route group of request p
  key,     \* key[p]: its key
  ran,     \* ran[k]: how often the operation of k took effect
  mine,    \* mine[p]: which of these executions p was
  cache,   \* cache[k]: the execution whose response Redis holds, or 0
  excused  \* history, for the properties: why a key may run again

vars == <<serving, sem, pc, group, key, ran, mine, cache, excused>>

InFlight(g) == {p \in Req : pc[p] # "idle" /\ group[p] = g}

Init ==
  /\ serving = TRUE
  /\ sem = [g \in Groups |-> 0]
  /\ pc = [p \in Req |-> "idle"]
  /\ group \in {[p \in Req |-> g] : g \in Groups}
  /\ key = [p \in Req |-> NoKey]
  /\ ran = [k \in Key |-> 0]
  /\ mine = [p \in Req |-> 0]
  /\ cache = [k \in Key |-> 0]
  /\ excused = [k \in Key |-> FALSE]

Excuse(k) == excused' = [x \in Key |-> excused[x] \/ x = k]

-----------------------------------------------------------------------------

(* A request of group g with key k enters.  Only the groups of Mutations   *)
(* look at the key.                                                        *)
Admit(p, g, k) ==
  LET together == \E q \in Req : pc[q] # "idle" /\ key[q] = k IN
  /\ pc[p] = "idle"
  /\ k = NoKey \/ Overlap \/ ~together
  /\ group' = [group EXCEPT ![p] = g]
  /\ key' = [key EXCEPT ![p] = k]
  /\ pc' = [pc EXCEPT ![p] = IF g \in Mutations /\ k # NoKey THEN "check" ELSE "open"]
  /\ IF together \/ g \notin Mutations THEN Excuse(k) ELSE UNCHANGED excused
  /\ UNCHANGED <<serving, ran, mine, cache>>

(* Mutant: no permit is taken. *)
EnterWithoutPermit(p, g, k) == Admit(p, g, k) /\ UNCHANGED sem

(* Bulkhead: without a permit the answer is 503 and nothing happens. *)
Enter(p, g, k) ==
  /\ serving
  /\ sem[g] < Capacity(g)
  /\ sem' = [sem EXCEPT ![g] = @ + 1]
  /\ Admit(p, g, k)

(* The deferred release of the permit. *)
Leave(p) ==
  /\ sem' = [sem EXCEPT ![group[p]] = @ - 1]
  /\ pc' = [pc EXCEPT ![p] = "idle"]
  /\ key' = [key EXCEPT ![p] = NoKey]
  /\ mine' = [mine EXCEPT ![p] = 0]
  /\ UNCHANGED <<serving, group>>

Go(p, next) ==
  /\ pc' = [pc EXCEPT ![p] = next]
  /\ UNCHANGED <<serving, sem, group, key, mine>>

-----------------------------------------------------------------------------
(* Idempotency. *)

(* Mutant: a cached answer keeps its permit. *)
CheckHitKeepsPermit(p) ==
  /\ pc[p] = "check" /\ cache[key[p]] # 0
  /\ pc' = [pc EXCEPT ![p] = "idle"]
  /\ key' = [key EXCEPT ![p] = NoKey]
  /\ UNCHANGED <<serving, sem, group, ran, mine, cache, excused>>

CheckHit(p) ==
  /\ pc[p] = "check" /\ cache[key[p]] # 0
  /\ Leave(p)
  /\ UNCHANGED <<ran, cache, excused>>

CheckMiss(p) ==
  /\ pc[p] = "check" /\ cache[key[p]] = 0
  /\ Go(p, "run")
  /\ UNCHANGED <<ran, cache, excused>>

(* Redis does not answer: fail open. *)
CheckFails(p) ==
  /\ "redis" \in Faults
  /\ pc[p] = "check"
  /\ Go(p, "open")
  /\ Excuse(key[p])
  /\ UNCHANGED <<ran, cache>>

(* The handler refuses or fails: it changes nothing and its answer is not  *)
(* cached.                                                                 *)
Refuse(p) ==
  /\ pc[p] \in {"run", "open"}
  /\ Leave(p)
  /\ UNCHANGED <<ran, cache, excused>>

(* The handler takes effect, with a 2xx answer. *)
Execute(p) ==
  /\ pc[p] = "run" /\ ran[key[p]] < MaxRuns
  /\ ran' = [ran EXCEPT ![key[p]] = @ + 1]
  /\ mine' = [mine EXCEPT ![p] = ran[key[p]] + 1]
  /\ pc' = [pc EXCEPT ![p] = "store"]
  /\ UNCHANGED <<serving, sem, group, key, cache, excused>>

ExecuteOpen(p) ==
  /\ pc[p] = "open"
  /\ key[p] # NoKey => ran[key[p]] < MaxRuns
  /\ ran' = [k \in Key |-> IF k = key[p] THEN ran[k] + 1 ELSE ran[k]]
  /\ Leave(p)
  /\ UNCHANGED <<cache, excused>>

(* Mutants: SET instead of SETNX, and an answer that is not stored. *)
StoreOverwrites(p) ==
  /\ pc[p] = "store"
  /\ cache' = [cache EXCEPT ![key[p]] = mine[p]]
  /\ Leave(p)
  /\ UNCHANGED <<ran, excused>>

StoreNothing(p) ==
  /\ pc[p] = "store"
  /\ Leave(p)
  /\ UNCHANGED <<ran, cache, excused>>

(* SETNX: the first response stored stays. *)
Store(p) ==
  /\ pc[p] = "store"
  /\ cache' = [cache EXCEPT ![key[p]] = IF @ = 0 THEN mine[p] ELSE @]
  /\ Leave(p)
  /\ UNCHANGED <<ran, excused>>

(* Set uses the context of the request, which ends with its connection:    *)
(* for a client that has given up, as when Redis does not answer, nothing  *)
(* is stored.                                                              *)
StoreFails(p) ==
  /\ Faults \cap {"redis", "disconnect"} # {}
  /\ pc[p] = "store"
  /\ Leave(p)
  /\ Excuse(key[p])
  /\ UNCHANGED <<ran, cache>>

(* The time to live of a cached response is over. *)
Expire(k) ==
  /\ "expire" \in Faults
  /\ cache[k] # 0
  /\ cache' = [cache EXCEPT ![k] = 0]
  /\ Excuse(k)
  /\ UNCHANGED <<serving, sem, pc, group, key, ran, mine>>

-----------------------------------------------------------------------------
(* main.go. *)

(* SIGINT or SIGTERM: the server stops listening; requests go on. *)
Shutdown ==
  /\ serving
  /\ serving' = FALSE
  /\ UNCHANGED <<sem, pc, group, key, ran, mine, cache, excused>>

(* The process ends and is started again.  What it was doing is lost, and  *)
(* an operation that took effect, but whose answer is not stored yet, may  *)
(* run again.                                                              *)
Stop ==
  /\ serving' = TRUE
  /\ sem' = [g \in Groups |-> 0]
  /\ pc' = [p \in Req |-> "idle"]
  /\ key' = [p \in Req |-> NoKey]
  /\ mine' = [p \in Req |-> 0]
  /\ excused' = [k \in Key |-> excused[k] \/ \E p \in Req : key[p] = k /\ pc[p] = "store"]
  /\ UNCHANGED <<group, ran, cache>>

(* Shutdown returns when no request is left, or when its time is up: then  *)
(* log.Fatalf ends the process.                                            *)
Drained  == ~serving /\ (\A p \in Req : pc[p] = "idle") /\ Stop
TimedOut == ~serving /\ Stop

Crash == "crash" \in Faults /\ Stop

(* Steps that change nothing but the state of this module, and the steps   *)
(* that run a handler.                                                     *)
Around ==
  \/ \E p \in Req :
       \/ \E g \in Groups, k \in Key \cup {NoKey} : Enter(p, g, k)
       \/ CheckHit(p) \/ CheckMiss(p) \/ CheckFails(p)
       \/ Refuse(p) \/ Store(p) \/ StoreFails(p)
  \/ \E k \in Key : Expire(k)
  \/ Shutdown \/ Drained \/ TimedOut \/ Crash

Handler(p) == Execute(p) \/ ExecuteOpen(p)

Next == Around \/ \E p \in Req : Handler(p)

Spec == Init /\ [][Next]_vars

-----------------------------------------------------------------------------
TypeOK ==
  /\ serving \in BOOLEAN
  /\ sem \in [Groups -> Nat]
  /\ pc \in [Req -> {"idle", "check", "run", "open", "store"}]
  /\ group \in [Req -> Groups]
  /\ key \in [Req -> Key \cup {NoKey}]
  /\ ran \in [Key -> 0..MaxRuns]
  /\ mine \in [Req -> 0..MaxRuns]
  /\ cache \in [Key -> 0..MaxRuns]
  /\ excused \in [Key -> BOOLEAN]

(* Every path out of a handler returns its permit, and none returns it     *)
(* twice, across restarts too: a bulkhead never shrinks, and never admits  *)
(* more than its size.  The sizes are per group: customers and drones have *)
(* a pool of MutationPool each, so together twice as many mutations.       *)
PermitsBalance ==
  \A g \in Groups : sem[g] = Cardinality(InFlight(g)) /\ sem[g] <= Capacity(g)

(* Once a response is cached it is the one every retry gets until it       *)
(* expires, also when attempts that overlapped with the first store theirs *)
(* later; and a cached response is that of an execution that took effect.  *)
FirstReplyStays ==
  [][\A k \in Key : cache'[k] # cache[k] =>
       \/ cache[k] = 0 /\ cache'[k] \in 1..ran[k]
       \/ cache[k] # 0 /\ cache'[k] = 0 /\ UNCHANGED pc]_vars

(* An operation takes effect again only after attempts that overlapped, a  *)
(* route without the middleware, an answer that Redis could not give or    *)
(* was not given, one that expired, or a process that ended between effect *)
(* and answer: retries one after the other are safe, and so is a shutdown  *)
(* that drains.                                                            *)
RepeatsExcused == \A k \in Key : ran[k] > 1 => excused[k]

(* README: "Idempotency-Key header ... Safe retries for all mutation       *)
(* endpoints": however often a client retries, its operation takes effect  *)
(* once.                                                                   *)
SafeRetries == \A k \in Key : ran[k] <= 1
=============================================================================
