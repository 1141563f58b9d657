--------------------------- MODULE CircuitBreaker ---------------------------
(***************************************************************************)
(* The circuit breaker of one path (internal/middleware/circuit_breaker.go)*)
(* with several requests to that path in flight.  allow, recordSuccess and *)
(* recordFailure hold the mutex, so each is one step; the handler runs     *)
(* between allow and the record, and other requests run meanwhile.         *)
(***************************************************************************)
EXTENDS Naturals, FiniteSets

CONSTANTS
  Req,        \* requests to the path
  Threshold   \* failures that open the circuit

ASSUME BreakerAssumption == Threshold \in Nat \ {0}

VARIABLES
  state,     \* "closed", "open" or "halfopen"
  failures,  \* consecutive failures, counted up to Threshold
  cooled,    \* the cooldown since the last failure is over
  pc,        \* pc[p]: "idle", or "running" between allow and the record
  probe      \* the requests let through to probe a half-open circuit

vars == <<state, failures, cooled, pc, probe>>

Init ==
  /\ state = "closed"
  /\ failures = 0
  /\ cooled = TRUE
  /\ pc = [p \in Req |-> "idle"]
  /\ probe = {}

-----------------------------------------------------------------------------
Run(p) == pc[p] = "idle" /\ pc' = [pc EXCEPT ![p] = "running"]

(* allow in the closed state. *)
AllowClosed(p) ==
  /\ state = "closed"
  /\ Run(p)
  /\ UNCHANGED <<state, failures, cooled, probe>>

(* allow in the open state after the cooldown: p is the probe. *)
AllowProbe(p) ==
  /\ state = "open" /\ cooled
  /\ Run(p)
  /\ state' = "halfopen"
  /\ probe' = probe \cup {p}
  /\ UNCHANGED <<failures, cooled>>

(* In every other case allow returns false: 503. *)
Reject(p) ==
  /\ pc[p] = "idle"
  /\ state = "halfopen" \/ (state = "open" /\ ~cooled)
  /\ UNCHANGED vars

Finish(p) ==
  /\ pc[p] = "running"
  /\ pc' = [pc EXCEPT ![p] = "idle"]
  /\ probe' = probe \ {p}

(* Mutants: a success does not reset the counter, or only takes one off.   *)
recordSuccessNoReset(p) ==
  /\ Finish(p)
  /\ state' = "closed"
  /\ UNCHANGED <<failures, cooled>>

recordSuccessCountDown(p) ==
  /\ Finish(p)
  /\ failures' = failures - 1
  /\ state' = "closed"
  /\ UNCHANGED cooled

recordSuccess(p) ==
  /\ Finish(p)
  /\ failures' = 0
  /\ state' = "closed"
  /\ UNCHANGED cooled

(* Mutant: the circuit opens only from closed. *)
recordFailureClosedOnly(p) ==
  /\ Finish(p)
  /\ failures' = IF failures < Threshold THEN failures + 1 ELSE failures
  /\ cooled' = FALSE
  /\ state' = IF state = "closed" /\ failures' >= Threshold THEN "open" ELSE state

(* Only whether failures has reached the threshold is ever read, so it     *)
(* stops counting there.                                                   *)
recordFailure(p) ==
  /\ Finish(p)
  /\ failures' = IF failures < Threshold THEN failures + 1 ELSE failures
  /\ cooled' = FALSE
  /\ state' = IF failures' >= Threshold THEN "open" ELSE state

(* Time passes. *)
Cooldown ==
  /\ ~cooled
  /\ cooled' = TRUE
  /\ UNCHANGED <<state, failures, pc, probe>>

Next ==
  \/ \E p \in Req : \/ AllowClosed(p) \/ AllowProbe(p) \/ Reject(p)
                    \/ recordSuccess(p) \/ recordFailure(p)
  \/ Cooldown

Spec == Init /\ [][Next]_vars

(* Handlers return (they do not hang, and here do not panic).  No client   *)
(* has to send anything.                                                   *)
LiveSpec == Spec /\ \A p \in Req : WF_vars(recordSuccess(p) \/ recordFailure(p))

(* A panic unwinds past the record to the Recovery middleware. *)
Panic(p) ==
  /\ Finish(p)
  /\ UNCHANGED <<state, failures, cooled>>

PanicSpec == Init /\ [][Next \/ \E p \in Req : Panic(p)]_vars

-----------------------------------------------------------------------------
TypeOK ==
  /\ state \in {"closed", "open", "halfopen"}
  /\ failures \in 0..Threshold
  /\ cooled \in BOOLEAN
  /\ pc \in [Req -> {"idle", "running"}]
  /\ probe \subseteq {p \in Req : pc[p] = "running"}

(* The state and the counter, written in different orders by late results  *)
(* of requests admitted in earlier states, never disagree: the circuit is  *)
(* closed exactly while fewer than Threshold failures follow the last      *)
(* success.                                                                *)
OpensAtThreshold == state = "closed" <=> failures < Threshold

(* stateHalfOpen is "allowing one probe request": a half-open circuit has  *)
(* its probe on its way, for nothing else is let through and only a result *)
(* moves it.  True as long as no handler panics.                           *)
HalfOpenProbed == state = "halfopen" => probe # {}

(* A half-open circuit is decided: its probe, or a late result, opens or   *)
(* closes it.                                                              *)
ProbeDecides == state = "halfopen" ~> state # "halfopen"
=============================================================================
