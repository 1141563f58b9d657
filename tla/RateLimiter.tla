---------------------------- MODULE RateLimiter ----------------------------
(***************************************************************************)
(* The rate limiter of one client address (internal/redis/rate_limiter.go  *)
(* behind internal/middleware/rate_limiter.go).  Allow sends Redis four    *)
(* commands in a pipeline, which is no transaction: the commands of other  *)
(* requests may run between them.                                          *)
(*                                                                         *)
(* Time is counted in ticks of which a window has Window; it may pass, and *)
(* the key may expire, between any two commands.  Redis and the limiter    *)
(* share the clock.  Every request is served once.                         *)
(***************************************************************************)
EXTENDS Integers, FiniteSets

CONSTANTS
  Req,          \* the requests of the client
  MaxRequests,  \* requests admitted per window
  Window,       \* ticks of a window
  Concurrency,  \* pipelines under way at once
  Horizon       \* bound of the model: the last tick

ASSUME RateLimiterAssumption ==
  /\ MaxRequests \in Nat /\ Window \in Nat \ {0} /\ Concurrency \in Nat \ {0}
  /\ Horizon \in Nat /\ IsFiniteSet(Req)

VARIABLES
  now,      \* the clock
  pc,       \* pc[p]: the next command of p, or "new", or its outcome
  at,       \* at[p]: when p asked
  last,     \* last[p]: when Redis ran the latest command of p (history)
  seen,     \* seen[p]: the reply to its ZCARD
  log,      \* the sorted set: the requests in it, with score at[p]
  merged,   \* those that asked in the nanosecond of an entry (history)
  expires   \* when Redis drops the key; after Horizon: no time to live

vars == <<now, pc, at, last, seen, log, merged, expires>>

Never == Horizon + Window + 1

Commands == {"zremrangebyscore", "zcard", "zadd", "expire"}
Outcomes == {"allowed", "refused", "failed_open"}

InPipeline == {p \in Req : pc[p] \in Commands}

Init ==
  /\ now = 0
  /\ pc = [p \in Req |-> "new"]
  /\ at = [p \in Req |-> 0]
  /\ last = [p \in Req |-> 0]
  /\ seen = [p \in Req |-> 0]
  /\ log = {}
  /\ merged = {}
  /\ expires = Never

-----------------------------------------------------------------------------
(* Mutant: the score is the start of the window. *)
AskInThePast(p) ==
  /\ pc[p] = "new"
  /\ Cardinality(InPipeline) < Concurrency
  /\ pc' = [pc EXCEPT ![p] = "zremrangebyscore"]
  /\ at' = [at EXCEPT ![p] = now - Window]
  /\ last' = [last EXCEPT ![p] = now]
  /\ UNCHANGED <<now, seen, log, merged, expires>>

Ask(p) ==
  /\ pc[p] = "new"
  /\ Cardinality(InPipeline) < Concurrency
  /\ pc' = [pc EXCEPT ![p] = "zremrangebyscore"]
  /\ at' = [at EXCEPT ![p] = now]
  /\ last' = [last EXCEPT ![p] = now]
  /\ UNCHANGED <<now, seen, log, merged, expires>>

Command(p, this, next) ==
  /\ pc[p] = this
  /\ pc' = [pc EXCEPT ![p] = next]
  /\ last' = [last EXCEPT ![p] = now]
  /\ UNCHANGED <<now, at>>

(* A sorted set that becomes empty is gone, and its time to live with it.  *)
Kept(entries) == IF entries = {} THEN Never ELSE expires

(* Scores from 0 to the start of the window, inclusive. *)
Trim(p) ==
  /\ Command(p, "zremrangebyscore", "zcard")
  /\ log' = {q \in log : at[q] > at[p] - Window}
  /\ expires' = Kept(log')
  /\ UNCHANGED <<seen, merged>>

(* Mutant: the requests of earlier windows count as well. *)
CountEverything(p) ==
  /\ Command(p, "zcard", "zadd")
  /\ seen' = [seen EXCEPT ![p] =
       Cardinality({q \in Req : pc[q] \in {"expire"} \cup Outcomes})]
  /\ UNCHANGED <<log, merged, expires>>

Count(p) ==
  /\ Command(p, "zcard", "zadd")
  /\ seen' = [seen EXCEPT ![p] = Cardinality(log)]
  /\ UNCHANGED <<log, merged, expires>>

(* A request is recorded whether or not it will be admitted.  The member   *)
(* is the nanosecond: a second request of the same one adds nothing.       *)
Add(p) ==
  /\ Command(p, "zadd", "expire")
  /\ \/ log' = log \cup {p} /\ UNCHANGED merged
     \/ \E q \in log : at[q] = at[p] /\ merged' = merged \cup {p} /\ UNCHANGED log
  /\ UNCHANGED <<seen, expires>>

(* Mutant: one request too many. *)
AdmittedOneMore(p) == seen[p] <= MaxRequests

Admitted(p) == seen[p] < MaxRequests

(* EXPIRE renews the time to live of a key that exists. *)
Renewed == IF log = {} THEN expires ELSE now + Window

(* Mutant: only a key without a time to live gets one (EXPIRE with NX). *)
DecideOnce(p) ==
  /\ Command(p, "expire", IF Admitted(p) THEN "allowed" ELSE "refused")
  /\ expires' = IF expires = Never THEN Renewed ELSE expires
  /\ UNCHANGED <<seen, log, merged>>

(* The last command, and the decision of Allow. *)
Decide(p) ==
  /\ Command(p, "expire", IF Admitted(p) THEN "allowed" ELSE "refused")
  /\ expires' = Renewed
  /\ UNCHANGED <<seen, log, merged>>

(* The pipeline breaks off anywhere, perhaps after its last command: the   *)
(* middleware fails open.                                                  *)
Fail(p) ==
  /\ pc[p] \in Commands
  /\ pc' = [pc EXCEPT ![p] = "failed_open"]
  /\ expires' \in {expires} \cup {t \in {Renewed} : pc[p] = "expire"}
  /\ UNCHANGED <<now, at, last, seen, log, merged>>

(* Redis drops a key whose time is up. *)
Tick ==
  /\ now < Horizon
  /\ now' = now + 1
  /\ IF expires <= now'
     THEN log' = {} /\ expires' = Never
     ELSE UNCHANGED <<log, expires>>
  /\ UNCHANGED <<pc, at, last, seen, merged>>

Next ==
  \/ \E p \in Req : Ask(p) \/ Trim(p) \/ Count(p) \/ Add(p) \/ Decide(p) \/ Fail(p)
  \/ Tick

Spec == Init /\ [][Next]_vars

-----------------------------------------------------------------------------
(* Those of the requests S that asked in the window that ends at time t.   *)
(* Requests of one nanosecond are one.                                     *)
InWindow(S, t) == {p \in S \ merged : at[p] > t - Window /\ at[p] <= t}

Added == {p \in Req : pc[p] \in {"expire", "allowed", "refused"}}

Allowed == {p \in Req : pc[p] = "allowed"}

(* Type invariant: clock, phases and replies are in range, and the set     *)
(* holds requests only.                                                    *)
TypeOK ==
  /\ now \in 0..Horizon
  /\ pc \in [Req -> {"new"} \cup Commands \cup Outcomes]
  /\ at \in [Req -> 0..Horizon] /\ last \in [Req -> 0..Horizon]
  /\ seen \in [Req -> 0..Cardinality(Req)]
  /\ log \subseteq Req /\ merged \subseteq Req
  /\ expires \in 0..Never

(* The key may expire between the ZADD and the EXPIRE of a request, which  *)
(* is then decided and yet in no later count.  That happens to no more     *)
(* requests of one window than may be under way at once.                   *)
FewForgotten == Cardinality(InWindow(Added, now) \ log) <= Concurrency

(* Interleaved pipelines admit more than MaxRequests, but no more than one *)
(* for every other pipeline under way, besides those that are forgotten.   *)
OvershootBound ==
  MaxRequests > 0 =>
    Cardinality(InWindow(Allowed, now) \cap log) <= MaxRequests + Concurrency - 1

(* No client that keeps to the limit is refused: whoever is refused shares *)
(* the time from the start of its window to its last command with          *)
(* MaxRequests other requests.                                             *)
RefusedOnlyOverLimit ==
  \A p \in Req : pc[p] = "refused" =>
    Cardinality({q \in Req \ {p} : /\ pc[q] # "new" /\ at[q] <= last[p]
                                   /\ last[q] > at[p] - Window}) >= MaxRequests
=============================================================================
