-------------------------- MODULE RateLimiterProofs --------------------------
(***************************************************************************)
(* The rate limiter, for any number of requests, any limit and window, and *)
(* however the commands of their pipelines interleave or break off, time   *)
(* passes between them, or the key expires.                                *)
(***************************************************************************)
EXTENDS RateLimiter, FiniteSetTheorems, TLAPS

Decided == {"allowed", "refused"}

(* A command runs after its request asked; a key is dropped on time, and   *)
(* only a key that exists has a time to live.                              *)
Times ==
  /\ \A p \in Req : at[p] <= last[p] /\ last[p] <= now
  /\ expires > now
  /\ log = {} => expires = Never

(* The key outlives the window of every request decided on, and of every   *)
(* request that it lost in the middle of its pipeline.                     *)
Outlives ==
  \A p \in Req :
    pc[p] \in Decided \/ (pc[p] = "expire" /\ p \notin log \cup merged) =>
      expires >= at[p] + Window

(* Only requests that were added are in the set; when one is about to be   *)
(* counted against it, what is older than its window was added after it    *)
(* trimmed.                                                                *)
Logged ==
  /\ \A q \in log : pc[q] \in {"expire", "failed_open"} \cup Decided
  /\ \A p \in Req : pc[p] = "zcard" => \A q \in log : last[q] > at[p] - Window

(* The requests that share the time of p. *)
Others(p) == {q \in Req \ {p} : /\ pc[q] # "new" /\ at[q] <= last[p]
                                /\ last[q] > at[p] - Window}

(* What was counted did ask. *)
Counted ==
  /\ \A p \in Req : pc[p] \in {"zadd", "expire"} \cup Decided => seen[p] <= Cardinality(Others(p))
  /\ \A p \in Req : pc[p] = "refused" => seen[p] >= MaxRequests

FewAtOnce == Cardinality(InPipeline) <= Concurrency

IInv == TypeOK /\ Times /\ Outlives /\ Logged /\ Counted /\ FewAtOnce /\ FewForgotten

LEMMA Constants ==
  /\ MaxRequests \in Nat /\ Window \in Nat /\ Window > 0 /\ Concurrency \in Nat /\ Concurrency > 0
  /\ Horizon \in Nat /\ Never \in Nat /\ Never = Horizon + Window + 1 /\ IsFiniteSet(Req)
  /\ Cardinality(Req) \in Nat
BY RateLimiterAssumption, FS_CardinalityType DEF Never

LEMMA SmallerSet ==
  ASSUME NEW S \in SUBSET Req, NEW T \in SUBSET S, NEW n \in Int, Cardinality(S) <= n
  PROVE  Cardinality(T) <= n
<1>1. IsFiniteSet(S) /\ IsFiniteSet(T)
  BY FS_Subset, Constants
<1>2. Cardinality(T) <= Cardinality(S)
  BY <1>1, FS_Subset
<1> QED
  BY <1>1, <1>2, FS_CardinalityType

LEMMA Sizes == \A S \in SUBSET Req : Cardinality(S) \in Nat
BY FS_Subset, FS_CardinalityType, Constants

LEMMA TwoSets ==
  ASSUME NEW S \in SUBSET Req, NEW T \in SUBSET Req, NEW n \in Int,
         Cardinality(S) + Cardinality(T) <= n
  PROVE  S \cup T \in SUBSET Req /\ Cardinality(S \cup T) <= n
<1>1. IsFiniteSet(S) /\ IsFiniteSet(T)
  BY FS_Subset, Constants
<1>2. Cardinality(S \cup T) = Cardinality(S) + Cardinality(T) - Cardinality(S \cap T)
  BY <1>1, FS_Union
<1>3. S \cap T \in SUBSET Req
  OBVIOUS
<1>4. /\ Cardinality(S) \in Nat /\ Cardinality(T) \in Nat /\ Cardinality(S \cap T) \in Nat
  BY <1>3, Sizes
<1> QED
  BY <1>2, <1>4

LEMMA InitIInv == Init => IInv
<1> SUFFICES ASSUME Init PROVE IInv
  OBVIOUS
<1>1. TypeOK
  BY Constants DEF Init, TypeOK
<1>2. Times /\ Outlives /\ Logged /\ Counted
  BY Constants DEF Init, Times, Outlives, Logged, Counted, Commands, Decided
<1>3. InPipeline = {} /\ InWindow(Added, now) \ log = {}
  BY DEF Init, InPipeline, InWindow, Added, Commands
<1>4. FewAtOnce /\ FewForgotten
  BY <1>3, FS_EmptySet, Constants DEF FewAtOnce, FewForgotten
<1> QED
  BY <1>1, <1>2, <1>4 DEF IInv

(* A command moves its own request on. *)
LEMMA CommandMoves ==
  ASSUME TypeOK, NEW p \in Req, NEW this \in Commands, NEW next, Command(p, this, next)
  PROVE  /\ pc[p] = this /\ UNCHANGED <<now, at>>
         /\ \A q \in Req : pc'[q] = IF q = p THEN next ELSE pc[q]
         /\ \A q \in Req : last'[q] = IF q = p THEN now ELSE last[q]
BY DEF TypeOK, Command

(* What the step of one request leaves alone. *)
LEMMA StepOf ==
  ASSUME TypeOK, NEW p \in Req,
         Ask(p) \/ Trim(p) \/ Count(p) \/ Add(p) \/ Decide(p) \/ Fail(p)
  PROVE  /\ now' = now
         /\ \A q \in Req \ {p} : /\ pc'[q] = pc[q] /\ at'[q] = at[q] /\ last'[q] = last[q]
                                 /\ seen'[q] = seen[q]
         /\ last'[p] \in {last[p], now} /\ pc'[p] # "new"
         /\ pc[p] = "new" => /\ at'[p] = now /\ last'[p] = now /\ Ask(p)
                             /\ pc'[p] = "zremrangebyscore"
         /\ pc[p] # "new" => pc[p] \in Commands /\ at'[p] = at[p]
<1>1. CASE Ask(p)
  BY <1>1 DEF Ask, TypeOK
<1>2. CASE Trim(p)
  BY <1>2, CommandMoves DEF Trim, Commands
<1>3. CASE Count(p)
  <2>1. \A q \in Req \ {p} : seen'[q] = seen[q]
    BY <1>3 DEF Count, TypeOK
  <2> QED
    BY <1>3, <2>1, CommandMoves DEF Count, Commands
<1>4. CASE Add(p)
  BY <1>4, CommandMoves DEF Add, Commands
<1>5. CASE Decide(p)
  BY <1>5, CommandMoves DEF Decide, Commands
<1>6. CASE Fail(p)
  BY <1>6 DEF Fail, TypeOK, Commands
<1> QED
  BY <1>1, <1>2, <1>3, <1>4, <1>5, <1>6

(* The types, step by step. *)
LEMMA TypeStep == ASSUME IInv, Next PROVE TypeOK'
<1>0. TypeOK
  BY DEF IInv
<1>1. ASSUME NEW p \in Req, Ask(p) PROVE TypeOK'
  BY <1>0, <1>1, Constants DEF Ask, TypeOK, Commands
<1>2. ASSUME NEW p \in Req, Trim(p) PROVE TypeOK'
  <2>1. log' \subseteq Req /\ expires' \in 0..Never
    BY <1>0, <1>2, Constants DEF Trim, Kept, TypeOK
  <2> QED
    BY <1>0, <1>2, <2>1 DEF Trim, Command, TypeOK, Commands
<1>3. ASSUME NEW p \in Req, Count(p) PROVE TypeOK'
  <2>1. Cardinality(log) \in 0..Cardinality(Req)
    BY <1>0, FS_Subset, FS_CardinalityType, Constants DEF TypeOK
  <2> QED
    BY <1>0, <1>3, <2>1 DEF Count, Command, TypeOK, Commands
<1>4. ASSUME NEW p \in Req, Add(p) PROVE TypeOK'
  <2>1. log' \subseteq Req /\ merged' \subseteq Req
    BY <1>0, <1>4 DEF Add, TypeOK
  <2> QED
    BY <1>0, <1>4, <2>1 DEF Add, Command, TypeOK, Commands
<1>5. ASSUME NEW p \in Req, Decide(p) PROVE TypeOK'
  <2>1. expires' \in 0..Never
    BY <1>0, <1>5, Constants DEF Decide, Command, TypeOK, Renewed
  <2> QED
    BY <1>0, <1>5, <2>1 DEF Decide, Command, TypeOK, Outcomes
<1>6. ASSUME NEW p \in Req, Fail(p) PROVE TypeOK'
  <2>1. expires' \in 0..Never
    BY <1>0, <1>6, Constants DEF Fail, TypeOK, Renewed
  <2> QED
    BY <1>0, <1>6, <2>1 DEF Fail, TypeOK, Outcomes
<1>7. ASSUME Tick PROVE TypeOK'
  <2>1. now' \in 0..Horizon
    BY <1>0, <1>7, Constants DEF Tick, TypeOK
  <2>2. log' \subseteq Req /\ expires' \in 0..Never
    BY <1>0, <1>7, Constants DEF Tick, TypeOK
  <2>3. at \in [Req -> 0..Horizon] /\ last \in [Req -> 0..Horizon]
    BY <1>0 DEF TypeOK
  <2> QED
    BY <1>0, <1>7, <2>1, <2>2, <2>3 DEF Tick, TypeOK
<1> QED
  BY <1>1, <1>2, <1>3, <1>4, <1>5, <1>6, <1>7 DEF Next

LEMMA Typed ==
  ASSUME TypeOK
  PROVE  /\ now \in Nat /\ now <= Horizon /\ expires \in Nat /\ expires <= Never
         /\ \A p \in Req : at[p] \in Nat /\ last[p] \in Nat /\ seen[p] \in Nat
BY Constants DEF TypeOK

LEMMA TimesStep == ASSUME IInv, Next PROVE Times'
<1>0. TypeOK /\ Times
  BY DEF IInv
<1>1. ASSUME NEW p \in Req, Ask(p) \/ Trim(p) \/ Count(p) \/ Add(p) \/ Decide(p) \/ Fail(p)
      PROVE  Times'
  <2>1. \A q \in Req : at'[q] <= last'[q] /\ last'[q] <= now'
    <3>1. \A q \in Req \ {p} : at'[q] <= last'[q] /\ last'[q] <= now'
      BY <1>0, <1>1, StepOf DEF Times
    <3>2. at'[p] <= last'[p] /\ last'[p] <= now'
      BY <1>0, <1>1, StepOf, Typed DEF Times
    <3> QED
      BY <3>1, <3>2
  <2>2. expires' > now' /\ (log' = {} => expires' = Never)
    <3>1. CASE Ask(p) \/ Count(p)
      BY <1>0, <3>1 DEF Ask, Count, Command, Times
    <3>2. CASE Trim(p)
      <4>1. expires' = (IF log' = {} THEN Never ELSE expires) /\ now' = now
        BY <3>2 DEF Trim, Command, Kept
      <4>2. Never > now /\ expires > now
        BY <1>0, Constants, Typed DEF Times
      <4> QED
        BY <4>1, <4>2, Zenon
    <3>3. CASE Add(p)
      BY <1>0, <3>3 DEF Add, Command, Times
    <3>4. CASE Decide(p)
      BY <1>0, <3>4, Constants, Typed DEF Decide, Command, Renewed, Times
    <3>5. CASE Fail(p)
      BY <1>0, <3>5, Constants, Typed DEF Fail, Renewed, Times
    <3> QED
      BY <1>1, <3>1, <3>2, <3>3, <3>4, <3>5
  <2> QED
    BY <2>1, <2>2 DEF Times
<1>2. ASSUME Tick PROVE Times'
  <2>1. \A p \in Req : at'[p] <= last'[p] /\ last'[p] <= now'
    BY <1>0, <1>2, Typed DEF Tick, Times
  <2>2. expires' > now' /\ (log' = {} => expires' = Never)
    BY <1>0, <1>2, Typed, Constants DEF Tick, Times
  <2> QED
    BY <2>1, <2>2 DEF Times
<1> QED
  BY <1>1, <1>2 DEF Next

(* The requests that need the key to outlive their window. *)
Lasting == {p \in Req : pc[p] \in Decided \/ (pc[p] = "expire" /\ p \notin log \cup merged)}

LEMMA OutlivesStep == ASSUME IInv, Next PROVE Outlives'
<1>0. /\ TypeOK /\ Times /\ \A p \in Lasting : expires >= at[p] + Window
      /\ now \in Nat /\ expires \in Nat /\ Window \in Nat /\ Never \in Nat
      /\ \A p \in Req : at[p] \in Nat /\ at[p] + Window <= now + Window /\ at[p] + Window <= Never
  BY Typed, Constants DEF IInv, Times, Outlives, Lasting
<1>a. SUFFICES \A q \in Req : q \in Lasting' => expires' >= at'[q] + Window
  BY DEF Outlives, Lasting
<1>1. ASSUME NEW p \in Req, Ask(p)
      PROVE  \A q \in Req : q \in Lasting' => expires' >= at'[q] + Window
  <2>1. \A q \in Req : q \in Lasting' => q # p /\ q \in Lasting /\ at'[q] = at[q]
    BY <1>0, <1>1 DEF Ask, TypeOK, Lasting, Decided
  <2> QED
    BY <1>0, <1>1, <2>1 DEF Ask
<1>2. ASSUME NEW p \in Req, Trim(p)
      PROVE  \A q \in Req : q \in Lasting' => expires' >= at'[q] + Window
  <2>1. UNCHANGED <<at, merged>> /\ (expires' = expires \/ expires' = Never)
    BY <1>2 DEF Trim, Command, Kept
  <2>2. \A q \in Req : q \in Lasting' => q \in Lasting \/ at[q] <= at[p] - Window
    BY <1>0, <1>2, CommandMoves DEF Trim, Lasting, Commands, Decided, Typed
  <2>3. \A q \in Req : at[q] <= at[p] - Window => expires >= at[q] + Window
    BY <1>0, Typed DEF Times
  <2> QED
    BY <1>0, <2>1, <2>2, <2>3
<1>3. ASSUME NEW p \in Req, Count(p)
      PROVE  \A q \in Req : q \in Lasting' => expires' >= at'[q] + Window
  <2>1. UNCHANGED <<at, expires>> /\ \A q \in Req : q \in Lasting' => q \in Lasting
    BY <1>0, <1>3, CommandMoves DEF Count, Lasting, Commands, Decided
  <2> QED
    BY <1>0, <2>1
<1>4. ASSUME NEW p \in Req, Add(p)
      PROVE  \A q \in Req : q \in Lasting' => expires' >= at'[q] + Window
  <2>1. UNCHANGED <<at, expires>> /\ \A q \in Req : q \in Lasting' => q \in Lasting
    BY <1>0, <1>4, CommandMoves DEF Add, Lasting, Commands, Decided
  <2> QED
    BY <1>0, <2>1
<1>5. ASSUME NEW p \in Req, Decide(p)
      PROVE  \A q \in Req : q \in Lasting' => expires' >= at'[q] + Window
  <2>1. UNCHANGED at /\ expires' = Renewed
    BY <1>5 DEF Decide, Command
  <2>2. \A q \in Req : Renewed >= at[q] + Window
    BY <1>0 DEF Renewed, Times
  <2> QED
    BY <2>1, <2>2
<1>6. ASSUME NEW p \in Req, Fail(p)
      PROVE  \A q \in Req : q \in Lasting' => expires' >= at'[q] + Window
  <2>1. UNCHANGED at /\ (expires' = expires \/ expires' = Renewed)
    BY <1>6 DEF Fail
  <2>2. \A q \in Req : Renewed >= at[q] + Window
    BY <1>0 DEF Renewed, Times
  <2>3. \A q \in Req : q \in Lasting' => q \in Lasting
    BY <1>0, <1>6 DEF Fail, TypeOK, Lasting, Decided
  <2> QED
    BY <1>0, <2>1, <2>2, <2>3
<1>7. ASSUME Tick
      PROVE  \A q \in Req : q \in Lasting' => expires' >= at'[q] + Window
  <2>1. CASE expires <= now'
    BY <1>0, <1>7, <2>1 DEF Tick
  <2>2. CASE ~(expires <= now')
    <3>1. UNCHANGED <<at, expires>> /\ Lasting' = Lasting
      BY <1>7, <2>2 DEF Tick, Lasting
    <3> QED
      BY <1>0, <3>1
  <2> QED
    BY <2>1, <2>2
<1> QED
  BY <1>1, <1>2, <1>3, <1>4, <1>5, <1>6, <1>7 DEF Next

LEMMA LoggedStep == ASSUME IInv, Next PROVE Logged'
<1>0. /\ TypeOK /\ Times /\ Logged /\ log \subseteq Req /\ Window \in Nat /\ Window > 0 /\ now \in Nat
      /\ \A p \in Req : at[p] \in Nat /\ last[p] \in Nat
  BY Typed, Constants DEF IInv, TypeOK
<1>1. ASSUME NEW p \in Req, Ask(p) PROVE Logged'
  <2>1. p \notin log /\ log' = log
    BY <1>0, <1>1 DEF Ask, Logged, Decided
  <2>2. /\ pc'[p] = "zremrangebyscore"
        /\ \A q \in Req \ {p} : pc'[q] = pc[q] /\ at'[q] = at[q] /\ last'[q] = last[q]
    BY <1>0, <1>1, StepOf DEF Ask
  <2> QED
    BY <1>0, <2>1, <2>2 DEF Logged
<1>2. ASSUME NEW p \in Req, Trim(p) PROVE Logged'
  <2>1. /\ log' = {q \in log : at[q] > at[p] - Window} /\ p \notin log /\ UNCHANGED <<now, at>>
        /\ \A q \in Req : pc'[q] = IF q = p THEN "zcard" ELSE pc[q]
        /\ \A q \in Req : last'[q] = IF q = p THEN now ELSE last[q]
    BY <1>0, <1>2, CommandMoves DEF Trim, Commands, Logged, Decided
  <2>2. \A q \in log' : last'[q] > at'[p] - Window
    BY <1>0, <2>1 DEF Times
  <2> QED
    BY <1>0, <2>1, <2>2 DEF Logged
<1>3. ASSUME NEW p \in Req, Count(p) PROVE Logged'
  <2>1. /\ log' = log /\ p \notin log /\ UNCHANGED at
        /\ \A q \in Req : pc'[q] = IF q = p THEN "zadd" ELSE pc[q]
        /\ \A q \in Req \ {p} : last'[q] = last[q]
    BY <1>0, <1>3, CommandMoves DEF Count, Commands, Logged, Decided
  <2> QED
    BY <1>0, <2>1 DEF Logged
<1>4. ASSUME NEW p \in Req, Add(p) PROVE Logged'
  <2>1. /\ log' = log \/ log' = log \cup {p}
        /\ UNCHANGED <<now, at>>
        /\ \A q \in Req : pc'[q] = IF q = p THEN "expire" ELSE pc[q]
        /\ \A q \in Req : last'[q] = IF q = p THEN now ELSE last[q]
    BY <1>0, <1>4, CommandMoves DEF Add, Commands
  <2>2. \A q \in Req : now > at[q] - Window
    BY <1>0 DEF Times
  <2> QED
    BY <1>0, <2>1, <2>2 DEF Logged
<1>5. ASSUME NEW p \in Req, Decide(p) PROVE Logged'
  <2>1. /\ log' = log /\ UNCHANGED <<now, at>>
        /\ \A q \in Req : pc'[q] = IF q = p THEN (IF Admitted(p) THEN "allowed" ELSE "refused") ELSE pc[q]
        /\ \A q \in Req : last'[q] = IF q = p THEN now ELSE last[q]
    BY <1>0, <1>5, CommandMoves DEF Decide, Commands
  <2>2. \A q \in Req : now > at[q] - Window
    BY <1>0 DEF Times
  <2> QED
    BY <1>0, <2>1, <2>2 DEF Logged, Decided
<1>6. ASSUME NEW p \in Req, Fail(p) PROVE Logged'
  BY <1>0, <1>6 DEF Fail, TypeOK, Logged
<1>7. ASSUME Tick PROVE Logged'
  <2>1. UNCHANGED <<pc, at, last>> /\ log' \subseteq log
    BY <1>7 DEF Tick
  <2> QED
    BY <1>0, <2>1 DEF Logged
<1> QED
  BY <1>1, <1>2, <1>3, <1>4, <1>5, <1>6, <1>7 DEF Next

LEMMA OthersFinite ==
  \A p \in Req : Others(p) \in SUBSET Req /\ Cardinality(Others(p)) \in Nat
<1>1. \A p \in Req : Others(p) \in SUBSET Req
  BY DEF Others
<1> QED
  BY <1>1, FS_Subset, FS_CardinalityType, Constants

(* Requests that asked stay asked, and commands run later and later: what  *)
(* was counted is not lost.                                                *)
LEMMA OthersStay ==
  ASSUME IInv, Next, NEW p \in Req, pc[p] # "new"
  PROVE  Cardinality(Others(p)) <= Cardinality(Others(p)')
<1>0. TypeOK /\ Times /\ TypeOK' /\ Window \in Nat
      /\ \A q \in Req : at[q] \in Nat /\ last[q] \in Nat /\ last[q] <= now
  BY TypeStep, Typed, Constants DEF IInv, Times
<1>1. /\ at'[p] = at[p] /\ last'[p] >= last[p] /\ last'[p] \in Nat
      /\ \A q \in Req : pc[q] # "new" => /\ pc'[q] # "new" /\ at'[q] = at[q]
                                         /\ last'[q] >= last[q] /\ last'[q] \in Nat
  <2>1. ASSUME NEW x \in Req, Ask(x) \/ Trim(x) \/ Count(x) \/ Add(x) \/ Decide(x) \/ Fail(x)
        PROVE  \A q \in Req : pc[q] # "new" => /\ pc'[q] # "new" /\ at'[q] = at[q]
                                               /\ last'[q] >= last[q] /\ last'[q] \in Nat
    <3>1. \A q \in Req \ {x} : pc'[q] = pc[q] /\ at'[q] = at[q] /\ last'[q] = last[q]
      BY <1>0, <2>1, StepOf
    <3>2. /\ pc'[x] # "new" /\ last'[x] \in {last[x], now}
          /\ pc[x] # "new" => at'[x] = at[x]
      BY <1>0, <2>1, StepOf
    <3>3. now \in Nat
      BY <1>0, Typed
    <3> QED
      BY <1>0, <3>1, <3>2, <3>3
  <2>2. ASSUME Tick
        PROVE  \A q \in Req : pc[q] # "new" => /\ pc'[q] # "new" /\ at'[q] = at[q]
                                               /\ last'[q] >= last[q] /\ last'[q] \in Nat
    BY <1>0, <2>2 DEF Tick
  <2> QED
    BY <2>1, <2>2 DEF Next
<1>2. Others(p) \subseteq Others(p)'
  BY <1>0, <1>1 DEF Others
<1>3. Others(p)' \subseteq Req
  BY DEF Others
<1>4. IsFiniteSet(Others(p)')
  BY <1>3, FS_Subset, Constants
<1> QED
  BY <1>2, <1>4, FS_Subset

(* Whoever counts finds requests that share its time.                      *)
LEMMA CountsOthers ==
  ASSUME IInv, NEW p \in Req, Count(p)
  PROVE  Cardinality(log) <= Cardinality(Others(p)')
<1>0. TypeOK /\ Times /\ Logged /\ log \subseteq Req
  BY DEF IInv, TypeOK
<1>1. /\ pc[p] = "zcard" /\ UNCHANGED <<now, at>>
      /\ \A q \in Req : pc'[q] = IF q = p THEN "zadd" ELSE pc[q]
      /\ \A q \in Req : last'[q] = IF q = p THEN now ELSE last[q]
  BY <1>0, CommandMoves DEF Count, Commands
<1>2. \A q \in log : q # p /\ pc[q] # "new" /\ last[q] > at[p] - Window
  BY <1>0, <1>1 DEF Logged, Decided
<1>3. \A q \in Req : at[q] <= now
  BY <1>0, Typed DEF Times
<1>4. log \subseteq Others(p)' /\ Others(p)' \subseteq Req
  BY <1>0, <1>1, <1>2, <1>3 DEF Others
<1>5. IsFiniteSet(Others(p)')
  BY <1>4, FS_Subset, Constants
<1> QED
  BY <1>4, <1>5, FS_Subset

LEMMA CountedStep == ASSUME IInv, Next PROVE Counted'
<1>0. TypeOK /\ TypeOK' /\ Counted
  BY TypeStep DEF IInv
<1> SUFFICES ASSUME NEW q \in Req
             PROVE  /\ pc'[q] \in {"zadd", "expire"} \cup Decided =>
                         seen'[q] <= Cardinality(Others(q)')
                    /\ pc'[q] = "refused" => seen'[q] >= MaxRequests
  BY DEF Counted
<1> DEFINE Same == /\ seen'[q] = seen[q]
                   /\ pc'[q] \in {"zadd", "expire"} \cup Decided =>
                        pc[q] \in {"zadd", "expire"} \cup Decided
<1>a. Same => (pc'[q] \in {"zadd", "expire"} \cup Decided => seen'[q] <= Cardinality(Others(q)'))
  <2>1. ASSUME pc[q] \in {"zadd", "expire"} \cup Decided
        PROVE  seen[q] <= Cardinality(Others(q)')
    <3>1. Cardinality(Others(q)) <= Cardinality(Others(q)')
      BY <2>1, OthersStay DEF Decided
    <3>2. seen[q] <= Cardinality(Others(q)) /\ seen[q] \in Nat
      BY <1>0, <2>1, Typed DEF Counted
    <3>3. Cardinality(Others(q)) \in Nat /\ Cardinality(Others(q)') \in Nat
      <4>1. Others(q)' \in SUBSET Req
        BY DEF Others
      <4> QED
        BY <4>1, OthersFinite, FS_Subset, FS_CardinalityType, Constants
    <3> QED
      BY <3>1, <3>2, <3>3
  <2> QED
    BY <2>1
<1>1. ASSUME NEW p \in Req, Ask(p)
      PROVE  Same /\ (pc'[q] = "refused" => pc[q] = "refused")
  BY <1>0, <1>1 DEF Ask, TypeOK, Decided
<1>2. ASSUME NEW p \in Req, Trim(p)
      PROVE  Same /\ (pc'[q] = "refused" => pc[q] = "refused")
  BY <1>0, <1>2, CommandMoves DEF Trim, Commands, Decided
<1>3. ASSUME NEW p \in Req, Add(p)
      PROVE  Same /\ (pc'[q] = "refused" => pc[q] = "refused")
  BY <1>0, <1>3, CommandMoves DEF Add, Commands, Decided
<1>4. ASSUME NEW p \in Req, Decide(p)
      PROVE  Same /\ (pc'[q] = "refused" => seen'[q] >= MaxRequests)
  <2>1. /\ pc[p] = "expire" /\ seen' = seen
        /\ \A x \in Req : pc'[x] = IF x = p THEN (IF Admitted(p) THEN "allowed" ELSE "refused")
                                   ELSE pc[x]
    BY <1>0, <1>4, CommandMoves DEF Decide, Commands
  <2>2. seen[p] \in Nat /\ MaxRequests \in Nat
    BY <1>0, Typed, Constants
  <2> QED
    BY <1>0, <2>1, <2>2 DEF Counted, Decided, Admitted
<1>5. ASSUME NEW p \in Req, Fail(p)
      PROVE  Same /\ (pc'[q] = "refused" => pc[q] = "refused")
  BY <1>0, <1>5 DEF Fail, TypeOK, Decided
<1>6. ASSUME Tick
      PROVE  Same /\ (pc'[q] = "refused" => pc[q] = "refused")
  BY <1>6 DEF Tick
<1>7. ASSUME NEW p \in Req, Count(p)
      PROVE  /\ pc'[q] \in {"zadd", "expire"} \cup Decided => seen'[q] <= Cardinality(Others(q)')
             /\ pc'[q] = "refused" => pc[q] = "refused" /\ seen'[q] = seen[q]
  <2>1. /\ pc[p] = "zcard"
        /\ \A x \in Req : pc'[x] = IF x = p THEN "zadd" ELSE pc[x]
        /\ \A x \in Req : seen'[x] = IF x = p THEN Cardinality(log) ELSE seen[x]
    BY <1>0, <1>7, CommandMoves DEF Count, Commands, TypeOK
  <2>2. CASE q = p
    BY <1>7, <2>1, <2>2, CountsOthers
  <2>3. CASE q # p
    BY <1>a, <2>1, <2>3
  <2> QED
    BY <2>2, <2>3
<1>8. pc[q] = "refused" => seen[q] >= MaxRequests
  BY <1>0 DEF Counted
<1> QED
  BY <1>a, <1>1, <1>2, <1>3, <1>4, <1>5, <1>6, <1>7, <1>8 DEF Next

LEMMA FewAtOnceStep == ASSUME TypeOK, FewAtOnce, Next PROVE FewAtOnce'
<1>0. InPipeline \in SUBSET Req /\ Concurrency \in Int
  BY Constants DEF InPipeline
<1>a. ASSUME InPipeline' \subseteq InPipeline PROVE FewAtOnce'
  BY <1>0, <1>a, SmallerSet DEF FewAtOnce
<1>1. ASSUME NEW p \in Req, Ask(p) PROVE FewAtOnce'
  <2>1. InPipeline' = InPipeline \cup {p} /\ Cardinality(InPipeline) < Concurrency
    BY <1>1 DEF Ask, TypeOK, InPipeline, Commands
  <2>2. IsFiniteSet(InPipeline)
    BY <1>0, FS_Subset, Constants
  <2>3. /\ IsFiniteSet(InPipeline \cup {p})
        /\ \/ Cardinality(InPipeline \cup {p}) = Cardinality(InPipeline)
           \/ Cardinality(InPipeline \cup {p}) = Cardinality(InPipeline) + 1
    BY <2>2, FS_AddElement
  <2>4. Cardinality(InPipeline) \in Nat /\ Cardinality(InPipeline') = Cardinality(InPipeline \cup {p})
    BY <2>1, <2>2, FS_CardinalityType
  <2> QED
    BY <1>0, <2>1, <2>3, <2>4 DEF FewAtOnce
<1>2. ASSUME NEW p \in Req, Trim(p) \/ Count(p) \/ Add(p) \/ Decide(p) \/ Fail(p) PROVE FewAtOnce'
  <2>1. pc[p] # "new"
    BY <1>2 DEF Trim, Count, Add, Decide, Fail, Command, Commands
  <2>2. pc[p] \in Commands /\ \A q \in Req \ {p} : pc'[q] = pc[q]
    BY <1>2, <2>1, StepOf
  <2> QED
    BY <1>a, <2>2 DEF InPipeline
<1>3. ASSUME Tick PROVE FewAtOnce'
  BY <1>a, <1>3 DEF Tick, InPipeline
<1> QED
  BY <1>1, <1>2, <1>3 DEF Next

(* The requests of the window that no later one will count.                *)
Forgotten == InWindow(Added, now) \ log

(* Only the end of the key forgets: those it takes are in their pipelines, *)
(* and what was forgotten before is older than the window.                 *)
LEMMA FewForgottenStep == ASSUME IInv, Next PROVE FewForgotten'
<1>0. /\ TypeOK /\ Times /\ Outlives /\ Cardinality(Forgotten) <= Concurrency
      /\ Forgotten \in SUBSET Req /\ InPipeline \in SUBSET Req /\ Concurrency \in Int
      /\ now \in Nat /\ Window \in Nat /\ expires \in Nat /\ \A q \in Req : at[q] \in Nat /\ at[q] <= now
  BY Typed, Constants DEF IInv, FewForgotten, Forgotten, InWindow, Added, InPipeline, Times
<1>a. ASSUME Forgotten' \subseteq Forgotten PROVE FewForgotten'
  BY <1>0, <1>a, SmallerSet DEF FewForgotten, Forgotten
<1>1. ASSUME NEW p \in Req, Ask(p) PROVE FewForgotten'
  <2>1. Forgotten' \subseteq Forgotten
    BY <1>0, <1>1 DEF Ask, TypeOK, Forgotten, InWindow, Added
  <2> QED
    BY <1>a, <2>1
<1>2. ASSUME NEW p \in Req, Trim(p) PROVE FewForgotten'
  <2>1. /\ log' = {q \in log : at[q] > at[p] - Window} /\ UNCHANGED <<now, at, merged>>
        /\ Added' \subseteq Added
    BY <1>0, <1>2, CommandMoves DEF Trim, Command, Commands, Added
  <2>2. \A q \in Req : at[q] > now - Window => at[q] > at[p] - Window
    BY <1>0
  <2>3. Forgotten' \subseteq Forgotten
    BY <2>1, <2>2 DEF Forgotten, InWindow, Added
  <2> QED
    BY <1>a, <2>3
<1>3. ASSUME NEW p \in Req, Count(p) PROVE FewForgotten'
  <2>1. UNCHANGED <<now, at, merged, log>> /\ Added' \subseteq Added
    BY <1>0, <1>3, CommandMoves DEF Count, Command, Commands, Added
  <2> QED
    BY <1>a, <2>1 DEF Forgotten, InWindow
<1>4. ASSUME NEW p \in Req, Add(p) PROVE FewForgotten'
  <2>1. UNCHANGED <<now, at>> /\ Added' \subseteq Added \cup {p}
    BY <1>0, <1>4, CommandMoves DEF Add, Command, Commands, Added
  <2>2. log \subseteq log' /\ merged \subseteq merged' /\ p \in log' \cup merged'
    BY <1>4 DEF Add
  <2> QED
    BY <1>a, <2>1, <2>2 DEF Forgotten, InWindow
<1>5. ASSUME NEW p \in Req, Decide(p) \/ Fail(p) PROVE FewForgotten'
  <2>1. UNCHANGED <<now, at, merged, log>>
    BY <1>5 DEF Decide, Fail, Command
  <2>2. Added' \subseteq Added
    <3>1. CASE Decide(p)
      BY <1>0, <3>1, CommandMoves DEF Decide, Commands, Added
    <3>2. CASE Fail(p)
      BY <1>0, <3>2 DEF Fail, TypeOK, Added
    <3> QED
      BY <1>5, <3>1, <3>2
  <2> QED
    BY <1>a, <2>1, <2>2 DEF Forgotten, InWindow
<1>6. ASSUME Tick PROVE FewForgotten'
  <2>1. UNCHANGED <<pc, at, merged>> /\ now' = now + 1
    BY <1>6 DEF Tick
  <2>2. CASE expires <= now'
    <3>1. \A q \in Req : at[q] > now' - Window => ~(expires >= at[q] + Window)
      BY <1>0, <2>1, <2>2
    <3>2. \A q \in Req : q \in Forgotten' => at[q] > now' - Window /\ q \notin merged /\ q \in Added
      BY <2>1 DEF Forgotten, InWindow, Added
    <3>3. \A q \in Req : q \in Forgotten' => q \in InPipeline
      BY <1>0, <3>1, <3>2 DEF Outlives, Added, Decided, InPipeline, Commands
    <3>4. Forgotten' \subseteq InPipeline
      BY <3>3 DEF Forgotten, InWindow, Added
    <3>5. Cardinality(InPipeline) <= Concurrency
      BY DEF IInv, FewAtOnce
    <3> QED
      BY <1>0, <3>4, <3>5, SmallerSet DEF FewForgotten, Forgotten
  <2>3. CASE ~(expires <= now')
    <3>1. log' = log
      BY <1>6, <2>3 DEF Tick
    <3>2. \A q \in Req : at[q] > now' - Window => at[q] > now - Window /\ at[q] <= now
      BY <1>0, <2>1
    <3>3. Forgotten' \subseteq Forgotten
      BY <2>1, <3>1, <3>2 DEF Forgotten, InWindow, Added
    <3> QED
      BY <1>a, <3>3
  <2> QED
    BY <2>2, <2>3
<1> QED
  BY <1>1, <1>2, <1>3, <1>4, <1>5, <1>6 DEF Next

LEMMA AlwaysIInv == Spec => []IInv
<1>1. IInv /\ [Next]_vars => IInv'
  <2>1. IInv /\ Next => IInv'
    BY TypeStep, TimesStep, OutlivesStep, LoggedStep, CountedStep, FewAtOnceStep, FewForgottenStep
       DEF IInv
  <2>2. IInv /\ UNCHANGED vars => IInv'
    BY DEF vars, IInv, TypeOK, Times, Outlives, Logged, Counted, Others, FewAtOnce, InPipeline,
           FewForgotten, InWindow, Added
  <2> QED
    BY <2>1, <2>2
<1> QED
  BY <1>1, InitIInv, PTL DEF Spec

(* Clock, scores and time to live stay in their ranges. *)
THEOREM TypeCorrect == Spec => []TypeOK
<1>1. IInv => TypeOK
  BY DEF IInv
<1> QED
  BY <1>1, AlwaysIInv, PTL

(* However often the key expires in the middle of pipelines, a window      *)
(* never misses more requests than may be under way at once.               *)
THEOREM ForgetsFew == Spec => []FewForgotten
<1>1. IInv => FewForgotten
  BY DEF IInv
<1> QED
  BY <1>1, AlwaysIInv, PTL

(* Only clients that went over the limit are refused. *)
THEOREM RefusesOnlyOverLimit == Spec => []RefusedOnlyOverLimit
<1>1. IInv => RefusedOnlyOverLimit
  <2> SUFFICES ASSUME IInv, NEW p \in Req, pc[p] = "refused"
               PROVE  Cardinality(Others(p)) >= MaxRequests
    BY DEF RefusedOnlyOverLimit, Others
  <2>1. seen[p] >= MaxRequests /\ seen[p] <= Cardinality(Others(p)) /\ TypeOK
    BY DEF IInv, Counted, Decided
  <2> QED
    BY <2>1, OthersFinite, Typed, Constants
<1> QED
  BY <1>1, AlwaysIInv, PTL
-----------------------------------------------------------------------------
(* The overshoot. *)

(* The requests that were, or will be, admitted. *)
Admitting == {p \in Req : \/ pc[p] = "allowed"
                          \/ pc[p] \in {"zadd", "expire"} /\ seen[p] < MaxRequests}

(* Those of the window that later ones count, or will count. *)
Counting == InWindow(Admitting, now) \cap (log \cup {p \in Req : pc[p] = "zadd"})

Bounded == MaxRequests > 0 => Cardinality(Counting) <= MaxRequests + Concurrency - 1

(* A step that admits no one new, and adds no one admitted, keeps the bound. *)
LEMMA NoOneNew ==
  ASSUME Bounded, Counting' \subseteq Counting
  PROVE  Bounded'
<1>1. Counting \in SUBSET Req
  BY DEF Counting, InWindow, Admitting
<1> QED
  BY <1>1, SmallerSet, Constants DEF Bounded

(* Whoever will be admitted from now on is still under way when it counts: *)
(* of the others each is in the set it counts, or is under way as well.    *)
LEMMA CountBounded ==
  ASSUME IInv, Bounded, NEW p \in Req, Count(p)
  PROVE  Bounded'
<1>0. TypeOK /\ FewAtOnce /\ log \in SUBSET Req
  BY DEF IInv, TypeOK
<1>1. /\ pc[p] = "zcard" /\ UNCHANGED <<now, at, log, merged>>
      /\ \A x \in Req : pc'[x] = IF x = p THEN "zadd" ELSE pc[x]
      /\ \A x \in Req : seen'[x] = IF x = p THEN Cardinality(log) ELSE seen[x]
  BY <1>0, CommandMoves DEF Count, Commands, TypeOK
<1>2. Cardinality(log) \in Nat
  BY <1>0, FS_Subset, FS_CardinalityType, Constants
<1>3. CASE ~(Cardinality(log) < MaxRequests)
  <2>1. \A x \in Req : x \in Admitting' => x # p /\ x \in Admitting
    BY <1>1, <1>3 DEF Admitting
  <2>2. Counting' \subseteq Counting
    BY <1>1, <2>1 DEF Counting, InWindow, Admitting
  <2> QED
    BY <2>2, NoOneNew
<1>4. CASE Cardinality(log) < MaxRequests
  <2>1. Counting' \subseteq log \cup InPipeline
    <3>1. \A x \in Req : pc'[x] = "zadd" => x \in InPipeline
      BY <1>1 DEF InPipeline, Commands
    <3> QED
      BY <1>1, <3>1 DEF Counting, InWindow, Admitting
  <2>2. InPipeline \in SUBSET Req /\ Cardinality(log) <= MaxRequests - 1
    BY <1>2, <1>4, Constants DEF InPipeline
  <2>3. /\ log \cup InPipeline \in SUBSET Req
        /\ Cardinality(log \cup InPipeline) <= MaxRequests + Concurrency - 1
    <3>1. Cardinality(log) + Cardinality(InPipeline) <= MaxRequests + Concurrency - 1
      BY <1>0, <1>2, <2>2, Sizes, Constants DEF FewAtOnce
    <3>2. MaxRequests + Concurrency - 1 \in Int
      BY Constants
    <3> QED
      BY <1>0, <2>2, <3>1, <3>2, TwoSets
  <2> QED
    BY <2>1, <2>3, SmallerSet, Constants DEF Bounded
<1> QED
  BY <1>3, <1>4

LEMMA BoundedStep == ASSUME IInv, Bounded, Next PROVE Bounded'
<1>0. /\ TypeOK /\ now \in Nat /\ Window \in Nat
      /\ \A q \in Req : at[q] \in Nat /\ at[q] <= last[q] /\ last[q] <= now /\ last[q] \in Nat
  BY Typed, Constants DEF IInv, Times
<1>1. ASSUME NEW p \in Req, Ask(p) PROVE Bounded'
  <2>1. Counting' \subseteq Counting
    BY <1>0, <1>1 DEF Ask, TypeOK, Counting, InWindow, Admitting
  <2> QED
    BY <2>1, NoOneNew
<1>2. ASSUME NEW p \in Req, Trim(p) PROVE Bounded'
  <2>1. /\ UNCHANGED <<now, at, merged, seen>> /\ log' \subseteq log
        /\ \A q \in Req : pc'[q] = IF q = p THEN "zcard" ELSE pc[q]
    BY <1>0, <1>2, CommandMoves DEF Trim, Command, Commands
  <2>2. Counting' \subseteq Counting
    BY <2>1 DEF Counting, InWindow, Admitting
  <2> QED
    BY <2>2, NoOneNew
<1>3. ASSUME NEW p \in Req, Add(p) PROVE Bounded'
  <2>1. /\ UNCHANGED <<now, at, seen>> /\ pc[p] = "zadd"
        /\ \A q \in Req : pc'[q] = IF q = p THEN "expire" ELSE pc[q]
    BY <1>0, <1>3, CommandMoves DEF Add, Commands
  <2>2. log' \subseteq log \cup {p} /\ merged \subseteq merged'
    BY <1>3 DEF Add
  <2>3. Counting' \subseteq Counting
    BY <2>1, <2>2 DEF Counting, InWindow, Admitting
  <2> QED
    BY <2>3, NoOneNew
<1>4. ASSUME NEW p \in Req, Decide(p) PROVE Bounded'
  <2>1. /\ UNCHANGED <<now, at, seen, log, merged>> /\ pc[p] = "expire"
        /\ \A q \in Req : pc'[q] = IF q = p THEN (IF Admitted(p) THEN "allowed" ELSE "refused")
                                   ELSE pc[q]
    BY <1>0, <1>4, CommandMoves DEF Decide, Commands
  <2>2. Counting' \subseteq Counting
    BY <2>1 DEF Counting, InWindow, Admitting, Admitted
  <2> QED
    BY <2>2, NoOneNew
<1>5. ASSUME NEW p \in Req, Fail(p) PROVE Bounded'
  <2>1. /\ UNCHANGED <<now, at, seen, log, merged>>
        /\ \A q \in Req : pc'[q] = IF q = p THEN "failed_open" ELSE pc[q]
    BY <1>0, <1>5 DEF Fail, TypeOK
  <2>2. Counting' \subseteq Counting
    BY <2>1 DEF Counting, InWindow, Admitting
  <2> QED
    BY <2>2, NoOneNew
<1>6. ASSUME Tick PROVE Bounded'
  <2>1. UNCHANGED <<pc, at, seen, merged>> /\ now' = now + 1 /\ log' \subseteq log
    BY <1>6 DEF Tick
  <2>2. \A q \in Req : at[q] > now' - Window => at[q] > now - Window /\ at[q] <= now
    BY <1>0, <2>1
  <2>3. Counting' \subseteq Counting
    BY <2>1, <2>2 DEF Counting, InWindow, Admitting
  <2> QED
    BY <2>3, NoOneNew
<1> QED
  BY <1>1, <1>2, <1>3, <1>4, <1>5, <1>6, CountBounded DEF Next

LEMMA AlwaysBounded == Spec => []Bounded
<1>1. Init => Bounded
  <2> SUFFICES ASSUME Init PROVE Bounded
    OBVIOUS
  <2>1. Counting = {}
    BY DEF Init, Counting, InWindow, Admitting
  <2> QED
    BY <2>1, FS_EmptySet, Constants DEF Bounded
<1>2. IInv /\ Bounded /\ [Next]_vars => Bounded'
  <2>1. Bounded /\ UNCHANGED vars => Bounded'
    BY DEF vars, Bounded, Counting, InWindow, Admitting
  <2> QED
    BY <2>1, BoundedStep
<1> QED
  BY <1>1, <1>2, AlwaysIInv, PTL DEF Spec

(* However the pipelines interleave, and whichever of them break off, of   *)
(* the requests a window still counts no more than one too many was        *)
(* admitted for every other pipeline that may be under way.                *)
THEOREM OvershootAlwaysBounded == Spec => []OvershootBound
<1>1. Bounded => OvershootBound
  <2>1. Counting \in SUBSET Req /\ InWindow(Allowed, now) \cap log \subseteq Counting
    BY DEF Counting, InWindow, Allowed, Admitting
  <2> QED
    BY <2>1, SmallerSet, Constants DEF Bounded, OvershootBound
<1> QED
  BY <1>1, AlwaysBounded, PTL

(* The requests of the window that ended at t that were, or may yet be,    *)
(* admitted.                                                               *)
Late(t) == InWindow(Admitting \cup {p \in Req : pc[p] \in {"zremrangebyscore", "zcard"}}, t)

PastBounded ==
  \A t \in 0..now : t < now /\ MaxRequests > 0 =>
    Cardinality(Late(t)) <= MaxRequests + 3 * Concurrency - 1

LEMMA CountingForgotten ==
  ASSUME IInv, Bounded, MaxRequests > 0
  PROVE  /\ Counting \cup Forgotten \in SUBSET Req
         /\ Cardinality(Counting \cup Forgotten) <= MaxRequests + 2 * Concurrency - 1
<1>1. /\ Counting \in SUBSET Req /\ Forgotten \in SUBSET Req
      /\ Cardinality(Counting) <= MaxRequests + Concurrency - 1
      /\ Cardinality(Forgotten) <= Concurrency
  BY DEF IInv, Bounded, FewForgotten, Forgotten, Counting, InWindow, Admitting, Added
<1>2. Cardinality(Counting) + Cardinality(Forgotten) <= MaxRequests + 2 * Concurrency - 1
  BY <1>1, Sizes, Constants
<1>3. MaxRequests + 2 * Concurrency - 1 \in Int
  BY Constants
<1> QED
  BY <1>1, <1>2, <1>3, TwoSets

(* When a window ends, whoever was admitted in it is counted, forgotten or *)
(* under way.                                                              *)
LEMMA LateNow ==
  ASSUME IInv, Bounded, MaxRequests > 0
  PROVE  Cardinality(Late(now)) <= MaxRequests + 3 * Concurrency - 1
<1>1. /\ Counting \in SUBSET Req /\ Forgotten \in SUBSET Req /\ InPipeline \in SUBSET Req
      /\ Cardinality(InPipeline) <= Concurrency
  BY DEF IInv, FewAtOnce, Forgotten, Counting, InWindow, Admitting, Added,
         InPipeline
<1>2. /\ Counting \cup Forgotten \in SUBSET Req
      /\ Cardinality(Counting \cup Forgotten) <= MaxRequests + 2 * Concurrency - 1
  BY <1>1, CountingForgotten
<1>3. /\ (Counting \cup Forgotten) \cup InPipeline \in SUBSET Req
      /\ Cardinality((Counting \cup Forgotten) \cup InPipeline) <= MaxRequests + 3 * Concurrency - 1
  <2>1. Cardinality(Counting \cup Forgotten) + Cardinality(InPipeline)
          <= MaxRequests + 3 * Concurrency - 1
    BY <1>1, <1>2, Sizes, Constants
  <2>2. MaxRequests + 3 * Concurrency - 1 \in Int
    BY Constants
  <2> QED
    BY <1>1, <1>2, <2>1, <2>2, TwoSets
<1>4. Late(now) \subseteq (Counting \cup Forgotten) \cup InPipeline
  BY DEF Late, InWindow, Admitting, Counting, Forgotten, Added, InPipeline, Commands
<1> QED
  BY <1>3, <1>4, SmallerSet, Constants

LEMMA PastStep == ASSUME IInv, Bounded, PastBounded, Next PROVE PastBounded'
<1>0. /\ TypeOK /\ now \in Nat /\ Window \in Nat
      /\ \A t \in 0..now : Late(t) \in SUBSET Req
  BY Typed, Constants DEF IInv, Late, InWindow, Admitting
<1>1. ASSUME NEW p \in Req, Ask(p) \/ Trim(p) \/ Count(p) \/ Add(p) \/ Decide(p) \/ Fail(p)
      PROVE  PastBounded'
  <2>1. /\ now' = now /\ merged \subseteq merged'
        /\ \A q \in Req \ {p} : pc'[q] = pc[q] /\ at'[q] = at[q] /\ seen'[q] = seen[q]
    <3>1. merged \subseteq merged'
      BY <1>1 DEF Ask, Trim, Count, Add, Decide, Fail
    <3> QED
      BY <1>0, <1>1, <3>1, StepOf
  <2>2. \/ at'[p] = now
        \/ /\ at'[p] = at[p]
           /\ \/ pc[p] \in {"zremrangebyscore", "zcard"}
              \/ p \in Admitting' => p \in Admitting /\ pc'[p] # "zcard"
    <3>1. CASE Ask(p)
      BY <1>0, <3>1 DEF Ask, TypeOK
    <3>2. CASE Trim(p) \/ Count(p)
      BY <1>0, <3>2, CommandMoves DEF Trim, Count, Commands
    <3>3. CASE Add(p)
      BY <1>0, <3>3, CommandMoves DEF Add, Commands, Admitting
    <3>4. CASE Decide(p)
      BY <1>0, <3>4, CommandMoves DEF Decide, Commands, Admitting, Admitted
    <3>5. CASE Fail(p)
      BY <1>0, <3>5 DEF Fail, TypeOK, Admitting
    <3> QED
      BY <1>1, <3>1, <3>2, <3>3, <3>4, <3>5
  <2>3. at'[p] = now \/ pc'[p] \notin {"zremrangebyscore", "zcard"}
                     \/ pc[p] \in {"zremrangebyscore", "zcard"}
    <3>1. CASE Ask(p)
      BY <1>0, <3>1 DEF Ask, TypeOK
    <3>2. CASE Trim(p) \/ Count(p)
      BY <1>0, <3>2, CommandMoves DEF Trim, Count, Commands
    <3>3. CASE Add(p) \/ Decide(p)
      BY <1>0, <3>3, CommandMoves DEF Add, Decide, Commands
    <3>4. CASE Fail(p)
      BY <1>0, <3>4 DEF Fail, TypeOK
    <3> QED
      BY <1>1, <3>1, <3>2, <3>3, <3>4
  <2> SUFFICES ASSUME NEW t \in 0..now, t < now, MaxRequests > 0
               PROVE  Cardinality(Late(t)') <= MaxRequests + 3 * Concurrency - 1
    BY <2>1 DEF PastBounded
  <2>4. Late(t)' \subseteq Late(t)
    <3>1. ASSUME NEW q \in Req, q \in Late(t)' PROVE q \in Late(t)
      <4>1. CASE q = p
        BY <1>0, <2>1, <2>2, <2>3, <3>1, <4>1 DEF Late, InWindow, Admitting
      <4>2. CASE q # p
        BY <2>1, <3>1, <4>2 DEF Late, InWindow, Admitting
      <4> QED
        BY <4>1, <4>2
    <3> QED
      BY <3>1 DEF Late, InWindow, Admitting
  <2>5. Cardinality(Late(t)) <= MaxRequests + 3 * Concurrency - 1
    BY DEF PastBounded
  <2> QED
    BY <1>0, <2>4, <2>5, SmallerSet, Constants
<1>2. ASSUME Tick PROVE PastBounded'
  <2>1. now' = now + 1 /\ \A t \in Nat : Late(t)' = Late(t)
    BY <1>2 DEF Tick, Late, InWindow, Admitting
  <2> SUFFICES ASSUME NEW t \in 0..now', t < now', MaxRequests > 0
               PROVE  Cardinality(Late(t)') <= MaxRequests + 3 * Concurrency - 1
    BY DEF PastBounded
  <2>2. t \in Nat /\ (t = now \/ (t \in 0..now /\ t < now))
    BY <1>0, <2>1
  <2>3. Cardinality(Late(t)) <= MaxRequests + 3 * Concurrency - 1
    BY <2>2, LateNow DEF PastBounded
  <2> QED
    BY <2>1, <2>2, <2>3
<1> QED
  BY <1>1, <1>2 DEF Next

(* What a window admits in all: forgotten requests make room for as many,  *)
(* and pipelines that outlast the window for as many again.                *)
AllowedBound ==
  MaxRequests > 0 =>
    /\ Cardinality(InWindow(Allowed, now)) <= MaxRequests + 2 * Concurrency - 1
    /\ \A t \in 0..now :
         Cardinality(InWindow(Allowed, t)) <= MaxRequests + 3 * Concurrency - 1

(* No window, present or past, admits more than MaxRequests and a few for  *)
(* every pipeline that may be under way at once.                           *)
THEOREM AllowedAlwaysBounded == Spec => []AllowedBound
<1>1. Init => PastBounded
  BY DEF Init, PastBounded
<1>2. IInv /\ Bounded /\ PastBounded /\ [Next]_vars => PastBounded'
  <2>1. PastBounded /\ UNCHANGED vars => PastBounded'
    BY DEF vars, PastBounded, Late, InWindow, Admitting
  <2> QED
    BY <2>1, PastStep
<1>3. IInv /\ Bounded /\ PastBounded => AllowedBound
  <2> SUFFICES ASSUME IInv, Bounded, PastBounded, MaxRequests > 0
               PROVE  /\ Cardinality(InWindow(Allowed, now)) <= MaxRequests + 2 * Concurrency - 1
                      /\ \A t \in 0..now : Cardinality(InWindow(Allowed, t))
                                             <= MaxRequests + 3 * Concurrency - 1
    BY DEF AllowedBound
  <2>1. Cardinality(InWindow(Allowed, now)) <= MaxRequests + 2 * Concurrency - 1
    <3>2. /\ Counting \cup Forgotten \in SUBSET Req
          /\ Cardinality(Counting \cup Forgotten) <= MaxRequests + 2 * Concurrency - 1
      BY CountingForgotten
    <3>3. InWindow(Allowed, now) \subseteq Counting \cup Forgotten
      BY DEF InWindow, Allowed, Counting, Admitting, Forgotten, Added
    <3> QED
      BY <3>2, <3>3, SmallerSet, Constants
  <2>2. ASSUME NEW t \in 0..now
        PROVE  Cardinality(InWindow(Allowed, t)) <= MaxRequests + 3 * Concurrency - 1
    <3>1. Late(t) \in SUBSET Req /\ InWindow(Allowed, t) \subseteq Late(t)
      BY DEF InWindow, Allowed, Late, Admitting
    <3>2. Cardinality(Late(t)) <= MaxRequests + 3 * Concurrency - 1
      <4>1. now \in Nat
        BY Typed DEF IInv
      <4>2. t = now \/ t < now
        BY <4>1
      <4> QED
        BY <4>2, LateNow DEF PastBounded
    <3> QED
      BY <3>1, <3>2, SmallerSet, Constants
  <2> QED
    BY <2>1, <2>2
<1> QED
  BY <1>1, <1>2, <1>3, AlwaysIInv, AlwaysBounded, PTL DEF Spec
=============================================================================
