------------------------ MODULE CircuitBreakerProofs ------------------------
(***************************************************************************)
(* The circuit breaker, for any number of requests and any threshold, as   *)
(* long as no handler panics.                                              *)
(***************************************************************************)
EXTENDS CircuitBreaker, TLAPS

(* A late failure leaves a half-open circuit without its probe unless the  *)
(* counter is known to stand at the threshold, and it only stands there    *)
(* because of what the states mean: the three parts need each other.       *)
IInv == TypeOK /\ OpensAtThreshold /\ HalfOpenProbed

LEMMA InitIInv == Init => IInv
BY BreakerAssumption DEF Init, IInv, TypeOK, OpensAtThreshold, HalfOpenProbed

(* A request ends: it is not running and no probe any more. *)
LEMMA FinishType ==
  ASSUME TypeOK, NEW p \in Req, Finish(p)
  PROVE  /\ pc' \in [Req -> {"idle", "running"}]
         /\ probe' \subseteq {x \in Req : pc'[x] = "running"}
BY DEF TypeOK, Finish

LEMMA StepIInv == IInv /\ [Next]_vars => IInv'
<1> SUFFICES ASSUME IInv, [Next]_vars PROVE IInv'
  OBVIOUS
<1> USE BreakerAssumption DEF IInv
<1>1. ASSUME NEW p \in Req, AllowClosed(p) PROVE IInv'
  <2>1. TypeOK'
    BY <1>1 DEF AllowClosed, Run, TypeOK
  <2> QED
    BY <1>1, <2>1 DEF AllowClosed, OpensAtThreshold, HalfOpenProbed
<1>2. ASSUME NEW p \in Req, AllowProbe(p) PROVE IInv'
  <2>1. TypeOK'
    BY <1>2 DEF AllowProbe, Run, TypeOK
  <2>2. OpensAtThreshold' /\ HalfOpenProbed'
    BY <1>2 DEF AllowProbe, OpensAtThreshold, HalfOpenProbed
  <2> QED
    BY <2>1, <2>2
<1>3. ASSUME NEW p \in Req, recordSuccess(p) PROVE IInv'
  <2>1. TypeOK'
    BY <1>3, FinishType DEF recordSuccess, TypeOK
  <2>2. OpensAtThreshold' /\ HalfOpenProbed'
    BY <1>3 DEF recordSuccess, OpensAtThreshold, HalfOpenProbed
  <2> QED
    BY <2>1, <2>2
<1>4. ASSUME NEW p \in Req, recordFailure(p) PROVE IInv'
  <2>1. failures' \in 0..Threshold /\ state' \in {"closed", "open", "halfopen"}
    BY <1>4 DEF recordFailure, TypeOK
  <2>2. TypeOK'
    BY <1>4, <2>1, FinishType DEF recordFailure, TypeOK
  <2>3. CASE state = "closed"
    BY <1>4, <2>2, <2>3 DEF recordFailure, TypeOK, OpensAtThreshold, HalfOpenProbed
  <2>4. CASE state # "closed"
    <3>1. failures = Threshold
      BY <2>4 DEF TypeOK, OpensAtThreshold
    <3> QED
      BY <1>4, <2>2, <3>1 DEF recordFailure, TypeOK, OpensAtThreshold, HalfOpenProbed
  <2> QED
    BY <2>3, <2>4
<1>5. ASSUME Cooldown PROVE IInv'
  BY <1>5 DEF Cooldown, TypeOK, OpensAtThreshold, HalfOpenProbed
<1>6. ASSUME UNCHANGED vars PROVE IInv'
  BY <1>6 DEF vars, TypeOK, OpensAtThreshold, HalfOpenProbed
<1> QED
  BY <1>1, <1>2, <1>3, <1>4, <1>5, <1>6 DEF Next, Reject

LEMMA AlwaysIInv == Spec => []IInv
BY InitIInv, StepIInv, PTL DEF Spec

(* The counter never leaves its range, and probes are requests that run. *)
THEOREM TypeCorrect == Spec => []TypeOK
<1>1. IInv => TypeOK
  BY DEF IInv
<1> QED
  BY <1>1, AlwaysIInv, PTL

(* The circuit is closed exactly while fewer than Threshold failures       *)
(* follow the last success, whatever results come late.                    *)
THEOREM AlwaysOpensAtThreshold == Spec => []OpensAtThreshold
<1>1. IInv => OpensAtThreshold
  BY DEF IInv
<1> QED
  BY <1>1, AlwaysIInv, PTL

(* A half-open circuit always has its probe on its way, so it cannot stay  *)
(* half-open for want of one.                                              *)
THEOREM AlwaysProbed == Spec => []HalfOpenProbed
<1>1. IInv => HalfOpenProbed
  BY DEF IInv
<1> QED
  BY <1>1, AlwaysIInv, PTL
=============================================================================
