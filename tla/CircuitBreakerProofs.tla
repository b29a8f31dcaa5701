------------------------ MODULE CircuitBreakerProofs ------------------------
(***************************************************************************)
(* What CircuitBreaker guarantees for any number of callers, any threshold *)
(* and any timeout, and that it implements FailFast.                       *)
(*                                                                         *)
(* ProbeAccounted alone is not inductive: a trip makes every permit of the *)
(* old generation stale only if no permit is ahead of the breaker          *)
(* (NoneAhead), and a breaker that closes leaves no probe's permit behind  *)
(* only if all of them belong to the half-open breaker (ProbesAreCurrent). *)
(***************************************************************************)
EXTENDS CircuitBreaker, TLAPS

NoneAhead == \A c \in Callers : InFlight(c) => permit[c].generation <= generation

ProbesAreCurrent ==
  \A c \in Callers :
    InFlight(c) /\ permit[c].state = "half_open" =>
      state = "half_open" /\ permit[c].generation = generation

IInv == TypeOK /\ ProbeAccounted /\ NoneAhead /\ ProbesAreCurrent

(* Facts about permits that every step uses. *)
LEMMA PermitFacts ==
  ASSUME TypeOK
  PROVE  /\ \A c \in Callers : InFlight(c) => permit[c] \in Permit
         /\ \A c \in Callers : InFlight(c) =>
              /\ permit[c].state \in {"closed", "half_open"}
              /\ permit[c].generation \in 0..MaxGeneration
         /\ generation \in Nat /\ consecutiveFailures \in Nat
         /\ FailureThreshold \in Nat /\ OpenTimeout \in Nat
         /\ MaxGeneration \in Nat
<1>1. \A c \in Callers : InFlight(c) => permit[c] \in Permit
  BY DEF TypeOK, InFlight
<1>2. \A c \in Callers : InFlight(c) =>
        /\ permit[c].state \in {"closed", "half_open"}
        /\ permit[c].generation \in 0..MaxGeneration
  BY <1>1 DEF Permit
<1>3. generation \in Nat /\ consecutiveFailures \in Nat
  BY Assumptions DEF TypeOK
<1> QED
  BY <1>1, <1>2, <1>3, Assumptions

(* While the breaker is not open, a permit counts exactly if it is of the  *)
(* current generation: complete's second test, of the state, is implied.   *)
LEMMA CurrentCounts ==
  ASSUME IInv, NEW c \in Callers, InFlight(c)
  PROVE  Current(c) <=> Counts(c)
<1>1. CASE state = "closed"
  BY <1>1 DEF IInv, ProbeAccounted, Current, Counts
<1>2. CASE state = "open"
  BY <1>2, PermitFacts DEF IInv, ProbeAccounted, Current, Counts
<1>3. CASE state = "half_open"
  BY <1>3 DEF IInv, ProbeAccounted, Current, Counts
<1> QED
  BY <1>1, <1>2, <1>3 DEF IInv, TypeOK, State

(* A probe's permit always counts, and there is at most one. *)
LEMMA ProbeCounts ==
  ASSUME IInv, NEW c \in Callers, InFlight(c), permit[c].state = "half_open"
  PROVE  /\ state = "half_open" /\ Counts(c)
         /\ \A d \in Callers : Current(d) => d = c
         /\ \A d \in Callers :
              InFlight(d) /\ permit[d].state = "half_open" => d = c
<1>1. state = "half_open" /\ Counts(c)
  BY DEF IInv, ProbesAreCurrent, Counts
<1>2. PICK e \in Callers : \A d \in Callers :
        /\ Current(d) <=> d = e
        /\ (InFlight(d) /\ permit[d].state = "half_open") <=> d = e
  BY <1>1 DEF IInv, ProbeAccounted
<1> QED
  BY <1>1, <1>2

LEMMA InitEstablishes == Init => IInv
<1> SUFFICES ASSUME Init
             PROVE  IInv
  OBVIOUS
<1>1. /\ 0 \in 0..FailureThreshold /\ 0 < FailureThreshold
      /\ 0 \in 0..OpenTimeout /\ 0 \in 0..MaxGeneration
  BY Assumptions
<1>2. permit \in [Callers -> Permit \cup {NoPermit}]
  BY DEF Init
<1>3. TypeOK
  BY <1>1, <1>2 DEF Init, TypeOK, State
<1>4. \A c \in Callers : ~InFlight(c)
  BY DEF Init, InFlight
<1> QED
  BY <1>3, <1>4
  DEF Init, IInv, ProbeAccounted, NoneAhead, ProbesAreCurrent, Current

LEMMA AllowClosedStep ==
  ASSUME IInv, NEW c \in Callers, AllowClosed(c)
  PROVE  IInv'
<1> DEFINE p == [state |-> "closed", generation |-> generation]
<1>1. /\ permit' = [permit EXCEPT ![c] = p] /\ state = "closed"
      /\ UNCHANGED breaker
  BY DEF AllowClosed, Grant
<1>2. p \in Permit /\ p # NoPermit
  BY NoPermitAssumption DEF IInv, TypeOK, Permit
<1>3. TypeOK'
  BY <1>1, <1>2 DEF IInv, TypeOK, AllowClosed, Grant, breaker
<1>4. \A d \in Callers : permit'[d] = IF d = c THEN p ELSE permit[d]
  BY <1>1 DEF IInv, TypeOK
<1>5. p.state = "closed" /\ p.generation = generation
  OBVIOUS
<1>6. ProbeAccounted'
  BY <1>1, <1>4, <1>5 DEF IInv, ProbeAccounted, Current, InFlight, breaker
<1>7. NoneAhead' /\ ProbesAreCurrent'
  BY <1>1, <1>4, <1>5, PermitFacts
  DEF IInv, NoneAhead, ProbesAreCurrent, InFlight, breaker
<1> QED
  BY <1>3, <1>6, <1>7 DEF IInv

LEMMA AllowProbeStep ==
  ASSUME IInv, NEW c \in Callers, AllowProbe(c)
  PROVE  IInv'
<1> DEFINE p == [state |-> "half_open", generation |-> generation]
<1>1. /\ permit' = [permit EXCEPT ![c] = p] /\ state = "open"
      /\ state' = "half_open" /\ probeInFlight' = TRUE
      /\ UNCHANGED <<consecutiveFailures, openFor, generation>>
  BY DEF AllowProbe, Grant, IInv, ProbeAccounted
<1>2. p \in Permit /\ p # NoPermit
  BY NoPermitAssumption DEF IInv, TypeOK, Permit
<1>3. TypeOK'
  BY <1>1, <1>2 DEF IInv, TypeOK, AllowProbe, Grant, State
<1>4. \A d \in Callers : permit'[d] = IF d = c THEN p ELSE permit[d]
  BY <1>1 DEF IInv, TypeOK
<1>5. p.state = "half_open" /\ p.generation = generation
  OBVIOUS
<1>6. \A d \in Callers : InFlight(d) =>
        permit[d].generation # generation /\ permit[d].state # "half_open"
  BY <1>1 DEF IInv, ProbeAccounted, Current, ProbesAreCurrent
<1>7. ProbeAccounted'
  BY <1>1, <1>2, <1>4, <1>5, <1>6 DEF ProbeAccounted, Current, InFlight
<1>8. NoneAhead' /\ ProbesAreCurrent'
  BY <1>1, <1>4, <1>5, <1>6, PermitFacts
  DEF IInv, NoneAhead, ProbesAreCurrent, InFlight
<1> QED
  BY <1>3, <1>7, <1>8 DEF IInv

(* A permit is handed back: the others keep theirs. *)
LEMMA Returned ==
  ASSUME TypeOK, NEW c \in Callers, Return(c)
  PROVE  /\ permit' \in [Callers -> Permit \cup {NoPermit}]
         /\ doubtful' \subseteq Callers
         /\ \A d \in Callers :
              permit'[d] = IF d = c THEN NoPermit ELSE permit[d]
BY DEF TypeOK, Return

LEMMA SuccessStep ==
  ASSUME IInv, NEW c \in Callers, CompleteSuccess(c)
  PROVE  IInv'
<1>1. InFlight(c) /\ UNCHANGED <<openFor, generation, outage>>
  BY DEF CompleteSuccess, Return
<1>2. CASE Counts(c)
  <2>1. state' = "closed" /\ consecutiveFailures' = 0 /\ probeInFlight' = FALSE
    BY <1>2 DEF CompleteSuccess, IInv, ProbeAccounted
  <2>2. TypeOK'
    <3>1. 0 \in 0..FailureThreshold /\ 0 < FailureThreshold
      BY Assumptions
    <3>2. TypeOK
      BY DEF IInv
    <3> QED
      BY <1>1, <2>1, <3>1, <3>2, Returned DEF TypeOK, CompleteSuccess, State
  <2>3. \A d \in Callers \ {c} : InFlight(d) /\ permit[d].state = "half_open" => FALSE
    <3> SUFFICES ASSUME NEW d \in Callers, d # c, InFlight(d),
                        permit[d].state = "half_open"
                 PROVE  FALSE
      OBVIOUS
    <3>1. Current(c)
      BY <1>1, <1>2, CurrentCounts
    <3> QED
      BY <3>1, ProbeCounts
  <2>4. ProbeAccounted' /\ NoneAhead' /\ ProbesAreCurrent'
    BY <1>1, <2>1, <2>3, Returned, PermitFacts
    DEF IInv, CompleteSuccess, ProbeAccounted, NoneAhead, ProbesAreCurrent,
        Current, InFlight
  <2> QED
    BY <2>2, <2>4 DEF IInv
<1>3. CASE ~Counts(c)
  <2>1. UNCHANGED breaker
    BY <1>1, <1>3 DEF CompleteSuccess, breaker
  <2>2. TypeOK'
    BY <1>1, <2>1, Returned DEF IInv, TypeOK, CompleteSuccess, breaker
  <2>3. ~Current(c) /\ permit[c].state # "half_open"
    BY <1>1, <1>3, CurrentCounts, ProbeCounts
  <2>4. ProbeAccounted' /\ NoneAhead' /\ ProbesAreCurrent'
    BY <1>1, <2>1, <2>3, Returned
    DEF IInv, CompleteSuccess, ProbeAccounted, NoneAhead, ProbesAreCurrent,
        Current, InFlight, breaker
  <2> QED
    BY <2>2, <2>4 DEF IInv
<1> QED
  BY <1>2, <1>3

(* Tripping makes every permit in flight stale. *)
LEMMA TripStep ==
  ASSUME IInv, NEW c \in Callers, Return(c), Open, c \in doubtful,
         generation < MaxGeneration, state # "open", UNCHANGED outage,
         consecutiveFailures' \in 0..FailureThreshold,
         state = "half_open" => Counts(c)
  PROVE  IInv'
<1>1. TypeOK'
  <2>1. TypeOK
    BY DEF IInv
  <2>2. generation' \in 0..MaxGeneration /\ openFor' \in 0..OpenTimeout
    BY <2>1, PermitFacts DEF Open, TypeOK
  <2> QED
    BY <2>1, <2>2, Returned DEF TypeOK, Open, State
<1>2. \A d \in Callers : InFlight(d)' =>
        permit'[d].generation <= generation /\ permit'[d].state = "closed"
  <2> SUFFICES ASSUME NEW d \in Callers, InFlight(d)'
               PROVE  permit'[d].generation <= generation /\ permit'[d].state = "closed"
    OBVIOUS
  <2>1. d # c /\ permit'[d] = permit[d] /\ InFlight(d)
    BY Returned DEF IInv, InFlight
  <2>2. permit[d].state # "half_open"
    BY <2>1, ProbeCounts, CurrentCounts DEF Return
  <2> QED
    BY <2>1, <2>2, PermitFacts DEF IInv, NoneAhead
<1>3. generation' = generation + 1 /\ generation \in Nat
  BY PermitFacts DEF Open, IInv
<1>4. \A d \in Callers : ~Current(d)'
  BY <1>1, <1>2, <1>3, PermitFacts DEF Current, InFlight, TypeOK, Permit
<1>5. ProbeAccounted'
  BY <1>2, <1>4 DEF ProbeAccounted, Open
<1>6. NoneAhead' /\ ProbesAreCurrent'
  <2>1. NoneAhead'
    <3> SUFFICES ASSUME NEW d \in Callers, InFlight(d)'
                 PROVE  permit'[d].generation <= generation'
      BY DEF NoneAhead
    <3>1. permit'[d].generation \in Nat
      BY <1>1, Assumptions DEF TypeOK, InFlight, Permit
    <3> QED
      BY <1>2, <1>3, <3>1
  <2>2. ProbesAreCurrent'
    BY <1>2 DEF ProbesAreCurrent
  <2> QED
    BY <2>1, <2>2
<1> QED
  BY <1>1, <1>5, <1>6 DEF IInv

LEMMA FailureStep ==
  ASSUME IInv, NEW c \in Callers, CompleteFailure(c)
  PROVE  IInv'
<1>1. Return(c) /\ InFlight(c) /\ c \in doubtful /\ generation < MaxGeneration
      /\ UNCHANGED outage
  BY DEF CompleteFailure, Return
<1>2. CASE ~Counts(c)
  <2>1. UNCHANGED breaker
    BY <1>2 DEF CompleteFailure
  <2>2. TypeOK'
    BY <1>1, <2>1, Returned DEF IInv, TypeOK, breaker
  <2>3. ~Current(c) /\ permit[c].state # "half_open"
    BY <1>1, <1>2, CurrentCounts, ProbeCounts
  <2>4. ProbeAccounted' /\ NoneAhead' /\ ProbesAreCurrent'
    BY <1>1, <2>1, <2>3, Returned
    DEF IInv, ProbeAccounted, NoneAhead, ProbesAreCurrent, Current, InFlight,
        breaker
  <2> QED
    BY <2>2, <2>4 DEF IInv
<1>3. CASE Counts(c) /\ state = "half_open"
  BY <1>1, <1>3, TripStep DEF CompleteFailure, IInv, TypeOK
<1>4. CASE Counts(c) /\ state # "half_open"
  <2>1. state = "closed"
    BY <1>1, <1>4, PermitFacts DEF IInv, Counts
  <2>2. /\ consecutiveFailures' = consecutiveFailures + 1
        /\ consecutiveFailures' \in 0..FailureThreshold
        /\ CountFailure
    BY <1>4, <2>1, PermitFacts DEF CompleteFailure, CountFailure, IInv, TypeOK
  <2>3. CASE consecutiveFailures' >= FailureThreshold
    BY <1>1, <2>1, <2>2, <2>3, TripStep DEF CountFailure
  <2>4. CASE ~(consecutiveFailures' >= FailureThreshold)
    <3>1. UNCHANGED <<state, openFor, probeInFlight, generation>>
      BY <2>2, <2>4 DEF CountFailure
    <3>2. TypeOK'
      BY <1>1, <2>2, <2>4, <3>1, Returned, PermitFacts DEF IInv, TypeOK
    <3>3. ProbeAccounted' /\ NoneAhead' /\ ProbesAreCurrent'
      BY <1>1, <2>1, <3>1, Returned
      DEF IInv, ProbeAccounted, NoneAhead, ProbesAreCurrent, Current, InFlight
    <3> QED
      BY <3>2, <3>3 DEF IInv
  <2> QED
    BY <2>3, <2>4
<1> QED
  BY <1>2, <1>3, <1>4

LEMMA EnvironmentStep ==
  ASSUME IInv, Tick \/ OutageEnds
  PROVE  IInv'
<1>1. UNCHANGED <<state, consecutiveFailures, probeInFlight, generation, permit>>
  BY DEF Tick, OutageEnds, breaker
<1>2. TypeOK'
  <2>1. CASE Tick
    <3>1. openFor' \in 0..OpenTimeout
      BY <2>1, PermitFacts DEF IInv, TypeOK, Tick
    <3> QED
      BY <1>1, <2>1, <3>1 DEF IInv, TypeOK, Tick, redis
  <2>2. CASE OutageEnds
    BY <1>1, <2>2 DEF IInv, TypeOK, OutageEnds, breaker
  <2> QED
    BY <2>1, <2>2
<1>3. ProbeAccounted' /\ NoneAhead' /\ ProbesAreCurrent'
  BY <1>1 DEF IInv, ProbeAccounted, NoneAhead, ProbesAreCurrent, Current,
     InFlight
<1> QED
  BY <1>2, <1>3 DEF IInv

LEMMA StepPreserves == IInv /\ [Next]_vars => IInv'
<1> SUFFICES ASSUME IInv, [Next]_vars
             PROVE  IInv'
  OBVIOUS
<1>1. CASE UNCHANGED vars
  BY <1>1 DEF vars, breaker, redis, IInv, TypeOK, ProbeAccounted, NoneAhead,
     ProbesAreCurrent, Current, InFlight
<1>2. ASSUME NEW c \in Callers, Allow(c)
      PROVE  IInv'
  BY <1>2, AllowClosedStep, AllowProbeStep DEF Allow
<1>3. ASSUME NEW c \in Callers, Complete(c)
      PROVE  IInv'
  BY <1>3, SuccessStep, FailureStep DEF Complete
<1> QED
  BY <1>1, <1>2, <1>3, EnvironmentStep DEF Next

LEMMA Invariance == Spec => []IInv
BY InitEstablishes, StepPreserves, PTL DEF Spec

(* Every variable of breaker.go stays in its range; in particular a closed *)
(* breaker is always below its threshold.                                  *)
THEOREM TypeCorrect == Spec => []TypeOK
<1>1. IInv => TypeOK
  BY DEF IInv
<1> QED
  BY Invariance, <1>1, PTL

(* A half-open breaker has exactly one probe out, an open one no call that *)
(* counts: the probe flag can never be left set with nobody to clear it,   *)
(* which would refuse every call to Redis for good.                        *)
THEOREM OneProbe == Spec => []ProbeAccounted
<1>1. IInv => ProbeAccounted
  BY DEF IInv
<1> QED
  BY Invariance, <1>1, PTL
-----------------------------------------------------------------------------
(* Refinement *)

counted == {c \in Callers : Current(c)}

shownFailures == IF state = "closed" THEN consecutiveFailures ELSE 0

(* A call that returns takes nobody else's vote, unless it trips. *)
LEMMA CountedAfterReturn ==
  ASSUME IInv, NEW c \in Callers, Return(c), UNCHANGED generation
  PROVE  counted' = counted \ {c}
<1>1. \A d \in Callers : Current(d)' <=> Current(d) /\ d # c
  BY Returned DEF IInv, Current, InFlight
<1> QED
  BY <1>1 DEF counted

(* A trip strikes every call in flight off. *)
LEMMA CountedAfterTrip ==
  ASSUME IInv, IInv', Open
  PROVE  counted' = {}
BY DEF IInv, Open, ProbeAccounted, counted

LEMMA StepRefines ==
  ASSUME IInv, IInv', [Next]_vars
  PROVE  [Promise!Next]_(Promise!vars)
<1> USE DEF counted, shownFailures
<1>1. CASE UNCHANGED vars
  <2>1. \A c \in Callers : Current(c)' <=> Current(c)
    BY <1>1 DEF vars, breaker, Current, InFlight
  <2> QED
    BY <1>1, <2>1 DEF vars, breaker, Promise!vars
<1>2. ASSUME NEW c \in Callers, AllowClosed(c)
      PROVE  Promise!Begin(c)
  <2>1. \A d \in Callers : Current(d)' <=> Current(d) \/ d = c
    BY <1>2, NoPermitAssumption
    DEF AllowClosed, Grant, breaker, IInv, TypeOK, Current, InFlight, Permit
  <2>2. counted' = counted \cup {c}
    BY <2>1
  <2> QED
    BY <1>2, <2>2 DEF AllowClosed, breaker, Promise!Begin
<1>3. ASSUME NEW c \in Callers, AllowProbe(c)
      PROVE  Promise!Probe(c)
  <2>1. state = "open" /\ openFor = 0 /\ state' = "half_open"
    BY <1>3 DEF AllowProbe, IInv, ProbeAccounted
  <2>2. \A d \in Callers : Current(d)' <=> d = c
    BY <1>3, <2>1, NoPermitAssumption
    DEF AllowProbe, Grant, IInv, TypeOK, ProbeAccounted, Current, InFlight, Permit
  <2>3. counted' = {c}
    BY <2>2
  <2> QED
    BY <1>3, <2>1, <2>3 DEF AllowProbe, Promise!Probe
<1>4. ASSUME NEW c \in Callers, CompleteSuccess(c)
      PROVE  Promise!Succeed(c) \/ UNCHANGED Promise!vars
  <2>1. Return(c) /\ InFlight(c) /\ UNCHANGED <<generation, openFor>>
    BY <1>4 DEF CompleteSuccess, Return
  <2>2. counted' = counted \ {c} /\ (c \in counted <=> Counts(c))
    BY <2>1, CountedAfterReturn, CurrentCounts
  <2>3. CASE Counts(c)
    BY <1>4, <2>1, <2>2, <2>3 DEF CompleteSuccess, Promise!Succeed
  <2>4. CASE ~Counts(c)
    BY <1>4, <2>1, <2>2, <2>4 DEF CompleteSuccess, Promise!vars
  <2> QED
    BY <2>3, <2>4
<1>5. ASSUME NEW c \in Callers, CompleteFailure(c)
      PROVE  Promise!Endure(c) \/ Promise!Trip(c) \/ UNCHANGED Promise!vars
  <2>1. Return(c) /\ InFlight(c)
    BY <1>5 DEF CompleteFailure, Return
  <2>2. c \in counted <=> Counts(c)
    BY <2>1, CurrentCounts
  <2>3. CASE ~Counts(c)
    <3>1. UNCHANGED breaker
      BY <1>5, <2>3 DEF CompleteFailure
    <3>2. counted' = counted
      BY <2>1, <2>2, <2>3, <3>1, CountedAfterReturn DEF breaker
    <3> QED
      BY <3>1, <3>2 DEF breaker, Promise!vars
  <2>4. CASE Counts(c) /\ state = "half_open"
    <3>1. Open
      BY <1>5, <2>4 DEF CompleteFailure
    <3> QED
      BY <2>2, <2>4, <3>1, CountedAfterTrip DEF Open, Promise!Trip
  <2>5. CASE Counts(c) /\ state # "half_open"
    <3>1. state = "closed" /\ CountFailure
      BY <1>5, <2>1, <2>5, PermitFacts DEF CompleteFailure, Counts, IInv
    <3>2. consecutiveFailures + 1 <= FailureThreshold
      BY <3>1, PermitFacts DEF IInv, TypeOK
    <3>3. CASE consecutiveFailures' >= FailureThreshold
      <4>1. Open /\ consecutiveFailures + 1 = FailureThreshold
        BY <3>1, <3>2, <3>3, PermitFacts DEF CountFailure, IInv
      <4> QED
        BY <2>2, <2>5, <3>1, <4>1, CountedAfterTrip DEF Open, Promise!Trip
    <3>4. CASE ~(consecutiveFailures' >= FailureThreshold)
      <4>1. /\ consecutiveFailures' = consecutiveFailures + 1
            /\ UNCHANGED <<state, openFor, generation>>
            /\ consecutiveFailures + 1 < FailureThreshold
        BY <3>1, <3>2, <3>4, PermitFacts DEF CountFailure, IInv
      <4>2. counted' = counted \ {c}
        BY <2>1, <4>1, CountedAfterReturn
      <4> QED
        BY <2>2, <2>5, <3>1, <4>1, <4>2 DEF Promise!Endure
    <3> QED
      BY <3>3, <3>4
  <2> QED
    BY <2>3, <2>4, <2>5
<1>6. CASE Tick \/ OutageEnds
  <2>1. counted' = counted
    BY <1>6 DEF Tick, OutageEnds, breaker, Current, InFlight
  <2> QED
    BY <1>6, <2>1
    DEF Tick, OutageEnds, breaker, Promise!Next, Promise!Tick, Promise!vars
<1> QED
  BY <1>1, <1>2, <1>3, <1>4, <1>5, <1>6
  DEF Next, Allow, Complete, Promise!Next

(* Generation numbers keep the promise of FailFast: only calls begun since *)
(* the last trip have a say, and one call at a time tries a Redis that was *)
(* left alone for OpenTimeout.                                             *)
THEOREM Refines == Spec => ImplementsFailFast
<1>1. Init => Promise!Init
  BY DEF Init, Promise!Init, Current, InFlight
<1>2. IInv /\ IInv' /\ [Next]_vars => [Promise!Next]_(Promise!vars)
  BY StepRefines
<1> QED
  BY Invariance, <1>1, <1>2, PTL DEF Spec, ImplementsFailFast, Promise!Spec
=============================================================================
