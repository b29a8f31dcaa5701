--------------------------- MODULE CircuitBreaker ---------------------------
(***************************************************************************)
(* The circuit breaker in front of Redis                                   *)
(* (src/v10/internal/resilience/breaker.go), shared by the Redis publish   *)
(* workers and the statistics goroutine of one server.                     *)
(*                                                                         *)
(* Execute is two critical sections, allow and complete, with the call to  *)
(* Redis between them and no lock held.  A call can return, fail or panic  *)
(* at any later time, so a permit can outlive the state it was given in.   *)
(*                                                                         *)
(* Time is openUntil - now(), which is all allow looks at.  The counters   *)
(* of Snapshot are left out: opened equals generation.                     *)
(***************************************************************************)
EXTENDS Naturals

CONSTANTS
  Callers,              \* goroutines that call Execute
  NoPermit,
  FailureThreshold,     \* Config.FailureThreshold
  OpenTimeout,          \* Config.OpenTimeout, in steps of the clock
  MaxGeneration         \* bound on how often the breaker opens

ASSUME Assumptions ==
  /\ FailureThreshold \in Nat \ {0}
  /\ OpenTimeout \in Nat \ {0}
  /\ MaxGeneration \in Nat

State == {"closed", "open", "half_open"}

Permit == [state : {"closed", "half_open"}, generation : 0..MaxGeneration]

ASSUME NoPermitAssumption == NoPermit \notin Permit

VARIABLES
  state,
  consecutiveFailures,
  openFor,              \* openUntil - now(), zero once it is reached
  probeInFlight,
  generation,
  permit,               \* of the call each goroutine is in
  outage,               \* Redis fails or does not answer
  doubtful              \* calls made during the outage: they may fail later

breaker == <<state, consecutiveFailures, openFor, probeInFlight, generation>>
redis   == <<outage, doubtful>>
vars    == <<breaker, permit, redis>>

TypeOK ==
  /\ state \in State
  /\ consecutiveFailures \in 0..FailureThreshold
  /\ state = "closed" => consecutiveFailures < FailureThreshold
  /\ openFor \in 0..OpenTimeout
  /\ probeInFlight \in BOOLEAN
  /\ generation \in 0..MaxGeneration
  /\ permit \in [Callers -> Permit \cup {NoPermit}]
  /\ outage \in BOOLEAN
  /\ doubtful \subseteq Callers

Init ==
  /\ state = "closed"
  /\ consecutiveFailures = 0
  /\ openFor = 0
  /\ probeInFlight = FALSE
  /\ generation = 0
  /\ permit = [c \in Callers |-> NoPermit]
  /\ outage = TRUE
  /\ doubtful = {}

InFlight(c) == permit[c] # NoPermit

-----------------------------------------------------------------------------
(* allow *)

Grant(c, s) ==
  /\ permit' = [permit EXCEPT ![c] = [state |-> s, generation |-> generation]]
  /\ doubtful' = IF outage THEN doubtful \cup {c} ELSE doubtful

AllowClosed(c) ==
  /\ ~InFlight(c)
  /\ state = "closed"
  /\ Grant(c, "closed")
  /\ UNCHANGED <<breaker, outage>>

(* Variant: a half-open breaker lets every call through. *)
AllowProbes(c) ==
  /\ ~InFlight(c)
  /\ \/ state = "open" /\ openFor = 0
     \/ state = "half_open"
  /\ state' = "half_open"
  /\ probeInFlight' = TRUE
  /\ Grant(c, "half_open")
  /\ UNCHANGED <<consecutiveFailures, openFor, generation, outage>>

AllowProbe(c) ==
  /\ ~InFlight(c)
  /\ \/ state = "open" /\ openFor = 0
     \/ state = "half_open" /\ ~probeInFlight
  /\ state' = "half_open"
  /\ probeInFlight' = TRUE
  /\ Grant(c, "half_open")
  /\ UNCHANGED <<consecutiveFailures, openFor, generation, outage>>

-----------------------------------------------------------------------------
(* complete *)

(* Variant: the generation is not looked at. *)
CountsByState(c) == permit[c].state = state

Counts(c) ==
  /\ permit[c].generation = generation
  /\ permit[c].state = state

Open ==
  /\ state' = "open"
  /\ probeInFlight' = FALSE
  /\ openFor' = OpenTimeout
  /\ generation' = generation + 1

(* Variant: a failure takes the breaker past its threshold unnoticed. *)
CountFailureLate ==
  /\ consecutiveFailures' = consecutiveFailures + 1
  /\ IF consecutiveFailures' > FailureThreshold
       THEN Open
       ELSE UNCHANGED <<state, openFor, probeInFlight, generation>>

(* A counted failure of a call made while closed. *)
CountFailure ==
  /\ consecutiveFailures' = consecutiveFailures + 1
  /\ IF consecutiveFailures' >= FailureThreshold
       THEN Open
       ELSE UNCHANGED <<state, openFor, probeInFlight, generation>>

Return(c) ==
  /\ InFlight(c)
  /\ permit' = [permit EXCEPT ![c] = NoPermit]
  /\ doubtful' = doubtful \ {c}

(* Variant: a probe that succeeds leaves the breaker half-open. *)
CompleteSuccessStuck(c) ==
  /\ Return(c)
  /\ IF Counts(c) /\ state = "closed"
       THEN /\ consecutiveFailures' = 0
            /\ UNCHANGED <<state, probeInFlight>>
       ELSE UNCHANGED <<state, consecutiveFailures, probeInFlight>>
  /\ UNCHANGED <<openFor, generation, outage>>

CompleteSuccess(c) ==
  /\ Return(c)
  /\ IF Counts(c)
       THEN /\ state' = "closed"
            /\ consecutiveFailures' = 0
            /\ probeInFlight' = (probeInFlight /\ state = "closed")
       ELSE UNCHANGED <<state, consecutiveFailures, probeInFlight>>
  /\ UNCHANGED <<openFor, generation, outage>>

(* The call returned an error or panicked. *)
CompleteFailure(c) ==
  /\ Return(c)
  /\ c \in doubtful
  /\ generation < MaxGeneration
  /\ IF ~Counts(c)
       THEN UNCHANGED breaker
       ELSE IF state = "half_open"
              THEN Open /\ UNCHANGED consecutiveFailures
              ELSE CountFailure
  /\ UNCHANGED outage
-----------------------------------------------------------------------------
(* The environment *)

Tick ==
  /\ openFor > 0
  /\ openFor' = openFor - 1
  /\ UNCHANGED <<state, consecutiveFailures, probeInFlight, generation, permit,
                 redis>>

OutageEnds ==
  /\ outage
  /\ outage' = FALSE
  /\ UNCHANGED <<breaker, permit, doubtful>>
-----------------------------------------------------------------------------
Allow(c) == AllowClosed(c) \/ AllowProbe(c)

Complete(c) == CompleteSuccess(c) \/ CompleteFailure(c)

Next ==
  \/ \E c \in Callers : Allow(c) \/ Complete(c)
  \/ Tick
  \/ OutageEnds

Spec == Init /\ [][Next]_vars

(* Calls keep coming, every call returns (the Redis client has dial, read  *)
(* and write timeouts), and the clock advances.                            *)
LiveSpec ==
  /\ Spec
  /\ WF_vars(\E c \in Callers : Allow(c))
  /\ \A c \in Callers : WF_vars(Complete(c))
  /\ WF_vars(Tick)
-----------------------------------------------------------------------------
(* Properties *)

Current(c) == InFlight(c) /\ permit[c].generation = generation

(* v9/README 8.3: the half-open breaker has exactly one probe out, so that *)
(* it neither floods Redis nor waits for a probe nobody is making; an open *)
(* one has no call out whose result would count; and no second call holds  *)
(* a probe's permit, stale ones included.                                  *)
ProbeAccounted ==
  /\ probeInFlight <=> state = "half_open"
  /\ state = "closed" => \A c \in Callers : Current(c) => permit[c].state = "closed"
  /\ state = "open" => \A c \in Callers : ~Current(c)
  /\ state = "half_open" =>
       \E c \in Callers : \A d \in Callers :
         /\ Current(d) <=> d = c
         /\ InFlight(d) /\ permit[d].state = "half_open" <=> d = c

(* v9/README 8.4: a result counts exactly if its call began after the last *)
(* trip.  Generation numbers compared on completion implement striking all *)
(* calls in flight off a list on every trip.                               *)
Promise == INSTANCE FailFast
             WITH failures <- IF state = "closed" THEN consecutiveFailures ELSE 0,
                  wait     <- openFor,
                  counted  <- {c \in Callers : Current(c)}

ImplementsFailFast == Promise!Spec

(* v9/README 8.5: once Redis answers again the breaker closes and stays    *)
(* closed, whatever calls from the outage are still to return.             *)
Recovers == ~outage ~> [](state = "closed")
=============================================================================
