------------------------------ MODULE FailFast ------------------------------
(***************************************************************************)
(* What a circuit breaker promises its callers, with no permits, flags or  *)
(* generation numbers: while the dependency fails it is left alone for     *)
(* OpenTimeout and then tried by one call, and only the calls in counted   *)
(* have a say.  Tripping strikes every call in flight off that set, so a   *)
(* slow answer from before an outage neither ends nor prolongs it.         *)
(* CircuitBreaker implements this.                                         *)
(***************************************************************************)
EXTENDS Naturals

CONSTANTS Callers, FailureThreshold, OpenTimeout

VARIABLES
  state,                \* closed, open or half_open
  failures,             \* consecutive failures of counted calls, when closed
  wait,                 \* time left until a probe is let through
  counted               \* the calls whose outcome still counts

vars == <<state, failures, wait, counted>>

TypeOK ==
  /\ state \in {"closed", "open", "half_open"}
  /\ failures \in 0..(FailureThreshold - 1)
  /\ wait \in 0..OpenTimeout
  /\ counted \subseteq Callers

Init ==
  /\ state = "closed"
  /\ failures = 0
  /\ wait = 0
  /\ counted = {}

Begin(c) ==
  /\ state = "closed"
  /\ counted' = counted \cup {c}
  /\ UNCHANGED <<state, failures, wait>>

Probe(c) ==
  /\ state = "open"
  /\ wait = 0
  /\ state' = "half_open"
  /\ counted' = {c}
  /\ UNCHANGED <<failures, wait>>

Succeed(c) ==
  /\ c \in counted
  /\ state' = "closed"
  /\ failures' = 0
  /\ counted' = counted \ {c}
  /\ UNCHANGED wait

Endure(c) ==
  /\ c \in counted
  /\ state = "closed"
  /\ failures + 1 < FailureThreshold
  /\ failures' = failures + 1
  /\ counted' = counted \ {c}
  /\ UNCHANGED <<state, wait>>

Trip(c) ==
  /\ c \in counted
  /\ state = "half_open" \/ failures + 1 = FailureThreshold
  /\ state' = "open"
  /\ failures' = 0
  /\ wait' = OpenTimeout
  /\ counted' = {}

Tick ==
  /\ wait > 0
  /\ wait' = wait - 1
  /\ UNCHANGED <<state, failures, counted>>

Next ==
  \/ \E c \in Callers : Begin(c) \/ Probe(c) \/ Succeed(c) \/ Endure(c) \/ Trip(c)
  \/ Tick

Spec == Init /\ [][Next]_vars
=============================================================================
