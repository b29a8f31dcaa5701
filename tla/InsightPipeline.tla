-------------------------- MODULE InsightPipeline --------------------------
(***************************************************************************)
(* The V11 insight pipeline (src/v11/insight): messages are collected into *)
(* windows of a room while a scheduler claims the windows that are due and *)
(* a fixed pool of workers analyses, publishes and completes them.         *)
(*                                                                         *)
(* The language model sits behind a guard with a concurrency limit and a   *)
(* circuit; whatever it does, the rule analyser publishes a degraded       *)
(* insight instead.  The store, the repository and the rule analyser are   *)
(* used through interfaces whose errors the processor handles: MaxFaults   *)
(* bounds those errors but for that of Release, which a window meets at    *)
(* most once.  Nothing bounds the failures of the model.                   *)
(*                                                                         *)
(* cmd/insightd replays a file and then calls ProcessDue once; the         *)
(* benchmark calls it until a call claims nothing or returns an error.     *)
(* Both are behaviours of this model: another call may come at any time,   *)
(* and nothing makes it come.  Messages arrive at any time too, as the     *)
(* locks of the store and its late counter are made for.                   *)
(***************************************************************************)
EXTENDS Naturals, FiniteSets, Sequences

CONSTANTS
  Windows,                  \* a room and an interval each
  Rank,                     \* of windows by start, then by room
  Events,
  Source,                   \* the order in which they come, with repetitions
  WindowOf,                 \* NewWindowRef of the event's room and time
  Deadline,                 \* end of the window plus Config.Lateness
  MaxEvents,                \* Config.MaxEvents
  ClaimLimit,               \* maxDueWindows
  Workers,                  \* Config.Workers goroutines
  MaxInFlight,              \* GuardConfig.MaxInFlight
  FailureThreshold,         \* GuardConfig.FailureThreshold
  MaxTime,                  \* bounds the clock
  MaxFaults,                \* bounds the errors of the ports but Release
  Idle

ASSUME Assumptions ==
  /\ Rank \in [Windows -> Nat]
  /\ Source \in Seq(Events)
  /\ WindowOf \in [Events -> Windows]
  /\ Deadline \in [Windows -> Nat]
  /\ IsFiniteSet(Events)
  /\ IsFiniteSet(Workers)
  /\ MaxEvents \in Nat \ {0}
  /\ ClaimLimit \in Nat \ {0}
  /\ MaxInFlight \in Nat \ {0}
  /\ FailureThreshold \in Nat \ {0}
  /\ MaxTime \in Nat
  /\ MaxFaults \in Nat

VARIABLES
  clock,
  position,                 \* how much of Source has been read
  reading,                  \* the event being added and the time read for it
  known,                    \* eventIDs of all windows
  events,                   \* the events retained in all windows
  dueAt, claimed, completed,
  now,                      \* of the ProcessDue that is running, or Idle
  jobs,                     \* claimed and not yet taken by a worker
  worker,                   \* the window each worker processes, and its step
  insights,                 \* Repository.insights
  sem,                      \* calls to the model in flight
  open, consecutiveFail,    \* openUntil lies in the future; failures in a row
  faults,
  (* history *)
  inTime,                   \* events in the store before their deadline
  failed,                   \* windows of this round for which a port failed
  uncompleted,              \* windows whose Complete failed after the Save
  stuck                     \* windows whose Release failed

source == <<clock, position, reading>>
store  == <<known, events, inTime>>
claims == <<dueAt, claimed, completed, stuck>>
guard  == <<sem, open, consecutiveFail>>
vars == <<source, store, claims, now, jobs, worker, insights, guard, faults,
          failed, uncompleted>>

(* The prompt version, which also tells a normal from a degraded insight. *)
Versions == {"insight.v1", "rule.v1"}

Insight == [window : Windows, version : Versions, events : SUBSET Events]

Steps == {"ask", "wait", "call", "fallback", "save", "complete", "release"}

Job == [window : Windows, step : Steps, events : SUBSET Events,
        version : Versions]

ASSUME IdleAssumption ==
  Idle \notin [event : Events, at : 0..MaxTime] \cup Nat \cup Job

Retained(w) == {e \in events : WindowOf[e] = w}
Opened(w) == \E e \in known : WindowOf[e] = w
Published(w) == {i \in insights : i.window = w}

TypeOK ==
  /\ clock \in 0..MaxTime
  /\ position \in 0..Len(Source)
  /\ reading \in [event : Events, at : 0..MaxTime] \cup {Idle}
  /\ known \subseteq Events
  /\ events \subseteq known
  /\ \A w \in Windows : Cardinality(Retained(w)) <= MaxEvents
  /\ dueAt \in [Windows -> Nat]
  /\ claimed \in [Windows -> BOOLEAN]
  /\ completed \subseteq Windows
  /\ now \in Nat \cup {Idle}
  /\ jobs \subseteq Windows
  /\ worker \in [Workers -> Job \cup {Idle}]
  /\ insights \subseteq Insight
  /\ sem \in 0..MaxInFlight
  /\ open \in BOOLEAN
  /\ consecutiveFail \in 0..(FailureThreshold - 1)
  /\ faults \in 0..MaxFaults
  /\ inTime \subseteq known
  /\ failed \subseteq Windows
  /\ uncompleted \subseteq Windows
  /\ stuck \subseteq Windows

Init ==
  /\ clock = 0
  /\ position = 0
  /\ reading = Idle
  /\ known = {}
  /\ events = {}
  /\ dueAt = Deadline
  /\ claimed = [w \in Windows |-> FALSE]
  /\ completed = {}
  /\ now = Idle
  /\ jobs = {}
  /\ worker = [k \in Workers |-> Idle]
  /\ insights = {}
  /\ sem = 0
  /\ open = FALSE
  /\ consecutiveFail = 0
  /\ faults = 0
  /\ inTime = {}
  /\ failed = {}
  /\ uncompleted = {}
  /\ stuck = {}

Tick ==
  /\ clock < MaxTime
  /\ clock' = clock + 1
  /\ UNCHANGED <<position, reading, store, claims, now, jobs, worker, insights,
                 guard, faults, failed, uncompleted>>

(***************************************************************************)
(* Ingestor.Handle reads the clock before Add takes the lock of the store. *)
(* The source may repeat an event; Add only counts it then.                *)
(***************************************************************************)
Handle ==
  /\ reading = Idle
  /\ position < Len(Source)
  /\ position' = position + 1
  /\ reading' = [event |-> Source[position + 1], at |-> clock]
  /\ UNCHANGED <<clock, store, claims, now, jobs, worker, insights, guard,
                 faults, failed, uncompleted>>

AddDuplicate ==
  /\ reading # Idle
  /\ reading.event \in known
  /\ reading' = Idle
  /\ UNCHANGED <<clock, position, store, claims, now, jobs, worker, insights,
                 guard, faults, failed, uncompleted>>

(* Variant: MaxEvents forgotten *)
AddUnbounded ==
  /\ reading # Idle
  /\ reading.event \notin known
  /\ LET e == reading.event
         w == WindowOf[e]
     IN  /\ known' = known \cup {e}
         /\ events' = IF reading.at < Deadline[w]
                        THEN events \cup {e} ELSE events
         /\ inTime' = IF clock < Deadline[w] THEN inTime \cup {e} ELSE inTime
  /\ reading' = Idle
  /\ UNCHANGED <<clock, position, claims, now, jobs, worker, insights, guard,
                 faults, failed, uncompleted>>

(* A late event and one beyond MaxEvents are only counted. *)
Add ==
  /\ reading # Idle
  /\ reading.event \notin known
  /\ LET e == reading.event
         w == WindowOf[e]
     IN  /\ known' = known \cup {e}
         /\ events' = IF /\ reading.at < Deadline[w]
                         /\ Cardinality(Retained(w)) < MaxEvents
                        THEN events \cup {e} ELSE events
         /\ inTime' = IF clock < Deadline[w] THEN inTime \cup {e} ELSE inTime
  /\ reading' = Idle
  /\ UNCHANGED <<clock, position, claims, now, jobs, worker, insights, guard,
                 faults, failed, uncompleted>>

(* Variant: due at the end of the window, without the lateness *)
IsDueEarly(w) ==
  /\ Opened(w)
  /\ w \notin completed
  /\ ~claimed[w]
  /\ dueAt[w] <= clock + 1

IsDue(w) ==
  /\ Opened(w)
  /\ w \notin completed
  /\ ~claimed[w]
  /\ dueAt[w] <= clock

(* ClaimDue claims the first windows that are due. *)
ClaimDue ==
  {w \in Windows :
     /\ IsDue(w)
     /\ Cardinality({v \in Windows : IsDue(v) /\ Rank[v] < Rank[w]})
          < ClaimLimit}

(***************************************************************************)
(* ProcessDue hands the claimed windows to its workers over a channel and  *)
(* returns when all of them are done.  A call that claims nothing changes  *)
(* nothing.                                                                *)
(***************************************************************************)
ProcessDue ==
  /\ now = Idle
  /\ ClaimDue # {}
  /\ now' = clock
  /\ jobs' = ClaimDue
  /\ failed' = {}
  /\ claimed' = [w \in Windows |-> claimed[w] \/ w \in ClaimDue]
  /\ UNCHANGED <<source, store, dueAt, completed, stuck, worker, insights,
                 guard, faults, uncompleted>>

ProcessDueReturns ==
  /\ now # Idle
  /\ jobs = {}
  /\ \A k \in Workers : worker[k] = Idle
  /\ now' = Idle
  /\ UNCHANGED <<source, store, claims, jobs, worker, insights, guard, faults,
                 failed, uncompleted>>

Goto(k, step) == worker' = [worker EXCEPT ![k].step = step]

At(k, step) == worker[k] # Idle /\ worker[k].step = step

(* A port fails for window w. *)
Fault(w) ==
  /\ faults < MaxFaults
  /\ faults' = faults + 1
  /\ failed' = failed \cup {w}

(* A worker takes the next job; Load copies the events retained so far. *)
TakeJob(k, w, step) ==
  /\ worker[k] = Idle
  /\ w \in jobs
  /\ \A v \in jobs : Rank[w] <= Rank[v]
  /\ jobs' = jobs \ {w}
  /\ worker' = [worker EXCEPT ![k] =
       [window |-> w, step |-> step, events |-> Retained(w),
        version |-> "insight.v1"]]
  /\ UNCHANGED <<source, store, claims, now, insights, guard, uncompleted>>

Load(k) ==
  \E w \in jobs : TakeJob(k, w, "ask") /\ UNCHANGED <<faults, failed>>

LoadFails(k) == \E w \in jobs : TakeJob(k, w, "release") /\ Fault(w)

(* GuardedModel.Complete: beforeCall asks the circuit, then the call waits *)
(* for a place among those in flight without asking again.                 *)
BeforeCall(k) ==
  /\ At(k, "ask")
  /\ Goto(k, IF open THEN "fallback" ELSE "wait")
  /\ UNCHANGED <<source, store, claims, now, jobs, insights, guard, faults,
                 failed, uncompleted>>

Acquire(k) ==
  /\ At(k, "wait")
  /\ sem < MaxInFlight
  /\ sem' = sem + 1
  /\ Goto(k, "call")
  /\ UNCHANGED <<source, store, claims, now, jobs, insights, open,
                 consecutiveFail, faults, failed, uncompleted>>

(* The model answers.  An answer without evidence among the events of the  *)
(* window is refused by validatePrimaryEvidence or the parser before it.   *)
ModelAnswers(k) ==
  /\ At(k, "call")
  /\ sem' = sem - 1
  /\ consecutiveFail' = 0
  /\ \/ worker[k].events # {} /\ Goto(k, "save")
     \/ Goto(k, "fallback")
  /\ UNCHANGED <<source, store, claims, now, jobs, insights, open, faults,
                 failed, uncompleted>>

(* Variant: the place among the calls in flight is not given back *)
ModelFailsHolding(k) ==
  /\ At(k, "call")
  /\ IF consecutiveFail + 1 >= FailureThreshold
       THEN open' = TRUE /\ consecutiveFail' = 0
       ELSE open' = open /\ consecutiveFail' = consecutiveFail + 1
  /\ Goto(k, "fallback")
  /\ UNCHANGED <<source, store, claims, now, jobs, insights, sem, faults,
                 failed, uncompleted>>

(* The model fails or times out. *)
ModelFails(k) ==
  /\ At(k, "call")
  /\ sem' = sem - 1
  /\ IF consecutiveFail + 1 >= FailureThreshold
       THEN open' = TRUE /\ consecutiveFail' = 0
       ELSE open' = open /\ consecutiveFail' = consecutiveFail + 1
  /\ Goto(k, "fallback")
  /\ UNCHANGED <<source, store, claims, now, jobs, insights, faults,
                 failed, uncompleted>>

(* OpenFor has passed. *)
CircuitCloses ==
  /\ open
  /\ open' = FALSE
  /\ UNCHANGED <<source, store, claims, now, jobs, worker, insights, sem,
                 consecutiveFail, faults, failed, uncompleted>>

(* The rule analyser instead of the model. *)
Fallback(k) ==
  /\ At(k, "fallback")
  /\ worker' = [worker EXCEPT ![k].step = "save", ![k].version = "rule.v1"]
  /\ UNCHANGED <<source, store, claims, now, jobs, insights, guard, faults,
                 failed, uncompleted>>

FallbackFails(k) ==
  /\ At(k, "fallback")
  /\ Fault(worker[k].window)
  /\ Goto(k, "release")
  /\ UNCHANGED <<source, store, claims, now, jobs, insights, guard,
                 uncompleted>>

(* Save keeps what is already there under the key of the insight: its      *)
(* window and its prompt version.                                          *)
Save(k) ==
  /\ At(k, "save")
  /\ LET j == worker[k]
         insight == [window |-> j.window, version |-> j.version,
                     events |-> j.events]
     IN  insights' = IF \E i \in Published(j.window) : i.version = j.version
                       THEN insights ELSE insights \cup {insight}
  /\ Goto(k, "complete")
  /\ UNCHANGED <<source, store, claims, now, jobs, guard, faults, failed,
                 uncompleted>>

(* Variant: an early return instead of failed *)
SaveFailsReturning(k) ==
  /\ At(k, "save")
  /\ Fault(worker[k].window)
  /\ worker' = [worker EXCEPT ![k] = Idle]
  /\ UNCHANGED <<source, store, claims, now, jobs, insights, guard,
                 uncompleted>>

SaveFails(k) ==
  /\ At(k, "save")
  /\ Fault(worker[k].window)
  /\ Goto(k, "release")
  /\ UNCHANGED <<source, store, claims, now, jobs, insights, guard,
                 uncompleted>>

(* Variant: the window is given back but not remembered as completed *)
CompleteForgotten(k) ==
  /\ At(k, "complete")
  /\ claimed' = [claimed EXCEPT ![worker[k].window] = FALSE]
  /\ worker' = [worker EXCEPT ![k] = Idle]
  /\ UNCHANGED <<source, store, dueAt, completed, stuck, now, jobs, insights,
                 guard, faults, failed, uncompleted>>

Complete(k) ==
  /\ At(k, "complete")
  /\ completed' = completed \cup {worker[k].window}
  /\ claimed' = [claimed EXCEPT ![worker[k].window] = FALSE]
  /\ worker' = [worker EXCEPT ![k] = Idle]
  /\ UNCHANGED <<source, store, dueAt, stuck, now, jobs, insights, guard,
                 faults, failed, uncompleted>>

CompleteFails(k) ==
  /\ At(k, "complete")
  /\ Fault(worker[k].window)
  /\ uncompleted' = uncompleted \cup {worker[k].window}
  /\ Goto(k, "release")
  /\ UNCHANGED <<source, store, claims, now, jobs, insights, guard>>

(* Processor.failed: the window is due again from the time of this round. *)
Release(k) ==
  /\ At(k, "release")
  /\ claimed' = [claimed EXCEPT ![worker[k].window] = FALSE]
  /\ dueAt' = [dueAt EXCEPT ![worker[k].window] = now]
  /\ worker' = [worker EXCEPT ![k] = Idle]
  /\ UNCHANGED <<source, store, completed, stuck, now, jobs, insights, guard,
                 faults, failed, uncompleted>>

(* ProcessDue reports this error; nothing gives the window back. *)
ReleaseFails(k) ==
  /\ At(k, "release")
  /\ stuck' = stuck \cup {worker[k].window}
  /\ worker' = [worker EXCEPT ![k] = Idle]
  /\ UNCHANGED <<source, store, dueAt, claimed, completed, now, jobs,
                 insights, guard, faults, failed, uncompleted>>

ModelStep(k) ==
  \/ BeforeCall(k) \/ Acquire(k) \/ ModelAnswers(k) \/ ModelFails(k)
  \/ Fallback(k) \/ FallbackFails(k)

PortStep(k) ==
  \/ Load(k) \/ LoadFails(k)
  \/ Save(k) \/ SaveFails(k)
  \/ Complete(k) \/ CompleteFails(k)
  \/ Release(k) \/ ReleaseFails(k)

Next ==
  \/ Tick
  \/ Handle \/ AddDuplicate \/ Add
  \/ ProcessDue \/ ProcessDueReturns
  \/ \E k \in Workers : ModelStep(k) \/ PortStep(k)
  \/ CircuitCloses

(***************************************************************************)
(* A call of ProcessDue that has begun goes on: no worker stays in a step  *)
(* for ever (a call to the model ends by its timeout), and it returns when *)
(* they are done.  That it is called again is not assumed, nor that the    *)
(* circuit closes.                                                         *)
(***************************************************************************)
Fairness ==
  /\ WF_vars(ProcessDueReturns)
  /\ \A k \in Workers : WF_vars(ModelStep(k)) /\ WF_vars(PortStep(k))

Spec == Init /\ [][Next]_vars /\ Fairness

----------------------------------------------------------------------------

(***************************************************************************)
(* ClaimDue, Complete and Release against the pool: a claimed window is in *)
(* the hands of exactly one worker or in the channel, so that it is never  *)
(* analysed twice at once, and one that nobody holds can be claimed again. *)
(* The one exception is a window whose Release failed.                     *)
(***************************************************************************)
Held(w) ==
  Cardinality({k \in Workers : worker[k] # Idle /\ worker[k].window = w})
    + (IF w \in jobs THEN 1 ELSE 0)

ClaimsAreHeld ==
  \A w \in Windows :
    Held(w) = IF claimed[w] /\ w \notin stuck THEN 1 ELSE 0

(***************************************************************************)
(* Lateness against ClaimDue and Load: a message that was in the store     *)
(* before its window's deadline is in every insight of that window, unless *)
(* the window was full.  (One that read the clock in time and waited for   *)
(* the lock longer than that may be retained and still miss it.)           *)
(***************************************************************************)
InsightsMissNothing ==
  \A i \in insights : \A e \in inTime :
    WindowOf[e] = i.window =>
      e \in i.events \/ Cardinality(i.events) = MaxEvents

(***************************************************************************)
(* Save before Complete, and the key of Save: a completed window has an    *)
(* insight, and it has two, a normal and a degraded one, only if Complete  *)
(* failed after a Save, so that the next round took the window again.      *)
(***************************************************************************)
PublishedOnce ==
  \A w \in Windows :
    /\ w \in completed => Published(w) # {}
    /\ Cardinality(Published(w)) > 1 => w \in uncompleted
    /\ Cardinality(Published(w)) <= Cardinality(Versions)

(***************************************************************************)
(* "The window is not lost through a failure of the model" (the README of  *)
(* V11), as far as one call of ProcessDue goes: however often the model    *)
(* fails, and with more workers than places at the model, the call returns *)
(* and each window it claimed is published and completed by then, unless   *)
(* another port failed for that window in this call.  What becomes of a    *)
(* window that was not claimed, or was given back, is up to the next call, *)
(* if there is one.                                                        *)
(***************************************************************************)
RoundsSettle ==
  /\ now # Idle ~> now = Idle
  /\ \A w \in Windows :
       w \in jobs ~> (w \in completed /\ Published(w) # {}) \/ w \in failed
=============================================================================
