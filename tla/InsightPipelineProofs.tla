------------------------ MODULE InsightPipelineProofs ------------------------
(***************************************************************************)
(* InsightPipeline for any number of windows, events and workers, whatever *)
(* the model does and however often the ports fail.                        *)
(***************************************************************************)
EXTENDS InsightPipeline, FiniteSetTheorems, TLAPS

Holds(k, w) == worker[k] # Idle /\ worker[k].window = w

(* The windows of a round are shared out between channel and workers. *)
Pool ==
  /\ now = Idle => jobs = {} /\ \A k \in Workers : worker[k] = Idle
  /\ \A w \in Windows :
       claimed[w] /\ w \notin stuck
         <=> w \in jobs \/ \E k \in Workers : Holds(k, w)
  /\ \A w \in jobs : \A k \in Workers : ~Holds(k, w)
  /\ \A k, l \in Workers : \A w \in Windows : Holds(k, w) /\ Holds(l, w) => k = l
  /\ \A w \in completed : ~claimed[w]
  /\ \A w \in stuck : claimed[w]

Calling == {k \in Workers : At(k, "call")}

SemExact == sem = Cardinality(Calling)

(* No window is due before its deadline, so none is held or published. *)
Ripe ==
  /\ reading # Idle => reading.at <= clock
  /\ now # Idle => now <= clock
  /\ \A w \in Windows : Deadline[w] <= dueAt[w]
  /\ \A w \in jobs : Deadline[w] <= now
  /\ \A k \in Workers : worker[k] # Idle => Deadline[worker[k].window] <= now
  /\ \A i \in insights : Deadline[i.window] <= clock

(* S has the events of the window that came in time, or is full. *)
Covers(w, S) ==
  \A e \in inTime :
    WindowOf[e] = w => e \in S \/ Cardinality(S) = MaxEvents

Coverage ==
  /\ \A w \in Windows : Covers(w, Retained(w))
  /\ \A k \in Workers :
       worker[k] # Idle => Covers(worker[k].window, worker[k].events)
  /\ \A i \in insights : Covers(i.window, i.events)

Publishing ==
  /\ \A i, j \in insights :
       i.window = j.window /\ i.version = j.version => i = j
  /\ \A i, j \in insights :
       i.window = j.window /\ i.window \notin uncompleted => i = j
  /\ \A i \in insights :
       \/ i.window \in completed \cup uncompleted
       \/ \E k \in Workers : Holds(k, i.window) /\ At(k, "complete")
  /\ \A k \in Workers :
       At(k, "complete") => \E i \in insights : i.window = worker[k].window
  /\ \A w \in completed : \E i \in insights : i.window = w

Types == TypeOK /\ Pool /\ SemExact

IInv == Types /\ Ripe /\ Coverage /\ Publishing
-----------------------------------------------------------------------------
(* What the steps do to the array of workers. *)
LEMMA GotoIsEntry ==
  ASSUME TypeOK, NEW k \in Workers, NEW s \in Steps, worker[k] # Idle
  PROVE  LET j == [worker[k] EXCEPT !.step = s]
         IN  /\ j \in Job
             /\ j.window = worker[k].window
             /\ j.events = worker[k].events
             /\ j.version = worker[k].version
             /\ j.step = s
             /\ Goto(k, s) => worker' = [worker EXCEPT ![k] = j]
BY DEF TypeOK, Job, Goto

LEMMA EntryIsBusy ==
  ASSUME TypeOK, NEW k \in Workers, NEW j \in Job,
         worker' = [worker EXCEPT ![k] = j]
  PROVE  /\ worker' \in [Workers -> Job \cup {Idle}]
         /\ worker'[k] = j
         /\ worker'[k] # Idle
         /\ \A l \in Workers : l # k => worker'[l] = worker[l]
BY IdleAssumption DEF TypeOK

LEMMA WorkerFreed ==
  ASSUME TypeOK, NEW k \in Workers, worker' = [worker EXCEPT ![k] = Idle]
  PROVE  /\ worker' \in [Workers -> Job \cup {Idle}]
         /\ worker'[k] = Idle
         /\ \A l \in Workers : l # k => worker'[l] = worker[l]
BY DEF TypeOK

(* A worker takes one of the jobs. *)
Taking(k, s) == \E w \in jobs : TakeJob(k, w, s)

LEMMA TakeIsEntry ==
  ASSUME TypeOK, NEW k \in Workers, NEW s \in Steps, Taking(k, s)
  PROVE  \E w \in jobs :
           LET j == [window |-> w, step |-> s, events |-> Retained(w),
                     version |-> "insight.v1"]
           IN  /\ j \in Job
               /\ w \in Windows
               /\ worker[k] = Idle
               /\ jobs' = jobs \ {w}
               /\ worker' = [worker EXCEPT ![k] = j]
<1>1. PICK w \in jobs :
        /\ jobs' = jobs \ {w}
        /\ worker' = [worker EXCEPT ![k] =
             [window |-> w, step |-> s, events |-> Retained(w),
              version |-> "insight.v1"]]
  BY DEF Taking, TakeJob
<1>2. w \in Windows /\ Retained(w) \in SUBSET Events
  BY DEF TypeOK, Retained
<1> QED
  BY <1>1, <1>2 DEF Taking, TakeJob, Job, Versions

LEMMA WorkerTyped ==
  ASSUME TypeOK, NEW k \in Workers, ModelStep(k) \/ PortStep(k)
  PROVE  worker' \in [Workers -> Job \cup {Idle}]
<1>1. ASSUME NEW s \in Steps, Taking(k, s)
      PROVE  worker' \in [Workers -> Job \cup {Idle}]
  BY <1>1, TakeIsEntry, EntryIsBusy
<1>2. ASSUME NEW s \in Steps, worker[k] # Idle, Goto(k, s)
      PROVE  worker' \in [Workers -> Job \cup {Idle}]
  <2> DEFINE j == [worker[k] EXCEPT !.step = s]
  <2>1. j \in Job /\ worker' = [worker EXCEPT ![k] = j]
    BY <1>2, GotoIsEntry
  <2> HIDE DEF j
  <2> QED
    BY <2>1, EntryIsBusy
<1>3. ASSUME worker' = [worker EXCEPT ![k] = Idle]
      PROVE  worker' \in [Workers -> Job \cup {Idle}]
  BY <1>3, WorkerFreed
<1>4. CASE Load(k) \/ LoadFails(k)
  BY <1>1, <1>4 DEF Load, LoadFails, Steps, Taking
<1>5. CASE BeforeCall(k)
  BY <1>2, <1>5 DEF BeforeCall, At, Steps
<1>6. CASE Acquire(k) \/ ModelAnswers(k) \/ ModelFails(k)
  BY <1>2, <1>6 DEF Acquire, ModelAnswers, ModelFails, At, Steps
<1>7. CASE FallbackFails(k) \/ Save(k) \/ SaveFails(k) \/ CompleteFails(k)
  BY <1>2, <1>7 DEF FallbackFails, Save, SaveFails, CompleteFails, At, Steps
<1>8. CASE Fallback(k)
  <2>1. worker[k] \in Job
    BY <1>8 DEF Fallback, At, TypeOK
  <2>2. [worker[k] EXCEPT !.step = "save", !.version = "rule.v1"] \in Job
    BY <2>1 DEF Job, Steps, Versions
  <2> QED
    BY <1>8, <2>2 DEF Fallback, TypeOK
<1>9. CASE Complete(k) \/ Release(k) \/ ReleaseFails(k)
  BY <1>3, <1>9 DEF Complete, Release, ReleaseFails
<1> QED
  BY <1>4, <1>5, <1>6, <1>7, <1>8, <1>9 DEF ModelStep, PortStep

(* No step lets a window retain more than MaxEvents. *)
LEMMA RetainedFinite ==
  ASSUME TypeOK, NEW w \in Windows
  PROVE  /\ IsFiniteSet(Retained(w))
         /\ Cardinality(Retained(w)) \in Nat
<1>1. Retained(w) \in SUBSET Events
  BY DEF TypeOK, Retained
<1> QED
  BY <1>1, Assumptions, FS_Subset, FS_CardinalityType

LEMMA AddRetains ==
  ASSUME TypeOK, Add, NEW w \in Windows
  PROVE  \/ /\ Retained(w)' = Retained(w)
            /\ Cardinality(Retained(w)') <= MaxEvents
         \/ /\ w = WindowOf[reading.event]
            /\ Retained(w)' = Retained(w) \cup {reading.event}
            /\ Cardinality(Retained(w)) < MaxEvents
            /\ Cardinality(Retained(w)') <= MaxEvents
<1> DEFINE e == reading.event
<1>1. CASE events' = events
  <2>1. Retained(w)' = Retained(w)
    BY <1>1 DEF Retained
  <2> QED
    BY <2>1 DEF TypeOK
<1>2. CASE events' # events
  <2>1. events' = events \cup {e} /\ e \notin known
        /\ Cardinality(Retained(WindowOf[e])) < MaxEvents
    BY <1>2 DEF Add
  <2>2. CASE w = WindowOf[e]
    <3>1. Retained(w)' = Retained(w) \cup {e}
      BY <2>1, <2>2 DEF Retained
    <3>2. Cardinality(Retained(w) \cup {e}) <= Cardinality(Retained(w)) + 1
      BY RetainedFinite, FS_AddElement
    <3>3. IsFiniteSet(Retained(w) \cup {e})
          /\ Cardinality(Retained(w) \cup {e}) \in Nat
      BY RetainedFinite, FS_AddElement, FS_CardinalityType
    <3> QED
      BY <2>1, <2>2, <3>1, <3>2, <3>3, RetainedFinite, Assumptions
  <2>3. CASE w # WindowOf[e]
    <3>1. Retained(w)' = Retained(w)
      BY <2>1, <2>3 DEF Retained
    <3> QED
      BY <3>1 DEF TypeOK
  <2> QED
    BY <2>2, <2>3
<1> QED
  BY <1>1, <1>2

(* The places taken are those of the workers in a call. *)
LEMMA CallingFinite ==
  /\ IsFiniteSet(Calling)
  /\ Cardinality(Calling) \in Nat
BY Assumptions, FS_Subset, FS_CardinalityType DEF Calling

LEMMA CallsHoldAPlace ==
  ASSUME SemExact, NEW k \in Workers, At(k, "call")
  PROVE  sem > 0
<1>1. Calling # {}
  BY DEF Calling
<1>2. Cardinality(Calling) # 0
  BY <1>1, CallingFinite, FS_EmptySet
<1> QED
  BY <1>2, CallingFinite DEF SemExact

LEMMA TypeStep ==
  ASSUME Types, [Next]_vars
  PROVE  TypeOK'
<1> USE DEF source, store, claims, guard
<1>c. /\ FailureThreshold \in Nat \ {0} /\ MaxInFlight \in Nat \ {0}
      /\ MaxTime \in Nat /\ MaxFaults \in Nat
      /\ WindowOf \in [Events -> Windows]
      /\ Source \in Seq(Events)
  BY Assumptions
<1>t. TypeOK /\ Pool /\ SemExact
  BY DEF Types
<1>f. ASSUME NEW w \in Windows, Fault(w)
      PROVE  faults' \in 0..MaxFaults /\ failed' \subseteq Windows
  BY <1>c, <1>f, <1>t DEF Fault, TypeOK
<1>g. ASSUME NEW k \in Workers, worker[k] # Idle
      PROVE  worker[k].window \in Windows
  BY <1>g, <1>t DEF TypeOK, Job
<1>1. CASE UNCHANGED vars
  BY <1>1, <1>t DEF vars, TypeOK, Retained
<1>2. CASE Tick
  BY <1>2, <1>c, <1>t DEF Tick, TypeOK, Retained
<1>3. CASE Handle
  <2>1. Source[position + 1] \in Events /\ position' \in 0..Len(Source)
    BY <1>3, <1>c, <1>t DEF Handle, TypeOK
  <2> QED
    BY <1>3, <1>t, <2>1 DEF Handle, TypeOK, Retained
<1>4. CASE AddDuplicate
  BY <1>4, <1>t DEF AddDuplicate, TypeOK, Retained
<1>5. CASE Add
  <2>1. reading \in [event : Events, at : 0..MaxTime]
    BY <1>5, <1>t DEF Add, TypeOK
  <2>2. known' \subseteq Events /\ events' \subseteq known' /\ inTime' \subseteq known'
    BY <1>5, <1>t, <2>1 DEF Add, TypeOK
  <2>3. \A w \in Windows : Cardinality(Retained(w))' <= MaxEvents
    BY <1>5, <1>t, AddRetains
  <2> QED
    BY <1>5, <1>t, <2>2, <2>3 DEF Add, TypeOK
<1>6. CASE ProcessDue
  BY <1>6, <1>t DEF ProcessDue, ClaimDue, TypeOK, Retained
<1>7. CASE ProcessDueReturns
  BY <1>7, <1>t DEF ProcessDueReturns, TypeOK, Retained
<1>8. CASE CircuitCloses
  BY <1>8, <1>t DEF CircuitCloses, TypeOK, Retained
<1>9. ASSUME NEW k \in Workers, ModelStep(k)
      PROVE  TypeOK'
  <2>w. worker' \in [Workers -> Job \cup {Idle}]
    BY <1>9, <1>t, WorkerTyped
  <2>1. CASE BeforeCall(k) \/ Fallback(k)
    BY <2>1, <2>w, <1>t DEF BeforeCall, Fallback, TypeOK, Retained
  <2>5. CASE FallbackFails(k)
    <3>1. faults' \in 0..MaxFaults /\ failed' \subseteq Windows
      BY <2>5, <1>f, <1>g DEF FallbackFails, At
    <3> QED
      BY <2>5, <2>w, <3>1, <1>t DEF FallbackFails, TypeOK, Retained
  <2>2. CASE Acquire(k)
    BY <2>2, <2>w, <1>t, <1>c DEF Acquire, TypeOK, Retained
  <2>3. CASE ModelAnswers(k)
    <3>1. sem > 0
      BY <2>3, <1>t, CallsHoldAPlace DEF ModelAnswers
    <3> QED
      BY <2>3, <2>w, <3>1, <1>t, <1>c DEF ModelAnswers, TypeOK, Retained
  <2>4. CASE ModelFails(k)
    <3>1. sem > 0
      BY <2>4, <1>t, CallsHoldAPlace DEF ModelFails
    <3>2. open' \in BOOLEAN /\ consecutiveFail' \in 0..(FailureThreshold - 1)
      <4>1. open \in BOOLEAN /\ consecutiveFail \in 0..(FailureThreshold - 1)
        BY <1>t DEF TypeOK
      <4>2. CASE consecutiveFail + 1 >= FailureThreshold
        BY <2>4, <4>2, <1>c DEF ModelFails
      <4>3. CASE ~(consecutiveFail + 1 >= FailureThreshold)
        <5>1. open' = open /\ consecutiveFail' = consecutiveFail + 1
          BY <2>4, <4>3 DEF ModelFails
        <5> QED
          BY <4>1, <4>3, <5>1, <1>c
      <4> QED
        BY <4>2, <4>3
    <3> QED
      BY <2>4, <2>w, <3>1, <3>2, <1>t, <1>c DEF ModelFails, TypeOK, Retained
  <2> QED
    BY <1>9, <2>1, <2>2, <2>3, <2>4, <2>5 DEF ModelStep
<1>10. ASSUME NEW k \in Workers, PortStep(k)
       PROVE  TypeOK'
  <2>w. worker' \in [Workers -> Job \cup {Idle}]
    BY <1>10, <1>t, WorkerTyped
  <2>1. CASE Load(k) \/ LoadFails(k)
    <3>1. faults' \in 0..MaxFaults /\ failed' \subseteq Windows
      BY <2>1, <1>f, <1>t DEF Load, LoadFails, TypeOK
    <3>2. PICK s \in Steps : Taking(k, s)
      BY <2>1 DEF Load, LoadFails, Steps, Taking
    <3> QED
      BY <2>w, <3>1, <3>2, <1>t DEF Taking, TakeJob, TypeOK, Retained
  <2>2. CASE Save(k)
    <3>1. worker[k] \in Job
      BY <2>2, <1>t DEF Save, At, TypeOK
    <3>2. [window |-> worker[k].window, version |-> worker[k].version,
           events |-> worker[k].events] \in Insight
      BY <3>1 DEF Job, Insight
    <3> QED
      BY <2>2, <2>w, <3>2, <1>t DEF Save, TypeOK, Retained
  <2>3. CASE SaveFails(k)
    <3>1. faults' \in 0..MaxFaults /\ failed' \subseteq Windows
      BY <2>3, <1>f, <1>g DEF SaveFails, At
    <3> QED
      BY <2>3, <2>w, <3>1, <1>t DEF SaveFails, TypeOK, Retained
  <2>4. CASE Complete(k)
    <3>1. worker[k].window \in Windows
      BY <2>4, <1>t DEF Complete, At, TypeOK, Job
    <3> QED
      BY <2>4, <2>w, <3>1, <1>t DEF Complete, TypeOK, Retained
  <2>5. CASE CompleteFails(k)
    <3>1. worker[k].window \in Windows
      BY <2>5, <1>t DEF CompleteFails, At, TypeOK, Job
    <3> QED
      BY <2>5, <2>w, <3>1, <1>t, <1>f DEF CompleteFails, TypeOK, Retained
  <2>6. CASE Release(k)
    <3>1. worker[k].window \in Windows /\ now \in Nat
      BY <2>6, <1>t DEF Release, At, TypeOK, Job, Pool
    <3> QED
      BY <2>6, <2>w, <3>1, <1>t DEF Release, TypeOK, Retained
  <2>7. CASE ReleaseFails(k)
    <3>1. worker[k].window \in Windows
      BY <2>7, <1>t DEF ReleaseFails, At, TypeOK, Job
    <3> QED
      BY <2>7, <2>w, <3>1, <1>t DEF ReleaseFails, TypeOK, Retained
  <2> QED
    BY <1>10, <2>1, <2>2, <2>3, <2>4, <2>5, <2>6, <2>7 DEF PortStep
<1> QED
  BY <1>1, <1>2, <1>3, <1>4, <1>5, <1>6, <1>7, <1>8, <1>9, <1>10 DEF Next
-----------------------------------------------------------------------------
(* A worker goes on to another step with its window. *)
Moves(k) ==
  /\ worker[k] # Idle
  /\ \E j \in Job : /\ j.window = worker[k].window
                    /\ j.events = worker[k].events
                    /\ worker' = [worker EXCEPT ![k] = j]
  /\ UNCHANGED <<source, store, claims, now, jobs>>

LEMMA GotoMoves ==
  ASSUME TypeOK, NEW k \in Workers, NEW s \in Steps, worker[k] # Idle,
         Goto(k, s), UNCHANGED <<source, store, claims, now, jobs>>
  PROVE  Moves(k)
<1> DEFINE j == [worker[k] EXCEPT !.step = s]
<1>1. /\ j \in Job /\ worker' = [worker EXCEPT ![k] = j]
      /\ j.window = worker[k].window /\ j.events = worker[k].events
  BY GotoIsEntry
<1> HIDE DEF j
<1> QED
  BY <1>1 DEF Moves

LEMMA StepKinds ==
  ASSUME TypeOK, NEW k \in Workers, ModelStep(k) \/ PortStep(k)
  PROVE  \/ Moves(k)
         \/ \E s \in Steps : Taking(k, s)
         \/ Complete(k)
         \/ Release(k)
         \/ ReleaseFails(k)
<1> USE DEF source, store, claims, guard
<1>1. CASE Load(k) \/ LoadFails(k)
  BY <1>1 DEF Load, LoadFails, Steps, Taking
<1>2. CASE BeforeCall(k)
  BY <1>2, GotoMoves DEF BeforeCall, At, Steps
<1>3. CASE Acquire(k)
  BY <1>3, GotoMoves DEF Acquire, At, Steps
<1>4. CASE ModelAnswers(k)
  BY <1>4, GotoMoves DEF ModelAnswers, At, Steps
<1>5. CASE ModelFails(k)
  BY <1>5, GotoMoves DEF ModelFails, At, Steps
<1>6. CASE FallbackFails(k)
  BY <1>6, GotoMoves DEF FallbackFails, At, Steps
<1>7. CASE Save(k)
  BY <1>7, GotoMoves DEF Save, At, Steps
<1>8. CASE SaveFails(k)
  BY <1>8, GotoMoves DEF SaveFails, At, Steps
<1>9. CASE CompleteFails(k)
  BY <1>9, GotoMoves DEF CompleteFails, At, Steps
<1>10. CASE Fallback(k)
  <2> DEFINE j == [worker[k] EXCEPT !.step = "save", !.version = "rule.v1"]
  <2>1. worker[k] \in Job /\ worker[k] # Idle
    BY <1>10 DEF Fallback, At, TypeOK
  <2>2. j \in Job /\ j.window = worker[k].window /\ j.events = worker[k].events
    BY <2>1 DEF Job, Steps, Versions
  <2>3. worker' = [worker EXCEPT ![k] = j]
    BY <1>10 DEF Fallback
  <2> HIDE DEF j
  <2> QED
    BY <1>10, <2>1, <2>2, <2>3 DEF Fallback, Moves
<1> QED
  BY <1>1, <1>2, <1>3, <1>4, <1>5, <1>6, <1>7, <1>8, <1>9, <1>10
  DEF ModelStep, PortStep

LEMMA MovesKeepsHolds ==
  ASSUME TypeOK, NEW k \in Workers, Moves(k)
  PROVE  \A l \in Workers :
           /\ worker'[l] = Idle <=> worker[l] = Idle
           /\ worker'[l].window = worker[l].window
           /\ worker'[l].events = worker[l].events
<1>1. PICK j \in Job : /\ j.window = worker[k].window
                       /\ j.events = worker[k].events
                       /\ worker' = [worker EXCEPT ![k] = j]
  BY DEF Moves
<1> QED
  BY <1>1, EntryIsBusy DEF Moves

LEMMA PoolMoves ==
  ASSUME TypeOK, Pool, NEW k \in Workers, Moves(k)
  PROVE  Pool'
<1>1. \A l \in Workers : \A w : Holds(l, w)' <=> Holds(l, w)
  BY MovesKeepsHolds DEF Holds
<1>2. \A l \in Workers : worker'[l] = Idle <=> worker[l] = Idle
  BY MovesKeepsHolds
<1>3. UNCHANGED <<jobs, claimed, completed, stuck, now>>
  BY DEF Moves, claims
<1> QED
  BY <1>1, <1>2, <1>3 DEF Pool

LEMMA PoolTake ==
  ASSUME TypeOK, Pool, NEW k \in Workers, NEW s \in Steps, Taking(k, s)
  PROVE  Pool'
<1>1. PICK w \in jobs, j \in Job :
        /\ j.window = w
        /\ w \in Windows
        /\ worker[k] = Idle
        /\ jobs' = jobs \ {w}
        /\ worker' = [worker EXCEPT ![k] = j]
  BY TakeIsEntry
<1>2. UNCHANGED <<claimed, completed, stuck, now>>
  BY DEF Taking, TakeJob, claims
<1>3. /\ worker'[k] = j /\ worker'[k] # Idle
      /\ \A l \in Workers : l # k => worker'[l] = worker[l]
  BY <1>1, EntryIsBusy
<1>4. \A l \in Workers : \A v : Holds(l, v)' <=> Holds(l, v) \/ (l = k /\ v = w)
  BY <1>1, <1>3 DEF Holds
<1>5. now # Idle
  BY <1>1 DEF Pool
<1>6. \A l \in Workers : ~Holds(l, w) /\ \A v : ~Holds(k, v)
  BY <1>1 DEF Pool, Holds
<1>7. \A v \in Windows :
        claimed'[v] /\ v \notin stuck'
          <=> v \in jobs' \/ \E l \in Workers : Holds(l, v)'
  BY <1>1, <1>2, <1>4 DEF Pool
<1>8. \A v \in jobs' : \A l \in Workers : ~Holds(l, v)'
  BY <1>1, <1>4 DEF Pool
<1>9. \A l, m \in Workers : \A v \in Windows :
        Holds(l, v)' /\ Holds(m, v)' => l = m
  BY <1>4, <1>6 DEF Pool
<1> QED
  BY <1>2, <1>5, <1>7, <1>8, <1>9 DEF Pool

(* The worker lets go of its window. *)
LEMMA HoldsFreed ==
  ASSUME TypeOK, Pool, NEW k \in Workers, worker[k] # Idle,
         worker' = [worker EXCEPT ![k] = Idle]
  PROVE  LET w == worker[k].window
         IN  /\ w \in Windows
             /\ claimed[w] /\ w \notin stuck /\ w \notin jobs
             /\ w \notin completed
             /\ \A l \in Workers : \A v \in Windows :
                  Holds(l, v)' <=> Holds(l, v) /\ v # w
<1> DEFINE w == worker[k].window
<1>1. w \in Windows /\ Holds(k, w)
  BY DEF TypeOK, Job, Holds
<1>2. claimed[w] /\ w \notin stuck /\ w \notin jobs /\ w \notin completed
  BY <1>1 DEF Pool
<1>3. /\ worker'[k] = Idle
      /\ \A l \in Workers : l # k => worker'[l] = worker[l]
  BY WorkerFreed
<1>4. ASSUME NEW l \in Workers, NEW v \in Windows
      PROVE  Holds(l, v)' <=> Holds(l, v) /\ v # w
  <2>1. CASE l = k
    BY <1>1, <1>3, <2>1 DEF Holds
  <2>2. CASE l # k
    <3>1. Holds(l, v)' <=> Holds(l, v)
      BY <1>3, <2>2 DEF Holds
    <3>2. ~Holds(l, w)
      BY <1>1, <2>2 DEF Pool
    <3> QED
      BY <3>1, <3>2
  <2> QED
    BY <2>1, <2>2
<1> QED
  BY <1>1, <1>2, <1>4

LEMMA PoolFree ==
  ASSUME TypeOK, Pool, NEW k \in Workers,
         Complete(k) \/ Release(k) \/ ReleaseFails(k)
  PROVE  Pool'
<1> DEFINE w == worker[k].window
<1>1. worker[k] # Idle /\ worker' = [worker EXCEPT ![k] = Idle]
  BY DEF Complete, Release, ReleaseFails, At
<1>2. /\ w \in Windows
      /\ claimed[w] /\ w \notin stuck /\ w \notin jobs /\ w \notin completed
      /\ \A l \in Workers : \A v \in Windows :
           Holds(l, v)' <=> Holds(l, v) /\ v # w
  BY <1>1, HoldsFreed
<1>3. jobs' = jobs /\ now' = now
  BY DEF Complete, Release, ReleaseFails
<1>4. claimed \in [Windows -> BOOLEAN] /\ stuck \subseteq Windows
      /\ jobs \subseteq Windows /\ completed \subseteq Windows
  BY DEF TypeOK
<1>5. \/ /\ claimed' = [claimed EXCEPT ![w] = FALSE]
         /\ stuck' = stuck /\ completed' \in {completed, completed \cup {w}}
      \/ /\ stuck' = stuck \cup {w}
         /\ claimed' = claimed /\ completed' = completed
  BY DEF Complete, Release, ReleaseFails
<1> HIDE DEF w
<1>6. \A v \in Windows :
        claimed'[v] /\ v \notin stuck'
          <=> claimed[v] /\ v \notin stuck /\ v # w
  BY <1>2, <1>4, <1>5
<1>7. \A v \in Windows :
        claimed'[v] /\ v \notin stuck'
          <=> v \in jobs' \/ \E l \in Workers : Holds(l, v)'
  BY <1>2, <1>3, <1>6 DEF Pool
<1>8. /\ \A v \in jobs' : \A l \in Workers : ~Holds(l, v)'
      /\ \A l, m \in Workers : \A v \in Windows :
           Holds(l, v)' /\ Holds(m, v)' => l = m
  BY <1>2, <1>3, <1>4 DEF Pool
<1>9. /\ \A v \in completed' : ~claimed'[v]
      /\ \A v \in stuck' : claimed'[v]
  BY <1>2, <1>4, <1>5 DEF Pool
<1>10. now' # Idle
  BY <1>1, <1>3 DEF Pool
<1> QED
  BY <1>7, <1>8, <1>9, <1>10 DEF Pool

LEMMA PoolProcessDue ==
  ASSUME TypeOK, Pool, ProcessDue
  PROVE  Pool'
<1>1. /\ jobs' = ClaimDue /\ now' = clock
      /\ UNCHANGED <<completed, stuck, worker>>
      /\ claimed' = [w \in Windows |-> claimed[w] \/ w \in ClaimDue]
  BY DEF ProcessDue
<1>2. \A w \in ClaimDue : w \in Windows /\ ~claimed[w] /\ w \notin completed
  BY DEF ClaimDue, IsDue
<1>3. \A k \in Workers : \A w : ~Holds(k, w)'
  BY <1>1 DEF ProcessDue, Pool, Holds
<1>4. now' # Idle
  BY <1>1, IdleAssumption DEF TypeOK
<1>5. \A w \in Windows : claimed[w] => w \in stuck
  BY DEF Pool, ProcessDue, Holds
<1>6. \A w \in Windows : w \in stuck => claimed[w]
  BY DEF Pool
<1>7. \A w \in Windows :
        claimed'[w] /\ w \notin stuck'
          <=> w \in jobs' \/ \E k \in Workers : Holds(k, w)'
  BY <1>1, <1>2, <1>3, <1>5, <1>6
<1>8. /\ \A w \in completed' : ~claimed'[w]
      /\ \A w \in stuck' : claimed'[w]
  BY <1>1, <1>2 DEF Pool, TypeOK
<1> QED
  BY <1>3, <1>4, <1>7, <1>8 DEF Pool

LEMMA PoolSame ==
  ASSUME Pool, UNCHANGED <<jobs, claimed, completed, stuck, now, worker>>
  PROVE  Pool'
BY DEF Pool, Holds

LEMMA PoolStep ==
  ASSUME TypeOK, Pool, [Next]_vars
  PROVE  Pool'
<1> USE DEF source, store, claims, guard
<1>1. CASE UNCHANGED vars \/ Tick \/ CircuitCloses
  BY <1>1, PoolSame DEF vars, Tick, CircuitCloses
<1>2. CASE Handle \/ AddDuplicate \/ Add
  BY <1>2, PoolSame DEF Handle, AddDuplicate, Add
<1>3. CASE ProcessDue
  BY <1>3, PoolProcessDue
<1>4. CASE ProcessDueReturns
  <2>1. /\ now' = Idle /\ UNCHANGED <<jobs, claimed, completed, stuck, worker>>
        /\ jobs = {} /\ \A k \in Workers : worker[k] = Idle
    BY <1>4 DEF ProcessDueReturns
  <2> QED
    BY <2>1 DEF Pool, Holds
<1>5. ASSUME NEW k \in Workers, ModelStep(k) \/ PortStep(k)
      PROVE  Pool'
  BY <1>5, StepKinds, PoolMoves, PoolTake, PoolFree
<1> QED
  BY <1>1, <1>2, <1>3, <1>4, <1>5 DEF Next

(* The number of calls in flight. *)
LEMMA CallingMoves ==
  ASSUME TypeOK, NEW k \in Workers, NEW s \in Steps, worker[k] # Idle, Goto(k, s)
  PROVE  /\ s = "call" => Calling' = Calling \cup {k}
         /\ s # "call" => Calling' = Calling \ {k}
<1> DEFINE j == [worker[k] EXCEPT !.step = s]
<1>1. j \in Job /\ j.step = s /\ worker' = [worker EXCEPT ![k] = j]
  BY GotoIsEntry
<1> HIDE DEF j
<1>2. /\ worker'[k] = j /\ worker'[k] # Idle
      /\ \A l \in Workers : l # k => worker'[l] = worker[l]
  BY <1>1, EntryIsBusy
<1> QED
  BY <1>1, <1>2 DEF Calling, At

LEMMA CallingLeaves ==
  ASSUME TypeOK, NEW k \in Workers, ~At(k, "call"), ~At(k, "call")',
         \A l \in Workers : l # k => worker'[l] = worker[l]
  PROVE  Calling' = Calling
BY DEF Calling, At

LEMMA SemStep ==
  ASSUME TypeOK, SemExact, [Next]_vars
  PROVE  SemExact'
<1> USE DEF source, store, claims, guard
<1>s. Calling' = Calling /\ sem' = sem => SemExact'
  BY DEF SemExact
<1>1. CASE UNCHANGED worker /\ UNCHANGED sem
  <2>1. Calling' = Calling
    BY <1>1 DEF Calling, At
  <2> QED
    BY <1>1, <1>s, <2>1
<1>2. CASE UNCHANGED vars \/ Tick \/ CircuitCloses \/ Handle \/ AddDuplicate
  BY <1>1, <1>2 DEF vars, Tick, CircuitCloses, Handle, AddDuplicate
<1>3. CASE Add \/ ProcessDue \/ ProcessDueReturns
  BY <1>1, <1>3 DEF Add, ProcessDue, ProcessDueReturns
<1>4. ASSUME NEW k \in Workers, Acquire(k)
      PROVE  SemExact'
  <2>1. Calling' = Calling \cup {k} /\ k \notin Calling /\ sem' = sem + 1
    BY <1>4, CallingMoves DEF Acquire, At, Steps, Calling
  <2> QED
    BY <2>1, CallingFinite, FS_AddElement DEF SemExact
<1>5. ASSUME NEW k \in Workers, ModelAnswers(k) \/ ModelFails(k)
      PROVE  SemExact'
  <2>1. sem' = sem - 1 /\ k \in Calling /\ worker[k] # Idle
    BY <1>5 DEF ModelAnswers, ModelFails, At, Calling
  <2>2. Goto(k, "save") \/ Goto(k, "fallback")
    BY <1>5 DEF ModelAnswers, ModelFails
  <2>3. Calling' = Calling \ {k}
    BY <2>1, <2>2, CallingMoves DEF Steps
  <2> QED
    BY <2>1, <2>3, CallingFinite, FS_RemoveElement DEF SemExact
<1>6. ASSUME NEW k \in Workers, NEW s \in Steps \ {"call"}, sem' = sem,
             worker[k] # Idle, ~At(k, "call"), Goto(k, s)
      PROVE  SemExact'
  BY <1>6, <1>s, CallingMoves DEF Calling
<1>7. ASSUME NEW k \in Workers, BeforeCall(k)
      PROVE  SemExact'
  BY <1>7, <1>6 DEF BeforeCall, At, Steps
<1>8. ASSUME NEW k \in Workers, FallbackFails(k) \/ Save(k) \/ SaveFails(k)
      PROVE  SemExact'
  BY <1>8, <1>6 DEF FallbackFails, Save, SaveFails, At, Steps
<1>9. ASSUME NEW k \in Workers, CompleteFails(k)
      PROVE  SemExact'
  BY <1>9, <1>6 DEF CompleteFails, At, Steps
<1>10. ASSUME NEW k \in Workers, Complete(k) \/ Release(k) \/ ReleaseFails(k)
       PROVE  SemExact'
  <2>1. /\ worker' = [worker EXCEPT ![k] = Idle] /\ sem' = sem
        /\ ~At(k, "call")
    BY <1>10 DEF Complete, Release, ReleaseFails, At
  <2>2. Calling' = Calling
    BY <2>1, WorkerFreed, CallingLeaves DEF At
  <2> QED
    BY <1>s, <2>1, <2>2
<1>11. ASSUME NEW k \in Workers, Load(k) \/ LoadFails(k)
       PROVE  SemExact'
  <2>1. PICK s \in {"ask", "release"} : Taking(k, s)
    BY <1>11 DEF Load, LoadFails, Taking
  <2>2. PICK w \in jobs :
          worker' = [worker EXCEPT ![k] =
            [window |-> w, step |-> s, events |-> Retained(w),
             version |-> "insight.v1"]]
    BY <2>1 DEF Taking, TakeJob
  <2>3. /\ worker'[k].step # "call"
        /\ \A l \in Workers : l # k => worker'[l] = worker[l]
    BY <2>2 DEF TypeOK
  <2>4. ~At(k, "call") /\ ~At(k, "call")' /\ sem' = sem
    BY <2>1, <2>3 DEF Taking, TakeJob, At
  <2> QED
    BY <1>s, <2>3, <2>4, CallingLeaves
<1>12. ASSUME NEW k \in Workers, Fallback(k)
       PROVE  SemExact'
  <2>1. /\ worker'[k].step # "call" /\ sem' = sem /\ ~At(k, "call")
        /\ \A l \in Workers : l # k => worker'[l] = worker[l]
    BY <1>12 DEF Fallback, At, TypeOK, Job
  <2> QED
    BY <1>s, <2>1, CallingLeaves DEF At
<1> QED
  BY <1>2, <1>3, <1>4, <1>5, <1>7, <1>8, <1>9, <1>10, <1>11, <1>12
  DEF Next, ModelStep, PortStep

LEMMA TypesInductive ==
  ASSUME Types, [Next]_vars
  PROVE  Types'
BY TypeStep, PoolStep, SemStep DEF Types
-----------------------------------------------------------------------------
(* What a step adds to the repository. *)
InsightOf(j) == [window |-> j.window, version |-> j.version,
                 events |-> j.events]

LEMMA InsightsGrow ==
  ASSUME TypeOK, NEW k \in Workers, ModelStep(k) \/ PortStep(k)
  PROVE  \/ insights' = insights
         \/ /\ At(k, "save")
            /\ insights' = insights \cup {InsightOf(worker[k])}
<1>1. CASE Save(k)
  BY <1>1 DEF Save, InsightOf
<1>2. CASE ModelStep(k)
  BY <1>2 DEF ModelStep, BeforeCall, Acquire, ModelAnswers, ModelFails,
              Fallback, FallbackFails
<1>3. CASE PortStep(k) /\ ~Save(k)
  BY <1>3 DEF PortStep, Load, LoadFails, Taking, TakeJob, SaveFails, Complete,
              CompleteFails, Release, ReleaseFails
<1> QED
  BY <1>1, <1>2, <1>3

LEMMA WorkersKeep ==
  ASSUME TypeOK, NEW k \in Workers, ModelStep(k) \/ PortStep(k)
  PROVE  UNCHANGED <<source, store, now>>
<1> USE DEF source, store
<1>1. CASE ModelStep(k)
  BY <1>1 DEF ModelStep, BeforeCall, Acquire, ModelAnswers, ModelFails,
              Fallback, FallbackFails
<1>2. CASE PortStep(k)
  BY <1>2 DEF PortStep, Load, LoadFails, Taking, TakeJob, Save, SaveFails, Complete,
              CompleteFails, Release, ReleaseFails
<1> QED
  BY <1>1, <1>2

LEMMA RoundTime ==
  ASSUME TypeOK, Pool, Ripe, NEW k \in Workers, worker[k] # Idle
  PROVE  /\ now \in Nat /\ clock \in Nat /\ now <= clock
         /\ worker[k] \in Job
         /\ worker[k].window \in Windows
         /\ Deadline[worker[k].window] \in Nat
         /\ Deadline[worker[k].window] <= now
         /\ Deadline[worker[k].window] <= clock
<1>1. now # Idle
  BY DEF Pool
<1>2. clock \in Nat
  BY Assumptions DEF TypeOK
<1>3. worker[k] \in Job /\ worker[k].window \in Windows
  BY DEF TypeOK, Job
<1>4. now \in Nat /\ now <= clock /\ Deadline[worker[k].window] <= now
  BY <1>1 DEF TypeOK, Ripe
<1>5. Deadline[worker[k].window] \in Nat
  BY <1>3, Assumptions
<1> QED
  BY <1>2, <1>3, <1>4, <1>5

LEMMA RipeWorker ==
  ASSUME TypeOK, Pool, Ripe, NEW k \in Workers, ModelStep(k) \/ PortStep(k)
  PROVE  Ripe'
<1>1. UNCHANGED <<clock, reading, now>>
  BY WorkersKeep DEF source
<1>2. \A i \in insights' : Deadline[i.window] <= clock'
  <2>1. CASE insights' = insights
    BY <1>1, <2>1 DEF Ripe
  <2>2. CASE At(k, "save") /\ insights' = insights \cup {InsightOf(worker[k])}
    <3>1. Deadline[InsightOf(worker[k]).window] <= clock
      BY <2>2, RoundTime DEF At, InsightOf
    <3> QED
      BY <1>1, <2>2, <3>1 DEF Ripe
  <2> QED
    BY <2>1, <2>2, InsightsGrow
<1>3. CASE Moves(k)
  <2>1. \A l \in Workers : /\ worker'[l] = Idle <=> worker[l] = Idle
                          /\ worker'[l].window = worker[l].window
    BY <1>3, MovesKeepsHolds
  <2>2. UNCHANGED <<dueAt, jobs>>
    BY <1>3 DEF Moves, claims
  <2> QED
    BY <1>1, <1>2, <2>1, <2>2 DEF Ripe
<1>4. ASSUME NEW s \in Steps, Taking(k, s)
      PROVE  Ripe'
  <2>1. PICK w \in jobs, j \in Job :
          /\ j.window = w
          /\ jobs' = jobs \ {w}
          /\ worker' = [worker EXCEPT ![k] = j]
    BY <1>4, TakeIsEntry
  <2>2. dueAt' = dueAt
    BY <1>4 DEF Taking, TakeJob, claims
  <2>3. /\ worker'[k] = j
        /\ \A l \in Workers : l # k => worker'[l] = worker[l]
    BY <2>1, EntryIsBusy
  <2>4. Deadline[w] <= now
    BY <2>1 DEF Ripe
  <2>5. \A l \in Workers : worker'[l] # Idle => Deadline[worker'[l].window] <= now
    BY <2>1, <2>3, <2>4 DEF Ripe
  <2> QED
    BY <1>1, <1>2, <2>1, <2>2, <2>5 DEF Ripe
<1>5. CASE Complete(k) \/ Release(k) \/ ReleaseFails(k)
  <2>1. /\ worker[k] # Idle /\ worker' = [worker EXCEPT ![k] = Idle]
        /\ jobs' = jobs
    BY <1>5 DEF Complete, Release, ReleaseFails, At
  <2>2. /\ worker'[k] = Idle
        /\ \A l \in Workers : l # k => worker'[l] = worker[l]
    BY <2>1, WorkerFreed
  <2>3. dueAt' \in {dueAt, [dueAt EXCEPT ![worker[k].window] = now]}
    BY <1>5 DEF Complete, Release, ReleaseFails
  <2>4. \A w \in Windows : Deadline[w] <= dueAt'[w]
    BY <2>1, <2>3, RoundTime DEF Ripe, TypeOK
  <2> QED
    BY <1>1, <1>2, <2>1, <2>2, <2>4 DEF Ripe
<1> QED
  BY <1>3, <1>4, <1>5, StepKinds

LEMMA RipeStep ==
  ASSUME Types, Ripe, [Next]_vars
  PROVE  Ripe'
<1> USE DEF source, store, claims, guard
<1>t. TypeOK /\ Pool
  BY DEF Types
<1>c. /\ clock \in Nat /\ \A w \in Windows : Deadline[w] \in Nat
      /\ \A w \in Windows : dueAt[w] \in Nat
  BY <1>t, Assumptions DEF TypeOK
<1>n. \A i \in insights : i.window \in Windows
  BY <1>t DEF TypeOK, Insight
<1>1. CASE UNCHANGED vars \/ CircuitCloses
  BY <1>1 DEF vars, CircuitCloses, Ripe
<1>2. CASE Tick
  <2>1. /\ clock' = clock + 1
        /\ UNCHANGED <<reading, now, dueAt, jobs, worker, insights>>
    BY <1>2 DEF Tick
  <2>2. reading # Idle => reading.at \in Nat
    BY <1>t DEF TypeOK
  <2>3. now # Idle => now \in Nat
    BY <1>t DEF TypeOK
  <2>4. reading' # Idle => reading'.at <= clock'
    BY <1>c, <2>1, <2>2 DEF Ripe
  <2>5. now' # Idle => now' <= clock'
    BY <1>c, <2>1, <2>3 DEF Ripe
  <2>6. \A i \in insights' : Deadline[i.window] <= clock'
    BY <1>c, <1>n, <2>1 DEF Ripe
  <2> QED
    BY <2>1, <2>4, <2>5, <2>6 DEF Ripe
<1>3. CASE Handle
  BY <1>3, <1>c DEF Handle, Ripe
<1>4. CASE AddDuplicate \/ Add
  BY <1>4 DEF AddDuplicate, Add, Ripe
<1>5. CASE ProcessDue
  <2>1. /\ now' = clock /\ jobs' = ClaimDue
        /\ UNCHANGED <<clock, reading, dueAt, worker, insights>>
    BY <1>5 DEF ProcessDue
  <2>2. \A w \in ClaimDue : w \in Windows /\ dueAt[w] <= clock
    BY DEF ClaimDue, IsDue
  <2>3. \A w \in jobs' : Deadline[w] <= now'
    BY <1>c, <2>1, <2>2 DEF Ripe
  <2>4. \A k \in Workers : worker'[k] = Idle
    BY <1>5, <1>t, <2>1 DEF ProcessDue, Pool
  <2> QED
    BY <1>c, <2>1, <2>3, <2>4 DEF Ripe
<1>6. CASE ProcessDueReturns
  BY <1>6 DEF ProcessDueReturns, Ripe
<1>7. ASSUME NEW k \in Workers, ModelStep(k) \/ PortStep(k)
      PROVE  Ripe'
  BY <1>7, <1>t, RipeWorker
<1> QED
  BY <1>1, <1>2, <1>3, <1>4, <1>5, <1>6, <1>7 DEF Next
-----------------------------------------------------------------------------
LEMMA CoversSame ==
  ASSUME inTime' = inTime, NEW w, NEW S
  PROVE  Covers(w, S)' <=> Covers(w, S)
BY DEF Covers

(* After the deadline no event comes in time any more. *)
LEMMA CoversRipe ==
  ASSUME TypeOK, Add, NEW w \in Windows, Deadline[w] <= clock,
         NEW S, Covers(w, S)
  PROVE  Covers(w, S)'
<1> DEFINE e == reading.event
<1>1. inTime' = inTime \/ (inTime' = inTime \cup {e} /\ clock < Deadline[WindowOf[e]])
  BY DEF Add
<1>2. clock \in Nat /\ Deadline[w] \in Nat
  BY Assumptions DEF TypeOK
<1>3. clock < Deadline[WindowOf[e]] => WindowOf[e] # w
  BY <1>2
<1> QED
  BY <1>1, <1>3 DEF Covers

(* Before it the event is retained, unless the window is full: the time    *)
(* read for it is not after the deadline either.                           *)
LEMMA CoversRetained ==
  ASSUME TypeOK, Ripe, Add, NEW w \in Windows, Covers(w, Retained(w))
  PROVE  Covers(w, Retained(w))'
<1> DEFINE e == reading.event
<1>1. /\ reading \in [event : Events, at : 0..MaxTime] /\ reading.at <= clock
      /\ clock \in Nat /\ MaxEvents \in Nat
      /\ WindowOf[e] \in Windows /\ Deadline[WindowOf[e]] \in Nat
  BY Assumptions DEF Add, TypeOK, Ripe
<1>2. Retained(w) \subseteq Retained(w)'
  BY AddRetains
<1>3. Cardinality(Retained(w)) = MaxEvents => Cardinality(Retained(w)') = MaxEvents
  BY <1>1, AddRetains, RetainedFinite
<1>4. ASSUME e \in inTime', e \notin inTime, WindowOf[e] = w
      PROVE  e \in Retained(w)' \/ Cardinality(Retained(w)') = MaxEvents
  <2>1. clock < Deadline[w]
    BY <1>4 DEF Add
  <2>2. reading.at < Deadline[w]
    BY <1>1, <1>4, <2>1
  <2>3. CASE Cardinality(Retained(w)) < MaxEvents
    <3>1. events' = events \cup {e}
      BY <1>4, <2>2, <2>3 DEF Add
    <3> QED
      BY <1>4, <3>1 DEF Retained
  <2>4. CASE ~(Cardinality(Retained(w)) < MaxEvents)
    <3>1. Cardinality(Retained(w)) <= MaxEvents /\ Cardinality(Retained(w)) \in Nat
      BY RetainedFinite DEF TypeOK
    <3> QED
      BY <1>1, <1>3, <2>4, <3>1
  <2> QED
    BY <2>3, <2>4
<1>5. ASSUME NEW f \in inTime', WindowOf[f] = w
      PROVE  f \in Retained(w)' \/ Cardinality(Retained(w)') = MaxEvents
  <2>1. CASE f \in inTime
    <3>1. f \in Retained(w) \/ Cardinality(Retained(w)) = MaxEvents
      BY <1>5, <2>1 DEF Covers
    <3> QED
      BY <1>2, <1>3, <3>1
  <2>2. CASE f \notin inTime
    <3>1. f = e
      BY <1>5, <2>2 DEF Add
    <3> QED
      BY <1>4, <1>5, <2>2, <3>1
  <2> QED
    BY <2>1, <2>2
<1> QED
  BY <1>5 DEF Covers

LEMMA CoverageWorker ==
  ASSUME TypeOK, Coverage, NEW k \in Workers, ModelStep(k) \/ PortStep(k)
  PROVE  Coverage'
<1>1. UNCHANGED <<inTime, events>>
  BY WorkersKeep DEF store
<1>2. \A w \in Windows : Covers(w, Retained(w))'
  BY <1>1 DEF Coverage, Covers, Retained
<1>3. \A i \in insights' : Covers(i.window, i.events)'
  <2>1. CASE insights' = insights
    BY <1>1, <2>1 DEF Coverage, Covers
  <2>2. CASE At(k, "save") /\ insights' = insights \cup {InsightOf(worker[k])}
    <3> DEFINE i == InsightOf(worker[k])
    <3>1. i.window = worker[k].window /\ i.events = worker[k].events
      BY DEF InsightOf
    <3>2. Covers(i.window, i.events)
      BY <2>2, <3>1 DEF At, Coverage
    <3> HIDE DEF i
    <3> QED
      BY <1>1, <2>2, <3>2 DEF Coverage, Covers, i
  <2> QED
    BY <2>1, <2>2, InsightsGrow
<1>4. ASSUME NEW l \in Workers, worker'[l] # Idle
      PROVE  Covers(worker'[l].window, worker'[l].events)
  <2>1. CASE Moves(k)
    BY <1>4, <2>1, MovesKeepsHolds DEF Coverage
  <2>2. ASSUME NEW s \in Steps, Taking(k, s)
        PROVE  Covers(worker'[l].window, worker'[l].events)
    <3>1. PICK w \in jobs, j \in Job :
            /\ j.window = w /\ j.events = Retained(w) /\ w \in Windows
            /\ worker' = [worker EXCEPT ![k] = j]
      BY <2>2, TakeIsEntry
    <3>2. /\ worker'[k] = j
          /\ l # k => worker'[l] = worker[l]
      BY <3>1, EntryIsBusy
    <3> QED
      BY <1>4, <3>1, <3>2 DEF Coverage
  <2>3. CASE Complete(k) \/ Release(k) \/ ReleaseFails(k)
    <3>1. worker' = [worker EXCEPT ![k] = Idle]
      BY <2>3 DEF Complete, Release, ReleaseFails
    <3> QED
      BY <1>4, <3>1, WorkerFreed DEF Coverage
  <2> QED
    BY <2>1, <2>2, <2>3, StepKinds
<1> QED
  BY <1>1, <1>2, <1>3, <1>4, CoversSame DEF Coverage

LEMMA CoverageStep ==
  ASSUME Types, Ripe, Coverage, [Next]_vars
  PROVE  Coverage'
<1> USE DEF source, store, claims, guard
<1>t. TypeOK /\ Pool
  BY DEF Types
<1>s. UNCHANGED <<inTime, events, worker, insights>> => Coverage'
  BY DEF Coverage, Covers, Retained
<1>1. CASE UNCHANGED vars \/ Tick \/ CircuitCloses \/ Handle \/ AddDuplicate
  BY <1>1, <1>s DEF vars, Tick, CircuitCloses, Handle, AddDuplicate
<1>2. CASE ProcessDue \/ ProcessDueReturns
  BY <1>2, <1>s DEF ProcessDue, ProcessDueReturns
<1>3. CASE Add
  <2>1. UNCHANGED <<worker, insights>>
    BY <1>3 DEF Add
  <2>2. \A w \in Windows : Covers(w, Retained(w))'
    BY <1>3, <1>t, CoversRetained DEF Coverage
  <2>3. ASSUME NEW i \in insights
        PROVE  Covers(i.window, i.events)'
    <3>1. i.window \in Windows /\ Deadline[i.window] <= clock
      BY <1>t DEF TypeOK, Insight, Ripe
    <3> QED
      BY <1>3, <1>t, <3>1, CoversRipe DEF Coverage
  <2>4. ASSUME NEW k \in Workers, worker[k] # Idle
        PROVE  Covers(worker[k].window, worker[k].events)'
    <3>1. worker[k].window \in Windows /\ Deadline[worker[k].window] <= clock
      BY <1>t, <2>4, RoundTime
    <3>2. Covers(worker[k].window, worker[k].events)
      BY <2>4 DEF Coverage
    <3> DEFINE w == worker[k].window
               S == worker[k].events
    <3>3. UNCHANGED <<w, S>>
      BY <2>1
    <3> QED
      BY <1>3, <1>t, <2>1, <3>1, <3>2, CoversRipe DEF Covers
  <2> QED
    BY <2>1, <2>2, <2>3, <2>4 DEF Coverage
<1>4. ASSUME NEW k \in Workers, ModelStep(k) \/ PortStep(k)
      PROVE  Coverage'
  BY <1>4, <1>t, CoverageWorker
<1> QED
  BY <1>1, <1>2, <1>3, <1>4 DEF Next
-----------------------------------------------------------------------------
LEMMA PublishingElsewhere ==
  ASSUME Publishing, NEW k \in Workers, ~At(k, "complete"), ~At(k, "complete")',
         \A l \in Workers : l # k => worker'[l] = worker[l],
         UNCHANGED <<insights, completed, uncompleted>>
  PROVE  Publishing'
<1>1. \A l \in Workers : /\ At(l, "complete")' <=> At(l, "complete")
                        /\ At(l, "complete") => worker'[l] = worker[l]
  BY DEF At
<1>2. \A l \in Workers : \A w :
        Holds(l, w) /\ At(l, "complete") => Holds(l, w)' /\ At(l, "complete")'
  BY <1>1 DEF Holds, At
<1>3. ASSUME NEW l \in Workers, At(l, "complete")'
      PROVE  \E i \in insights : i.window = worker'[l].window
  <2>1. At(l, "complete") /\ worker'[l] = worker[l]
    BY <1>1, <1>3 DEF At
  <2> QED
    BY <2>1 DEF Publishing
<1>4. \A i \in insights :
        \/ i.window \in completed \cup uncompleted
        \/ \E l \in Workers : Holds(l, i.window)' /\ At(l, "complete")'
  BY <1>2 DEF Publishing
<1> QED
  BY <1>3, <1>4 DEF Publishing

(* What Goto does to the steps. *)
LEMMA GotoAt ==
  ASSUME TypeOK, NEW k \in Workers, NEW s \in Steps, worker[k] # Idle, Goto(k, s)
  PROVE  /\ worker'[k] # Idle /\ worker'[k].step = s
         /\ worker'[k].window = worker[k].window
         /\ \A l \in Workers : l # k => worker'[l] = worker[l]
<1> DEFINE j == [worker[k] EXCEPT !.step = s]
<1>1. /\ j \in Job /\ j.step = s /\ j.window = worker[k].window
      /\ worker' = [worker EXCEPT ![k] = j]
  BY GotoIsEntry
<1> HIDE DEF j
<1> QED
  BY <1>1, EntryIsBusy

LEMMA PublishingSave ==
  ASSUME Types, Publishing, NEW k \in Workers, Save(k)
  PROVE  Publishing'
<1> DEFINE w == worker[k].window
           i == InsightOf(worker[k])
<1>t. TypeOK /\ Pool
  BY DEF Types
<1>1. /\ worker[k] # Idle /\ worker[k].step = "save" /\ w \in Windows
      /\ Holds(k, w)
  BY <1>t DEF Save, At, TypeOK, Job, Holds
<1>2. /\ UNCHANGED <<completed, uncompleted>>
      /\ i.window = w /\ i.version = worker[k].version
      /\ insights' = IF \E h \in insights :
                          h.window = w /\ h.version = worker[k].version
                       THEN insights ELSE insights \cup {i}
  BY DEF Save, claims, InsightOf, Published
<1>3. /\ worker'[k] # Idle /\ worker'[k].step = "complete"
      /\ worker'[k].window = w
      /\ \A l \in Workers : l # k => worker'[l] = worker[l]
  BY <1>t, <1>1, GotoAt DEF Save, Steps
<1>4. w \notin completed
  BY <1>t, <1>1 DEF Pool
<1>5. \A l \in Workers : Holds(l, w) => ~At(l, "complete")
  BY <1>t, <1>1 DEF Pool, At
<1>6. ASSUME NEW h \in insights, h.window = w
      PROVE  w \in uncompleted
  BY <1>4, <1>5, <1>6 DEF Publishing
<1>7. \E h \in insights' : h.window = w
  BY <1>2
<1> HIDE DEF i, w
<1>8. \A g, h \in insights' : g.window = h.window /\ g.version = h.version => g = h
  BY <1>2 DEF Publishing
<1>9. \A g, h \in insights' :
        g.window = h.window /\ g.window \notin uncompleted' => g = h
  BY <1>2, <1>6 DEF Publishing
<1>10. ASSUME NEW h \in insights'
       PROVE  \/ h.window \in completed' \cup uncompleted'
              \/ \E l \in Workers : Holds(l, h.window)' /\ At(l, "complete")'
  <2>1. CASE h.window = w
    BY <1>3, <2>1 DEF Holds, At
  <2>2. CASE h.window # w
    <3>1. h \in insights
      BY <1>2, <2>2
    <3>2. CASE h.window \in completed \cup uncompleted
      BY <1>2, <3>2
    <3>3. ASSUME NEW l \in Workers, Holds(l, h.window), At(l, "complete")
          PROVE  Holds(l, h.window)' /\ At(l, "complete")'
      <4>1. worker'[l] = worker[l]
        BY <1>1, <1>3, <3>3 DEF At
      <4> QED
        BY <3>3, <4>1 DEF Holds, At
    <3> QED
      BY <3>1, <3>2, <3>3 DEF Publishing
  <2> QED
    BY <2>1, <2>2
<1>11. ASSUME NEW l \in Workers, At(l, "complete")'
       PROVE  \E h \in insights' : h.window = worker'[l].window
  <2>1. CASE l = k
    BY <1>3, <1>7, <2>1
  <2>2. CASE l # k
    BY <1>2, <1>3, <1>11, <2>2 DEF Publishing, At
  <2> QED
    BY <2>1, <2>2
<1>12. \A v \in completed' : \E h \in insights' : h.window = v
  BY <1>2 DEF Publishing
<1> QED
  BY <1>8, <1>9, <1>10, <1>11, <1>12 DEF Publishing

LEMMA PublishingEnds ==
  ASSUME Types, Publishing, NEW k \in Workers, Complete(k) \/ CompleteFails(k)
  PROVE  Publishing'
<1> DEFINE w == worker[k].window
<1>t. TypeOK
  BY DEF Types
<1>1. worker[k] # Idle /\ worker[k].step = "complete" /\ insights' = insights
  BY DEF Complete, CompleteFails, At
<1>2. \/ completed' = completed \cup {w} /\ uncompleted' = uncompleted
      \/ completed' = completed /\ uncompleted' = uncompleted \cup {w}
  BY DEF Complete, CompleteFails, claims
<1>3. /\ ~At(k, "complete")'
      /\ \A l \in Workers : l # k => worker'[l] = worker[l]
  <2>1. CASE Complete(k)
    BY <1>t, <2>1, WorkerFreed DEF Complete, At
  <2>2. CASE CompleteFails(k)
    BY <1>t, <1>1, <2>2, GotoAt DEF CompleteFails, At, Steps
  <2> QED
    BY <2>1, <2>2
<1>4. \E h \in insights : h.window = w
  BY <1>1 DEF Publishing, At
<1>5. ASSUME NEW h \in insights
      PROVE  \/ h.window \in completed' \cup uncompleted'
             \/ \E l \in Workers : Holds(l, h.window)' /\ At(l, "complete")'
  <2>1. CASE h.window \in completed \cup uncompleted \cup {w}
    BY <1>2, <2>1
  <2>2. ASSUME NEW l \in Workers, Holds(l, h.window), At(l, "complete"), l # k
        PROVE  Holds(l, h.window)' /\ At(l, "complete")'
    BY <1>3, <2>2 DEF Holds, At
  <2>3. Holds(k, h.window) => h.window = w
    BY DEF Holds
  <2> QED
    BY <2>1, <2>2, <2>3 DEF Publishing
<1>6. ASSUME NEW l \in Workers, At(l, "complete")'
      PROVE  \E h \in insights : h.window = worker'[l].window
  BY <1>3, <1>6 DEF Publishing, At
<1> HIDE DEF w
<1>7. \A v \in completed' : \E h \in insights : h.window = v
  BY <1>2, <1>4 DEF Publishing
<1>8. \A g, h \in insights :
        g.window = h.window /\ g.window \notin uncompleted' => g = h
  BY <1>2 DEF Publishing
<1> QED
  BY <1>1, <1>5, <1>6, <1>7, <1>8 DEF Publishing

LEMMA PublishingStep ==
  ASSUME Types, Publishing, [Next]_vars
  PROVE  Publishing'
<1> USE DEF source, store, claims, guard
<1>t. TypeOK
  BY DEF Types
<1>s. UNCHANGED <<insights, completed, uncompleted, worker>> => Publishing'
  BY DEF Publishing, Holds, At
<1>1. CASE UNCHANGED vars \/ Tick \/ CircuitCloses \/ Handle \/ AddDuplicate
  BY <1>1, <1>s DEF vars, Tick, CircuitCloses, Handle, AddDuplicate
<1>2. CASE Add \/ ProcessDue \/ ProcessDueReturns
  BY <1>2, <1>s DEF Add, ProcessDue, ProcessDueReturns
<1>g. ASSUME NEW k \in Workers, NEW s \in Steps \ {"complete"},
             worker[k] # Idle, ~At(k, "complete"), Goto(k, s),
             UNCHANGED <<insights, completed, uncompleted>>
      PROVE  Publishing'
  <2>1. ~At(k, "complete")' /\ \A l \in Workers : l # k => worker'[l] = worker[l]
    BY <1>g, <1>t, GotoAt DEF At
  <2> QED
    BY <1>g, <2>1, PublishingElsewhere
<1>3. ASSUME NEW k \in Workers, BeforeCall(k) \/ Acquire(k)
      PROVE  Publishing'
  BY <1>3, <1>g DEF BeforeCall, Acquire, At, Steps
<1>4. ASSUME NEW k \in Workers, ModelAnswers(k)
      PROVE  Publishing'
  BY <1>4, <1>g DEF ModelAnswers, At, Steps
<1>5. ASSUME NEW k \in Workers, ModelFails(k)
      PROVE  Publishing'
  BY <1>5, <1>g DEF ModelFails, At, Steps
<1>6. ASSUME NEW k \in Workers, FallbackFails(k) \/ SaveFails(k)
      PROVE  Publishing'
  BY <1>6, <1>g DEF FallbackFails, SaveFails, At, Steps
<1>7. ASSUME NEW k \in Workers, Fallback(k)
      PROVE  Publishing'
  <2>1. /\ ~At(k, "complete") /\ UNCHANGED <<insights, completed, uncompleted>>
        /\ worker'[k].step = "save"
        /\ \A l \in Workers : l # k => worker'[l] = worker[l]
    BY <1>7, <1>t DEF Fallback, At, TypeOK, Job
  <2> QED
    BY <2>1, PublishingElsewhere DEF At
<1>8. ASSUME NEW k \in Workers, Load(k) \/ LoadFails(k)
      PROVE  Publishing'
  <2>1. PICK s \in {"ask", "release"} : Taking(k, s)
    BY <1>8 DEF Load, LoadFails, Taking
  <2>s. s \in Steps
    BY DEF Steps
  <2>2. PICK w \in jobs :
          LET j == [window |-> w, step |-> s, events |-> Retained(w),
                    version |-> "insight.v1"]
          IN  j \in Job /\ worker' = [worker EXCEPT ![k] = j]
    BY <2>1, <2>s, <1>t, TakeIsEntry
  <2> DEFINE j == [window |-> w, step |-> s, events |-> Retained(w),
                   version |-> "insight.v1"]
  <2>j. j.step # "complete"
    OBVIOUS
  <2>e. j \in Job /\ worker' = [worker EXCEPT ![k] = j]
    BY <2>2
  <2> HIDE DEF j
  <2>3. /\ worker'[k].step # "complete"
        /\ \A l \in Workers : l # k => worker'[l] = worker[l]
    BY <2>j, <2>e, <1>t, EntryIsBusy
  <2>4. ~At(k, "complete") /\ UNCHANGED <<insights, completed, uncompleted>>
    BY <2>1 DEF Taking, TakeJob, At
  <2> QED
    BY <2>3, <2>4, PublishingElsewhere DEF At
<1>9. ASSUME NEW k \in Workers, Release(k) \/ ReleaseFails(k)
      PROVE  Publishing'
  <2>1. /\ ~At(k, "complete") /\ UNCHANGED <<insights, completed, uncompleted>>
        /\ worker' = [worker EXCEPT ![k] = Idle]
    BY <1>9 DEF Release, ReleaseFails, At
  <2>2. /\ ~At(k, "complete")'
        /\ \A l \in Workers : l # k => worker'[l] = worker[l]
    BY <2>1, <1>t, WorkerFreed DEF At
  <2> QED
    BY <2>1, <2>2, PublishingElsewhere
<1>10. ASSUME NEW k \in Workers, Save(k) \/ Complete(k) \/ CompleteFails(k)
       PROVE  Publishing'
  BY <1>10, PublishingSave, PublishingEnds
<1> QED
  BY <1>1, <1>2, <1>3, <1>4, <1>5, <1>6, <1>7, <1>8, <1>9, <1>10
  DEF Next, ModelStep, PortStep
-----------------------------------------------------------------------------
LEMMA InitIInv == Init => IInv
<1> SUFFICES ASSUME Init PROVE IInv
  OBVIOUS
<1>c. /\ Deadline \in [Windows -> Nat] /\ MaxTime \in Nat /\ MaxFaults \in Nat
      /\ MaxEvents \in Nat /\ MaxInFlight \in Nat
      /\ FailureThreshold \in Nat \ {0} /\ Source \in Seq(Events)
  BY Assumptions
<1>1. \A w \in Windows : Retained(w) = {}
  BY DEF Init, Retained
<1>2. \A w \in Windows : Cardinality(Retained(w)) <= MaxEvents
  <2>1. ASSUME NEW w \in Windows PROVE Cardinality(Retained(w)) = 0
    BY <1>1, FS_EmptySet, Zenon
  <2> QED
    BY <1>c, <2>1
<1>3. \A k \in Workers : worker[k] = Idle
  BY DEF Init
<1>4. TypeOK
  <2>1. position \in 0..Len(Source)
    BY <1>c DEF Init
  <2>2. /\ clock \in 0..MaxTime /\ faults \in 0..MaxFaults /\ sem \in 0..MaxInFlight
        /\ consecutiveFail \in 0..(FailureThreshold - 1)
    BY <1>c DEF Init
  <2>3. worker \in [Workers -> Job \cup {Idle}] /\ claimed \in [Windows -> BOOLEAN]
    BY DEF Init
  <2> QED
    BY <1>2, <1>c, <2>1, <2>2, <2>3 DEF Init, TypeOK
<1>5. Pool
  BY <1>3 DEF Init, Pool, Holds
<1>6. SemExact
  <2>1. Calling = {}
    BY <1>3 DEF Calling, At
  <2> QED
    BY <2>1, FS_EmptySet DEF Init, SemExact
<1>7. Ripe
  BY <1>3, <1>c DEF Init, Ripe
<1>8. Coverage
  BY <1>3 DEF Init, Coverage, Covers
<1>9. Publishing
  BY <1>3 DEF Init, Publishing, At
<1> QED
  BY <1>4, <1>5, <1>6, <1>7, <1>8, <1>9 DEF IInv, Types

LEMMA IInvInductive == IInv /\ [Next]_vars => IInv'
BY TypesInductive, RipeStep, CoverageStep, PublishingStep DEF IInv

(***************************************************************************)
(* The invariant of the pipeline: windows are shared out between channel   *)
(* and workers, places in the semaphore are those of the calls, nothing is *)
(* held before its deadline, and what is held, retained or published has   *)
(* the messages that came in time.                                         *)
(***************************************************************************)
THEOREM Invariance == Spec => []IInv
BY InitIInv, IInvInductive, PTL DEF Spec

(* Every variable of the pipeline keeps its type: in particular no window  *)
(* retains more than MaxEvents messages and the semaphore of the guard     *)
(* (guarded_model.go) is given back exactly as often as it is taken.       *)
THEOREM TypeCorrect == Spec => []TypeOK
<1>1. IInv => TypeOK
  BY DEF IInv, Types
<1> QED
  BY <1>1, Invariance, PTL

(* ClaimDue, Complete and Release (store.go) against the workers of        *)
(* ProcessDue: a claimed window is in exactly one pair of hands, or its    *)
(* Release has failed.                                                     *)
THEOREM OneHolder == Spec => []ClaimsAreHeld
<1>1. ASSUME IInv, NEW w \in Windows
      PROVE  Held(w) = IF claimed[w] /\ w \notin stuck THEN 1 ELSE 0
  <2> DEFINE H == {k \in Workers : worker[k] # Idle /\ worker[k].window = w}
  <2>p. Pool
    BY <1>1 DEF IInv, Types
  <2>1. H = {k \in Workers : Holds(k, w)}
    BY DEF Holds
  <2>2. /\ H = {} => Cardinality(H) = 0
        /\ \A k : H = {k} => Cardinality(H) = 1
    BY FS_EmptySet, FS_Singleton, Zenon
  <2>h. Held(w) = Cardinality(H) + (IF w \in jobs THEN 1 ELSE 0)
    BY DEF Held
  <2> HIDE DEF H
  <2>3. CASE w \in jobs
    <3>1. H = {}
      BY <2>p, <2>1, <2>3 DEF Pool
    <3>2. claimed[w] /\ w \notin stuck
      BY <2>p, <2>3 DEF Pool
    <3>3. Cardinality(H) = 0
      BY <2>2, <3>1, Zenon
    <3> QED
      BY <2>3, <2>h, <3>2, <3>3
  <2>4. ASSUME w \notin jobs, NEW k \in Workers, Holds(k, w)
        PROVE  Held(w) = IF claimed[w] /\ w \notin stuck THEN 1 ELSE 0
    <3>1. H = {k}
      BY <2>p, <2>1, <2>4 DEF Pool
    <3>2. claimed[w] /\ w \notin stuck
      BY <2>p, <2>4 DEF Pool
    <3>3. Cardinality(H) = 1
      BY <2>2, <3>1, Zenon
    <3> QED
      BY <2>4, <2>h, <3>2, <3>3
  <2>5. CASE w \notin jobs /\ \A k \in Workers : ~Holds(k, w)
    <3>1. H = {} /\ ~(claimed[w] /\ w \notin stuck)
      BY <2>p, <2>1, <2>5 DEF Pool
    <3>2. Cardinality(H) = 0
      BY <2>2, <3>1, Zenon
    <3> QED
      BY <2>5, <2>h, <3>1, <3>2
  <2> QED
    BY <2>3, <2>4, <2>5
<1>2. IInv => ClaimsAreHeld
  BY <1>1 DEF ClaimsAreHeld
<1> QED
  BY <1>2, Invariance, PTL

(* Lateness (store.go) against ClaimDue and Load: a message that was in    *)
(* the store before its window's deadline is in every insight of that      *)
(* window, unless the window was full.                                     *)
THEOREM InsightsAreComplete == Spec => []InsightsMissNothing
<1>1. IInv => InsightsMissNothing
  BY DEF IInv, Coverage, Covers, InsightsMissNothing
<1> QED
  BY <1>1, Invariance, PTL

(* Save before Complete (processor.go), and the key of Save                *)
(* (repository.go): a completed window has an insight, and a second one    *)
(* only if Complete failed after a Save.                                   *)
THEOREM PublishedExactlyOnce == Spec => []PublishedOnce
<1>1. ASSUME IInv, NEW w \in Windows
      PROVE  /\ w \in completed => Published(w) # {}
             /\ Cardinality(Published(w)) > 1 => w \in uncompleted
             /\ Cardinality(Published(w)) <= Cardinality(Versions)
  <2>t. TypeOK /\ Publishing
    BY <1>1 DEF IInv, Types
  <2>1. w \in completed => Published(w) # {}
    BY <2>t DEF Publishing, Published
  <2>2. ASSUME w \notin uncompleted
        PROVE  Cardinality(Published(w)) <= 1
    <3>1. \A i, j \in Published(w) : i = j
      BY <2>t, <2>2 DEF Publishing, Published
    <3>2. CASE Published(w) = {}
      <4>1. Cardinality(Published(w)) = 0
        BY <3>2, FS_EmptySet, Zenon
      <4> QED
        BY <4>1
    <3>3. ASSUME NEW i \in Published(w)
          PROVE  Cardinality(Published(w)) <= 1
      <4>1. Published(w) = {i}
        BY <3>1, <3>3
      <4>2. Cardinality(Published(w)) = 1
        BY <4>1, FS_Singleton, Zenon
      <4> QED
        BY <4>2
    <3> QED
      BY <3>2, <3>3
  <2>3. Cardinality(Published(w)) <= Cardinality(Versions)
        /\ Cardinality(Published(w)) \in Nat
    <3> DEFINE f == [i \in Published(w) |-> i.version]
    <3>1. \A i \in Published(w) : i.version \in Versions
      BY <2>t DEF TypeOK, Insight, Published
    <3>2. f \in Injection(Published(w), Versions)
      <4>1. f \in [Published(w) -> Versions]
        BY <3>1
      <4>2. \A i, j \in Published(w) : f[i] = f[j] => i = j
        BY <2>t DEF Publishing, Published
      <4> HIDE DEF f
      <4>3. DOMAIN f = Published(w)
        BY <4>1
      <4> QED
        BY <4>1, <4>2, <4>3 DEF Injection, IsInjective
    <3>3. IsFiniteSet(Versions)
      <4>1. IsFiniteSet({"insight.v1"})
        BY FS_Singleton
      <4>2. IsFiniteSet({"insight.v1"} \cup {"rule.v1"})
        BY <4>1, FS_AddElement
      <4>3. Versions = {"insight.v1"} \cup {"rule.v1"}
        BY DEF Versions
      <4> QED
        BY <4>2, <4>3
    <3> HIDE DEF f
    <3> QED
      BY <3>2, <3>3, FS_Injection, FS_CardinalityType
  <2> QED
    BY <2>1, <2>2, <2>3
<1>2. IInv => PublishedOnce
  BY <1>1 DEF PublishedOnce
<1> QED
  BY <1>2, Invariance, PTL
=============================================================================
