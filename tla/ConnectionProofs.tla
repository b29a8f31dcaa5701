-------------------------- MODULE ConnectionProofs --------------------------
(***************************************************************************)
(* The two ends of a connection: what its reader lets in (RateLimiter) and *)
(* what its writer gets out (SlowClient, the second half).                 *)
(*                                                                         *)
(* RateLimiter for any number of goroutines, keys and shards and any burst *)
(* and rate.  What a bucket of the code would hold now, Level, lies        *)
(* between the two perfect buckets; a bucket may be swept because its      *)
(* perfect ones have filled up in the meantime.                            *)
(***************************************************************************)
EXTENDS RateLimiter, SlowClient, TLAPS

(* The tokens of a bucket were valid at lastRefill and grow since. *)
Level(k) == tokens[k] + (clock - lastRefill[k])

(* What holds of the bucket of a key, if it has one. *)
Held(k) ==
  /\ lastRefill[k] <= clock
  /\ lastRefill[k] <= lastSeen[k] + MaxDelay
  /\ ceiling[k] >= AtMost(Capacity(k), Level(k))
  /\ floor[k] <= Level(k)

Bounds(k) ==
  /\ ceiling[k] >= 0
  /\ ceiling[k] <= Capacity(k)
  /\ floor[k] <= Burst[k]
  /\ k \in held => Held(k)
  /\ k \notin held => ceiling[k] = Capacity(k)

LimitInv ==
  /\ LimitTypeOK
  /\ \A k \in Keys : Bounds(k)
  /\ NeverTooFew
-----------------------------------------------------------------------------
LEMMA Constants ==
  /\ MaxDelay \in Nat
  /\ IdleTTL \in Nat
  /\ \A k \in Keys : /\ Burst[k] \in Nat /\ Burst[k] > 0
                     /\ Cost[k] \in Nat /\ Cost[k] > 0
                     /\ Capacity(k) = Burst[k] + MaxDelay
                     /\ IdleTTL >= Burst[k] + 2 * MaxDelay
BY LimitAssumptions DEF Capacity

LEMMA KeyTyped ==
  ASSUME LimitTypeOK, NEW g \in Goroutines
  PROVE  KeyOf(g) \in Keys
BY LimitAssumptions DEF KeyOf, LimitTypeOK

LEMMA LimitInitially == LimitInit => LimitInv
<1> SUFFICES ASSUME LimitInit PROVE LimitInv
  OBVIOUS
<1>1. LimitTypeOK
  BY Constants DEF LimitInit, LimitTypeOK
<1>2. ASSUME NEW k \in Keys PROVE Bounds(k)
  <2>1. ceiling[k] = Capacity(k) /\ floor[k] = Burst[k] /\ k \notin held
    BY DEF LimitInit
  <2>2. Capacity(k) \in Nat /\ Burst[k] \in Nat
    BY Constants
  <2> QED
    BY <2>1, <2>2 DEF Bounds
<1> QED
  BY <1>1, <1>2 DEF LimitInv, LimitInit, NeverTooFew
-----------------------------------------------------------------------------
(* The bucket a caller finds once it has the lock.  Taken together: it has *)
(* at most a burst, was refilled within MaxDelay, and its level lies where *)
(* the old one did.                                                        *)
LEMMA Sweep ==
  ASSUME LimitInv, NEW k \in Keys, NEW now \in Nat, now <= clock,
         NEW j \in Keys, j \in held, j \notin Kept(k, now)
  PROVE  ceiling[j] = Capacity(j)
<1>1. /\ tokens[j] \in Nat /\ lastRefill[j] \in Nat /\ lastSeen[j] \in Nat
      /\ clock \in Nat /\ ceiling[j] \in Int
  BY DEF LimitInv, LimitTypeOK
<1>2. now >= lastSeen[j] + IdleTTL
  <2>1. ~(now < lastSeen[j] + IdleTTL)
    BY DEF Kept
  <2> QED
    BY <1>1, <2>1, Constants
<1>3. Level(j) >= Capacity(j)
  BY <1>1, <1>2, Constants DEF Level, LimitInv, Bounds, Held
<1> QED
  BY <1>1, <1>3, Constants DEF LimitInv, Bounds, Held, AtMost, Level

LEMMA Taken ==
  ASSUME LimitInv, NEW k \in Keys, NEW now \in Nat,
         now <= clock, clock <= now + MaxDelay
  PROVE  /\ Refilled(k, now) \in Nat
         /\ Refilled(k, now) <= Burst[k]
         /\ RefilledAt(k, now) \in Nat
         /\ now <= RefilledAt(k, now)
         /\ RefilledAt(k, now) <= clock
         /\ ceiling[k] >= Refilled(k, now) + (clock - RefilledAt(k, now))
         /\ floor[k] <= Refilled(k, now) + (clock - RefilledAt(k, now))
<1> DEFINE old == tokens[k]
           at == lastRefill[k]
<1>1. /\ old \in Nat /\ old <= Burst[k] /\ at \in Nat /\ clock \in Nat
      /\ ceiling[k] \in Int /\ floor[k] \in Int /\ lastSeen[k] \in Nat
      /\ floor[k] <= Burst[k]
  BY DEF LimitInv, LimitTypeOK, Bounds
<1>2. Kept(k, now) \subseteq held
  BY DEF Kept
<1>3. CASE k \notin Kept(k, now)
  <2>1. ceiling[k] = Capacity(k)
    BY <1>3, Sweep DEF LimitInv, Bounds
  <2>2. Refilled(k, now) = Burst[k] /\ RefilledAt(k, now) = now
    BY <1>3 DEF Refilled, RefilledAt
  <2> QED
    BY <1>1, <2>1, <2>2, Constants
<1>4. CASE k \in Kept(k, now)
  <2>1. /\ at <= clock
        /\ ceiling[k] >= AtMost(Capacity(k), old + (clock - at))
        /\ floor[k] <= old + (clock - at)
    BY <1>2, <1>4 DEF LimitInv, Bounds, Held, Level
  <2>2. CASE now <= at
    <3>1. Refilled(k, now) = old /\ RefilledAt(k, now) = at
      BY <1>4, <2>2 DEF Refilled, RefilledAt
    <3> QED
      BY <1>1, <2>1, <2>2, <3>1, Constants DEF AtMost
  <2>3. CASE ~(now <= at)
    <3>1. /\ Refilled(k, now) = AtMost(Burst[k], old + (now - at))
          /\ RefilledAt(k, now) = now
      BY <1>4, <2>3 DEF Refilled, RefilledAt
    <3> QED
      BY <1>1, <2>1, <2>3, <3>1, Constants DEF AtMost
  <2> QED
    BY <2>2, <2>3
<1> QED
  BY <1>3, <1>4

(* A caller that takes spent from a bucket and from its perfect ones keeps *)
(* the three in order, and disturbs the other buckets only by the sweep.   *)
LEMMA TakeKeeps ==
  ASSUME LimitInv, NEW g \in Goroutines, NEW k \in Keys, NEW now \in Nat,
         now <= clock, clock <= now + MaxDelay,
         NEW spent \in Nat, spent <= Refilled(k, now),
         Take(g, k, now, spent),
         \A j \in Keys :
           /\ ceiling'[j] = IF j = k THEN ceiling[j] - spent ELSE ceiling[j]
           /\ floor'[j] = IF j = k THEN floor[j] - spent ELSE floor[j]
  PROVE  \A j \in Keys : Bounds(j)'
<1> SUFFICES ASSUME NEW j \in Keys PROVE Bounds(j)'
  OBVIOUS
<1> USE DEF Take
<1>1. /\ ceiling[j] \in Int /\ floor[j] \in Int /\ tokens[j] \in Nat
      /\ lastRefill[j] \in Nat /\ lastSeen[j] \in Nat /\ clock \in Nat
      /\ clock' = clock
  BY DEF LimitInv, LimitTypeOK
<1>2. Bounds(j)
  BY DEF LimitInv
<1>3. CASE j = k
  <2>1. /\ tokens'[j] = Refilled(k, now) - spent
        /\ lastRefill'[j] = RefilledAt(k, now)
        /\ lastSeen'[j] = now
        /\ ceiling'[j] = ceiling[j] - spent
        /\ floor'[j] = floor[j] - spent
        /\ j \in held'
    BY <1>3 DEF LimitInv, LimitTypeOK
  <2>2. /\ Refilled(j, now) \in Nat
        /\ RefilledAt(j, now) \in Nat
        /\ RefilledAt(j, now) <= clock
        /\ ceiling[j] >= Refilled(j, now) + (clock - RefilledAt(j, now))
        /\ floor[j] <= Refilled(j, now) + (clock - RefilledAt(j, now))
    BY <1>3, Taken
  <2>3. Held(j)'
    <3>1. /\ lastRefill'[j] <= clock'
          /\ lastRefill'[j] <= lastSeen'[j] + MaxDelay
      BY <1>1, <1>3, <2>1, <2>2, Constants
    <3>2. Level(j)' = Refilled(j, now) - spent + (clock - RefilledAt(j, now))
      BY <1>1, <1>3, <2>1 DEF Level
    <3>3. ceiling'[j] >= Level(j)' /\ floor'[j] <= Level(j)'
      BY <1>1, <2>1, <2>2, <3>2
    <3>4. ceiling'[j] >= AtMost(Capacity(j), Level(j)')
      BY <1>1, <2>1, <2>2, <3>2, <3>3, Constants DEF AtMost
    <3> QED
      BY <3>1, <3>3, <3>4 DEF Held, Capacity, AtMost
  <2>4. /\ ceiling'[j] >= 0
        /\ ceiling'[j] <= Capacity(j)
        /\ floor'[j] <= Burst[j]
    BY <1>1, <1>2, <1>3, <2>1, <2>2, Constants DEF Bounds
  <2> QED
    BY <2>1, <2>3, <2>4 DEF Bounds, Capacity
<1>4. CASE j # k
  <2>1. /\ tokens'[j] = tokens[j] /\ lastRefill'[j] = lastRefill[j]
        /\ lastSeen'[j] = lastSeen[j]
        /\ ceiling'[j] = ceiling[j] /\ floor'[j] = floor[j]
    BY <1>4 DEF LimitInv, LimitTypeOK
  <2>2. j \in held' <=> j \in Kept(k, now)
    BY <1>4
  <2>3. Kept(k, now) \subseteq held
    BY DEF Kept
  <2>4. CASE j \in held'
    <3>1. Held(j)
      BY <1>2, <2>2, <2>3, <2>4 DEF Bounds
    <3>2. Held(j)'
      BY <1>1, <2>1, <3>1 DEF Held, Level, Capacity, AtMost
    <3> QED
      BY <1>2, <2>1, <2>4, <3>2 DEF Bounds, Capacity
  <2>5. CASE j \notin held'
    <3>1. ceiling[j] = Capacity(j)
      BY <1>2, <2>2, <2>5, Sweep DEF Bounds
    <3> QED
      BY <1>2, <2>1, <2>5, <3>1 DEF Bounds, Capacity
  <2> QED
    BY <2>4, <2>5
<1> QED
  BY <1>3, <1>4
-----------------------------------------------------------------------------
LEMMA TakeTyped ==
  ASSUME LimitInv, NEW g \in Goroutines, NEW k \in Keys, NEW now \in Nat,
         now <= clock, clock <= now + MaxDelay,
         NEW spent \in Nat, spent <= Refilled(k, now),
         Take(g, k, now, spent),
         ceiling' \in [Keys -> Int], floor' \in [Keys -> Int],
         asking' \in [Goroutines -> {"user", "room"}],
         unearned' \subseteq Keys
  PROVE  LimitTypeOK'
<1> USE DEF Take
<1>1. /\ Refilled(k, now) \in Nat /\ Refilled(k, now) <= Burst[k]
      /\ RefilledAt(k, now) \in Nat
  BY Taken
<1>2. Refilled(k, now) - spent \in Nat /\ Refilled(k, now) - spent <= Burst[k]
  BY <1>1, Constants
<1>3. /\ tokens' \in [Keys -> Nat] /\ \A j \in Keys : tokens'[j] <= Burst[j]
  BY <1>2 DEF LimitInv, LimitTypeOK
<1>4. lastRefill' \in [Keys -> Nat] /\ lastSeen' \in [Keys -> Nat]
  BY <1>1 DEF LimitInv, LimitTypeOK
<1>5. lastCleanup' \in [Shards -> Nat]
  BY DEF LimitInv, LimitTypeOK, Swept
<1>6. held' \subseteq Keys
  BY DEF LimitInv, LimitTypeOK, Kept
<1>7. /\ reading' \in [Goroutines -> Nat]
      /\ \A h \in Goroutines : reading'[h] # 0 =>
           reading'[h] <= clock' /\ clock' <= reading'[h] + MaxDelay
      /\ clock' \in Nat \ {0}
  BY DEF LimitInv, LimitTypeOK
<1> QED
  BY <1>3, <1>4, <1>5, <1>6, <1>7 DEF LimitTypeOK

LEMMA NextKeepsIInv ==
  ASSUME LimitInv, [LimitNext]_limitVars
  PROVE  LimitInv'
<1>1. ASSUME NEW g \in Goroutines, ReadClock(g) PROVE LimitInv'
  <2>1. LimitTypeOK'
    BY <1>1, Constants DEF ReadClock, LimitInv, LimitTypeOK, buckets, perfect
  <2>2. \A k \in Keys : Bounds(k)'
    BY <1>1 DEF ReadClock, LimitInv, Bounds, Held, Level, Capacity, AtMost,
       buckets, perfect
  <2> QED
    BY <1>1, <2>1, <2>2 DEF LimitInv, NeverTooFew, ReadClock
<1>2. ASSUME NEW g \in Goroutines, Grant(g) PROVE LimitInv'
  <2> DEFINE k == KeyOf(g)
             now == reading[g]
  <2>1. k \in Keys
    BY KeyTyped DEF LimitInv
  <2>2. now \in Nat /\ now <= clock /\ clock <= now + MaxDelay
    BY <1>2 DEF Grant, LimitInv, LimitTypeOK
  <2>3. /\ Take(g, k, now, Cost[k]) /\ Cost[k] <= Refilled(k, now)
        /\ ceiling' = [ceiling EXCEPT ![k] = @ - Cost[k]]
        /\ floor' = [floor EXCEPT ![k] = @ - Cost[k]]
        /\ unearned' = unearned
    BY <1>2, <2>1, <2>2, Constants, Taken DEF Grant
  <2>4. Cost[k] \in Nat
    BY <2>1, Constants
  <2>5. asking' \in [Goroutines -> {"user", "room"}]
    BY <1>2 DEF Grant, LimitInv, LimitTypeOK
  <2>6. /\ ceiling' \in [Keys -> Int] /\ floor' \in [Keys -> Int]
        /\ \A j \in Keys :
             /\ ceiling'[j] =
                  IF j = k THEN ceiling[j] - Cost[k] ELSE ceiling[j]
             /\ floor'[j] = IF j = k THEN floor[j] - Cost[k] ELSE floor[j]
    BY <2>1, <2>3, <2>4 DEF LimitInv, LimitTypeOK
  <2>7. unearned' \subseteq Keys
    BY <2>3 DEF LimitInv, LimitTypeOK
  <2> HIDE DEF k, now
  <2>8. LimitTypeOK'
    BY <2>1, <2>2, <2>3, <2>4, <2>5, <2>6, <2>7, TakeTyped
  <2>9. \A j \in Keys : Bounds(j)'
    BY <2>1, <2>2, <2>3, <2>4, <2>6, TakeKeeps
  <2> QED
    BY <2>3, <2>8, <2>9 DEF LimitInv, NeverTooFew
<1>3. ASSUME NEW g \in Goroutines, Refuse(g) PROVE LimitInv'
  <2> DEFINE k == KeyOf(g)
             now == reading[g]
  <2>1. k \in Keys
    BY KeyTyped DEF LimitInv
  <2>2. now \in Nat /\ now <= clock /\ clock <= now + MaxDelay
    BY <1>3 DEF Refuse, LimitInv, LimitTypeOK
  <2>3. /\ Refilled(k, now) \in Nat
        /\ RefilledAt(k, now) \in Nat
        /\ now <= RefilledAt(k, now)
        /\ floor[k] <= Refilled(k, now) + (clock - RefilledAt(k, now))
    BY <2>1, <2>2, Taken
  <2>4. floor[k] < Cost[k] + MaxDelay
    <3>1. Refilled(k, now) < Cost[k]
      BY <1>3 DEF Refuse
    <3>2. /\ floor[k] \in Int /\ clock \in Nat
          /\ Cost[k] \in Nat /\ MaxDelay \in Nat
      BY <2>1, Constants DEF LimitInv, LimitTypeOK
    <3> HIDE DEF k, now
    <3> QED
      BY <2>2, <2>3, <3>1, <3>2
  <2>5. unearned' = unearned
    BY <1>3, <2>4 DEF Refuse
  <2>6. /\ Take(g, k, now, 0) /\ UNCHANGED perfect
        /\ asking' \in [Goroutines -> {"user", "room"}]
    BY <1>3 DEF Refuse, LimitInv, LimitTypeOK
  <2>7. /\ ceiling' \in [Keys -> Int] /\ floor' \in [Keys -> Int]
        /\ \A j \in Keys :
             /\ ceiling'[j] = IF j = k THEN ceiling[j] - 0 ELSE ceiling[j]
             /\ floor'[j] = IF j = k THEN floor[j] - 0 ELSE floor[j]
    BY <2>1, <2>6 DEF perfect, LimitInv, LimitTypeOK
  <2>8. unearned' \subseteq Keys
    BY <2>5 DEF LimitInv, LimitTypeOK
  <2> HIDE DEF k, now
  <2>9. LimitTypeOK'
    BY <2>1, <2>2, <2>3, <2>6, <2>7, <2>8, TakeTyped
  <2>10. \A j \in Keys : Bounds(j)'
    BY <2>1, <2>2, <2>3, <2>6, <2>7, TakeKeeps
  <2> QED
    BY <2>5, <2>9, <2>10 DEF LimitInv, NeverTooFew
<1>4. CASE Tick
  <2>1. LimitTypeOK'
    <3>1. /\ ceiling' \in [Keys -> Int] /\ floor' \in [Keys -> Int]
      BY <1>4, Constants DEF Tick, LimitInv, LimitTypeOK, AtMost
    <3>2. \A g \in Goroutines : reading'[g] # 0 =>
            reading'[g] <= clock' /\ clock' <= reading'[g] + MaxDelay
      BY <1>4, Constants DEF Tick, LimitInv, LimitTypeOK
    <3> QED
      BY <1>4, <3>1, <3>2 DEF Tick, LimitInv, LimitTypeOK, buckets
  <2>2. ASSUME NEW k \in Keys PROVE Bounds(k)'
    <3>1. /\ ceiling[k] \in Int /\ floor[k] \in Int /\ tokens[k] \in Nat
          /\ lastRefill[k] \in Nat /\ lastSeen[k] \in Nat /\ clock \in Nat
      BY DEF LimitInv, LimitTypeOK
    <3>2. /\ ceiling'[k] = AtMost(Capacity(k), ceiling[k] + 1)
          /\ floor'[k] = AtMost(Burst[k], floor[k] + 1)
          /\ clock' = clock + 1
          /\ tokens' = tokens /\ lastRefill' = lastRefill
          /\ lastSeen' = lastSeen /\ held' = held
      BY <1>4 DEF Tick, buckets
    <3>3. Bounds(k)
      BY DEF LimitInv
    <3>4. k \in held => Held(k)'
      BY <3>1, <3>2, <3>3, Constants
      DEF Bounds, Held, Level, AtMost, Capacity
    <3>5. /\ ceiling'[k] >= 0
          /\ ceiling'[k] <= Capacity(k)
          /\ floor'[k] <= Burst[k]
          /\ k \notin held => ceiling'[k] = Capacity(k)
      BY <3>1, <3>2, <3>3, Constants DEF Bounds, AtMost
    <3> QED
      BY <3>2, <3>4, <3>5 DEF Bounds, Capacity
  <2> QED
    BY <1>4, <2>1, <2>2 DEF LimitInv, NeverTooFew, Tick
<1>5. CASE UNCHANGED limitVars
  <2>1. LimitTypeOK'
    BY <1>5 DEF limitVars, buckets, perfect, LimitInv, LimitTypeOK
  <2>2. \A k \in Keys : Bounds(k)'
    BY <1>5 DEF limitVars, buckets, perfect, LimitInv, Bounds, Held, Level,
      Capacity, AtMost
  <2> QED
    BY <1>5, <2>1, <2>2 DEF limitVars, LimitInv, NeverTooFew
<1> QED
  BY <1>1, <1>2, <1>3, <1>4, <1>5 DEF LimitNext

THEOREM LimitInvariance == LimitSpec => []LimitInv
<1>1. LimitInit => LimitInv
  BY LimitInitially
<1>2. LimitInv /\ [LimitNext]_limitVars => LimitInv'
  BY NextKeepsIInv
<1> QED
  BY <1>1, <1>2, PTL DEF LimitSpec

(* The buckets keep their types, and their tokens stay below the burst.    *)
THEOREM LimitTypeCorrect == LimitSpec => []LimitTypeOK
<1>1. LimitInv => LimitTypeOK
  BY DEF LimitInv
<1> QED
  BY LimitInvariance, <1>1, PTL

(* However many goroutines ask, in whatever order their readings of the    *)
(* clock arrive and whenever buckets are swept: no key is granted more     *)
(* than a perfect bucket with MaxDelay more would grant, and none is       *)
(* refused what a perfect bucket would hold MaxDelay longer.               *)
THEOREM LimitsAreExact == LimitSpec => []WithinPerfectBuckets
<1>1. LimitInv => WithinPerfectBuckets
  BY DEF LimitInv, Bounds, WithinPerfectBuckets, NeverTooMany
<1> QED
  BY LimitInvariance, <1>1, PTL
-----------------------------------------------------------------------------
(***************************************************************************)
(* SlowClient for any number of workers, buffer, threshold and width of    *)
(* the counter.  The two safety properties are inductive once the type     *)
(* invariant is known, each for the same reason: a goroutine that is on    *)
(* its way into once.Do stays there until done is closed, and done is      *)
(* never opened again.                                                     *)
(***************************************************************************)
IInv ==
  /\ TypeOK
  /\ ThresholdIsNotMissed
  /\ PumpsEndTogether
-----------------------------------------------------------------------------
(* Adding one to a counter that wraps at Modulus. *)
LEMMA WrappedAddition ==
  ASSUME NEW n \in 0..(Modulus - 1)
  PROVE  /\ (n + 1) % Modulus \in 0..(Modulus - 1)
         /\ (n + 1) % Modulus \in {0, n + 1}
BY Assumptions, SMT

(* Who is who. *)
LEMMA Roles ==
  /\ Writer \in Actors /\ Reader \in Actors /\ Manager \in Actors
  /\ Writer # Reader /\ Writer # Manager /\ Reader # Manager
  /\ \A w \in Workers :
       w \in Actors /\ w # Writer /\ w # Reader /\ w # Manager
BY Assumptions DEF Actors, Pumps

LEMMA InitIInv == Init => IInv
<1> SUFFICES ASSUME Init PROVE IInv
  OBVIOUS
<1>1. /\ \A w \in Workers : pc[w] = "idle"
      /\ pc[Writer] = "select"
      /\ pc[Reader] = "reading"
      /\ pc[Manager] = "idle"
      /\ \A a \in Actors : pc[a] \in {"idle", "select", "reading"}
  BY Roles DEF Init
<1>2. pc \in [Actors -> WorkerPlaces \cup WriterPlaces \cup ReaderPlaces
                         \cup ManagerPlaces]
  BY <1>1 DEF Init, WorkerPlaces, WriterPlaces, ReaderPlaces
<1>3. TypeOK
  <2>1. /\ send \in 0..SendBufferSize
        /\ slowDrops \in 0..(Modulus - 1)
        /\ jobs \in 0..MaxJobs
    BY Assumptions DEF Init, Threshold
  <2>2. /\ once \in {"open", "done", "closed"}
        /\ broken \in BOOLEAN
        /\ member \in BOOLEAN
    BY DEF Init
  <2> QED
    BY <1>1, <1>2, <2>1, <2>2 DEF TypeOK, WorkerPlaces, WriterPlaces,
       ReaderPlaces, ManagerPlaces
<1>4. ThresholdIsNotMissed
  BY Assumptions DEF Init, ThresholdIsNotMissed, Threshold
<1>5. PumpsEndTogether
  BY <1>1 DEF Init, PumpsEndTogether
<1> QED
  BY <1>3, <1>4, <1>5 DEF IInv

(* Every step is one of an actor, or leaves every pc alone. *)
LEMMA StepCases ==
  ASSUME Next
  PROVE  \/ Broadcast \/ Control \/ Break
         \/ \E w \in Workers : Accept(w) \/ Reset(w) \/ Drop(w) \/ Count(w)
         \/ \E a \in Actors : Close(a)
         \/ TakeMessage \/ WriteSucceeds \/ WriteFails \/ SeeDone
         \/ ReadFails
         \/ TakeUnregister \/ HandleUnregister
BY Roles DEF Next, WorkerStep, WriterStep, ReaderStep, ManagerStep
-----------------------------------------------------------------------------
(* Types *)

(* A goroutine goes to a place of its own. *)
LEMMA GoTyped ==
  ASSUME TypeOK, NEW a \in Actors, NEW p,
         pc' = [pc EXCEPT ![a] = p],
         a \in Workers => p \in WorkerPlaces,
         a = Writer => p \in WriterPlaces,
         a = Reader => p \in ReaderPlaces,
         a = Manager => p \in ManagerPlaces
  PROVE  /\ pc' \in [Actors -> WorkerPlaces \cup WriterPlaces
                               \cup ReaderPlaces \cup ManagerPlaces]
         /\ \A w \in Workers : pc'[w] \in WorkerPlaces
         /\ pc'[Writer] \in WriterPlaces
         /\ pc'[Reader] \in ReaderPlaces
         /\ pc'[Manager] \in ManagerPlaces
<1>1. a \in Workers \/ a \in {Writer, Reader, Manager}
  BY DEF Actors, Pumps
<1> QED
  BY <1>1, Roles DEF TypeOK

LEMMA TypeStep ==
  ASSUME TypeOK, [Next]_vars
  PROVE  TypeOK'
<1> USE DEF Go
<1>1. CASE Broadcast
  BY <1>1, Assumptions DEF Broadcast, TypeOK
<1>2. CASE Control
  BY <1>2, Assumptions DEF Control, TypeOK
<1>3. CASE Break
  BY <1>3 DEF Break, TypeOK
<1>4. ASSUME NEW w \in Workers, Accept(w) PROVE TypeOK'
  <2>1. send' \in 0..SendBufferSize /\ jobs' \in 0..MaxJobs
    BY <1>4, Assumptions DEF Accept, TypeOK
  <2> QED
    BY <1>4, <2>1, Roles, GoTyped
    DEF Accept, TypeOK, WorkerPlaces
<1>5. ASSUME NEW w \in Workers, Reset(w) PROVE TypeOK'
  <2>1. slowDrops' \in 0..(Modulus - 1)
    BY <1>5, Assumptions DEF Reset
  <2> QED
    BY <1>5, <2>1, Roles, GoTyped DEF Reset, TypeOK, WorkerPlaces
<1>6. ASSUME NEW w \in Workers, Drop(w) PROVE TypeOK'
  <2>1. jobs' \in 0..MaxJobs
    BY <1>6, Assumptions DEF Drop, TypeOK
  <2> QED
    BY <1>6, <2>1, Roles, GoTyped DEF Drop, TypeOK, WorkerPlaces
<1>7. ASSUME NEW w \in Workers, Count(w) PROVE TypeOK'
  <2>1. slowDrops' \in 0..(Modulus - 1)
    BY <1>7, WrappedAddition DEF Count, TypeOK
  <2>2. PICK p \in {"closing", "idle"} : pc' = [pc EXCEPT ![w] = p]
    BY <1>7 DEF Count
  <2> QED
    BY <1>7, <2>1, <2>2, Roles, GoTyped
    DEF Count, TypeOK, WorkerPlaces, ClosePlaces
<1>8. ASSUME NEW a \in Actors, Close(a) PROVE TypeOK'
  <2>1. PICK p \in {"inside", AfterClose(a)} : pc' = [pc EXCEPT ![a] = p]
    BY <1>8 DEF Close, BeginClose, FinishClose, AlreadyClosed
  <2>2. /\ a \in Workers => p \in WorkerPlaces
        /\ a = Writer => p \in WriterPlaces
        /\ a = Reader => p \in ReaderPlaces
        /\ a = Manager => p \in ManagerPlaces
    BY <2>1, Roles DEF AfterClose, Pumps, WorkerPlaces, WriterPlaces,
       ReaderPlaces, ManagerPlaces, ClosePlaces
  <2>3. once' \in {"open", "done", "closed"}
    BY <1>8 DEF Close, BeginClose, FinishClose, AlreadyClosed, TypeOK
  <2>4. UNCHANGED <<send, slowDrops, broken, member, jobs>>
    BY <1>8 DEF Close, BeginClose, FinishClose, AlreadyClosed
  <2> QED
    BY <2>1, <2>2, <2>3, <2>4, GoTyped DEF TypeOK
<1>9. CASE TakeMessage
  <2>1. send' \in 0..SendBufferSize
    BY <1>9, Assumptions DEF TakeMessage, TypeOK
  <2> QED
    BY <1>9, <2>1, Roles, GoTyped DEF TakeMessage, TypeOK, WriterPlaces
<1>10. CASE WriteSucceeds \/ WriteFails \/ SeeDone
  BY <1>10, Roles, GoTyped
  DEF WriteSucceeds, WriteFails, SeeDone, TypeOK, WriterPlaces, ClosePlaces
<1>11. CASE ReadFails
  BY <1>11, Roles, GoTyped DEF ReadFails, TypeOK, ReaderPlaces
<1>12. CASE TakeUnregister
  BY <1>12, Roles
  DEF TakeUnregister, TypeOK, ReaderPlaces, ManagerPlaces, ClosePlaces
<1>13. CASE HandleUnregister
  BY <1>13, Roles, GoTyped
  DEF HandleUnregister, TypeOK, ManagerPlaces, ClosePlaces
<1>14. CASE UNCHANGED vars
  BY <1>14 DEF vars, TypeOK
<1> QED
  BY <1>1, <1>2, <1>3, <1>4, <1>5, <1>6, <1>7, <1>8, <1>9, <1>10, <1>11,
     <1>12, <1>13, <1>14, StepCases
-----------------------------------------------------------------------------
(* The counter *)

(* A worker that is closing stays so until done is closed. *)
LEMMA ClosingStays ==
  ASSUME TypeOK, [Next]_vars, NEW w \in Workers, pc[w] = "closing"
  PROVE  once' # "open" \/ pc'[w] = "closing"
<1> USE DEF Go
<1>1. ASSUME NEW v \in Workers, Accept(v) \/ Reset(v) \/ Drop(v) \/ Count(v)
      PROVE  pc'[w] = "closing"
  BY <1>1, Roles DEF Accept, Reset, Drop, Count, TypeOK
<1>2. ASSUME NEW a \in Actors, Close(a)
      PROVE  once' # "open" \/ pc'[w] = "closing"
  BY <1>2 DEF Close, BeginClose, FinishClose, AlreadyClosed, TypeOK
<1>3. CASE TakeMessage \/ WriteSucceeds \/ WriteFails \/ SeeDone \/ ReadFails
           \/ TakeUnregister \/ HandleUnregister
  BY <1>3, Roles DEF TakeMessage, WriteSucceeds, WriteFails, SeeDone,
     ReadFails, TakeUnregister, HandleUnregister, TypeOK
<1>4. CASE Broadcast \/ Control \/ Break \/ UNCHANGED vars
  BY <1>4 DEF Broadcast, Control, Break, vars
<1> QED
  BY <1>1, <1>2, <1>3, <1>4, StepCases

LEMMA OnceForAll ==
  ASSUME [Next]_vars, once # "open"
  PROVE  once' # "open"
<1> USE DEF Go
<1>1. ASSUME NEW a \in Actors, Close(a) PROVE once' # "open"
  BY <1>1 DEF Close, BeginClose, FinishClose, AlreadyClosed
<1>2. ASSUME NEW w \in Workers, Accept(w) \/ Reset(w) \/ Drop(w) \/ Count(w)
      PROVE  once' = once
  BY <1>2 DEF Accept, Reset, Drop, Count
<1>3. CASE TakeMessage \/ WriteSucceeds \/ WriteFails \/ SeeDone \/ ReadFails
           \/ TakeUnregister \/ HandleUnregister \/ Broadcast \/ Control
           \/ Break \/ UNCHANGED vars
  BY <1>3 DEF TakeMessage, WriteSucceeds, WriteFails, SeeDone, ReadFails,
     TakeUnregister, HandleUnregister, Broadcast, Control, Break, vars
<1> QED
  BY <1>1, <1>2, <1>3, StepCases

(* Only Reset and Count change the counter. *)
LEMMA CounterChanges ==
  ASSUME [Next]_vars
  PROVE  \/ slowDrops' = slowDrops
         \/ \E w \in Workers : Reset(w) \/ Count(w)
<1> USE DEF Go
<1>1. ASSUME NEW a \in Actors, Close(a) PROVE slowDrops' = slowDrops
  BY <1>1 DEF Close, BeginClose, FinishClose, AlreadyClosed
<1>2. ASSUME NEW w \in Workers, Accept(w) \/ Drop(w)
      PROVE  slowDrops' = slowDrops
  BY <1>2 DEF Accept, Drop
<1>3. CASE TakeMessage \/ WriteSucceeds \/ WriteFails \/ SeeDone \/ ReadFails
           \/ TakeUnregister \/ HandleUnregister \/ Broadcast \/ Control
           \/ Break \/ UNCHANGED vars
  BY <1>3 DEF TakeMessage, WriteSucceeds, WriteFails, SeeDone, ReadFails,
     TakeUnregister, HandleUnregister, Broadcast, Control, Break, vars
<1> QED
  BY <1>1, <1>2, <1>3, StepCases

LEMMA ThresholdStep ==
  ASSUME TypeOK, ThresholdIsNotMissed, [Next]_vars
  PROVE  ThresholdIsNotMissed'
<1> SUFFICES ASSUME slowDrops' >= Threshold
             PROVE  once' # "open" \/ \E w \in Workers : pc'[w] = "closing"
  BY DEF ThresholdIsNotMissed, Threshold
<1>1. CASE slowDrops >= Threshold
  BY <1>1, ClosingStays, OnceForAll DEF ThresholdIsNotMissed
<1>2. CASE ~(slowDrops >= Threshold)
  <2>1. Threshold \in Nat \ {0} /\ slowDrops \in Nat
    BY Assumptions DEF Threshold, TypeOK
  <2>2. PICK w \in Workers : Reset(w) \/ Count(w)
    BY <1>2, CounterChanges
  <2>3. Count(w)
    BY <2>1, <2>2 DEF Reset
  <2>4. slowDrops' = Threshold
    BY <1>2, <2>1, <2>3, WrappedAddition DEF Count, TypeOK
  <2>5. pc'[w] = "closing"
    BY <2>3, <2>4, Roles DEF Count, Go, TypeOK
  <2> QED
    BY <2>5
<1> QED
  BY <1>1, <1>2
-----------------------------------------------------------------------------
(* The pumps and once.Do *)

(* A goroutine that moves outside once.Do leaves who is inside as it was.  *)
LEMMA InsideStays ==
  ASSUME TypeOK, NEW a \in Actors, NEW p,
         pc' = [pc EXCEPT ![a] = p], pc[a] # "inside", p # "inside"
  PROVE  \A b \in Actors : pc'[b] = "inside" <=> pc[b] = "inside"
BY DEF TypeOK

LEMMA PumpsStep ==
  ASSUME TypeOK, PumpsEndTogether, [Next]_vars
  PROVE  PumpsEndTogether'
<1> USE DEF Go
<1>1. ASSUME NEW w \in Workers, Accept(w) \/ Reset(w) \/ Drop(w) \/ Count(w)
      PROVE  PumpsEndTogether'
  <2>1. PICK p \in {"sent", "idle", "dropped", "closing"} :
          pc' = [pc EXCEPT ![w] = p]
    BY <1>1 DEF Accept, Reset, Drop, Count
  <2>2. pc[w] # "inside" /\ UNCHANGED <<once, member>>
    BY <1>1 DEF Accept, Reset, Drop, Count
  <2>3. /\ pc'[Writer] = pc[Writer]
        /\ pc'[Reader] = pc[Reader]
        /\ pc'[Manager] = pc[Manager]
    BY <2>1, Roles DEF TypeOK
  <2> QED
    BY <2>1, <2>2, <2>3, Roles, InsideStays DEF PumpsEndTogether
<1>2. ASSUME NEW a \in Actors, BeginClose(a) PROVE PumpsEndTogether'
  <2>1. \A b \in Actors : pc[b] # "inside"
    BY <1>2 DEF BeginClose, PumpsEndTogether
  <2>2. \A b \in Actors : pc'[b] = IF b = a THEN "inside" ELSE pc[b]
    BY <1>2 DEF BeginClose, TypeOK
  <2>3. once' = "done" /\ member' = member /\ pc[Reader] # "ended"
    BY <1>2 DEF BeginClose, PumpsEndTogether
  <2> QED
    BY <2>1, <2>2, <2>3, Roles DEF PumpsEndTogether
<1>3. ASSUME NEW a \in Actors, FinishClose(a) PROVE PumpsEndTogether'
  <2>1. AfterClose(a) \in {"ended", "idle"}
    BY DEF AfterClose
  <2>2. \A b \in Actors : pc'[b] = IF b = a THEN AfterClose(a) ELSE pc[b]
    BY <1>3 DEF FinishClose, TypeOK
  <2>3. \A b \in Actors : pc'[b] # "inside"
    BY <1>3, <2>1, <2>2 DEF FinishClose, PumpsEndTogether
  <2>4. once' = "closed" /\ member' = member
    BY <1>3 DEF FinishClose
  <2>5. pc'[Manager] = "closing" => pc[Manager] = "closing"
    BY <2>1, <2>2, Roles
  <2> QED
    BY <2>3, <2>4, <2>5 DEF PumpsEndTogether
<1>4. ASSUME NEW a \in Actors, AlreadyClosed(a) PROVE PumpsEndTogether'
  <2>1. AfterClose(a) \in {"ended", "idle"}
    BY DEF AfterClose
  <2>2. \A b \in Actors : pc'[b] = IF b = a THEN AfterClose(a) ELSE pc[b]
    BY <1>4 DEF AlreadyClosed, TypeOK
  <2>3. \A b \in Actors : pc'[b] # "inside"
    BY <1>4, <2>1, <2>2 DEF AlreadyClosed, PumpsEndTogether
  <2>4. once' = "closed" /\ member' = member
    BY <1>4 DEF AlreadyClosed
  <2>5. pc'[Manager] = "closing" => pc[Manager] = "closing"
    BY <2>1, <2>2, Roles
  <2> QED
    BY <2>3, <2>4, <2>5 DEF PumpsEndTogether
<1>5. CASE TakeMessage \/ WriteSucceeds \/ WriteFails \/ SeeDone
  <2>1. PICK p \in {"writing", "select", "closing", "ended"} :
          /\ pc' = [pc EXCEPT ![Writer] = p]
          /\ p = "ended" => once # "open"
    BY <1>5 DEF TakeMessage, WriteSucceeds, WriteFails, SeeDone
  <2>2. pc[Writer] # "inside" /\ UNCHANGED <<once, member>>
    BY <1>5 DEF TakeMessage, WriteSucceeds, WriteFails, SeeDone
  <2>3. pc'[Writer] = p /\ pc'[Reader] = pc[Reader]
        /\ pc'[Manager] = pc[Manager]
    BY <2>1, Roles DEF TypeOK
  <2> QED
    BY <2>1, <2>2, <2>3, Roles, InsideStays DEF PumpsEndTogether
<1>6. CASE ReadFails
  <2>1. pc' = [pc EXCEPT ![Reader] = "unregistering"]
        /\ pc[Reader] = "reading" /\ UNCHANGED <<once, member>>
    BY <1>6 DEF ReadFails
  <2>2. /\ pc'[Reader] = "unregistering" /\ pc'[Writer] = pc[Writer]
        /\ pc'[Manager] = pc[Manager]
    BY <2>1, Roles DEF TypeOK
  <2> QED
    BY <2>1, <2>2, Roles, InsideStays DEF PumpsEndTogether
<1>7. CASE TakeUnregister
  <2>1. \A b \in Actors : pc'[b] = CASE b = Reader -> "closing"
                                     [] b = Manager -> "unregister"
                                     [] OTHER -> pc[b]
    BY <1>7, Roles DEF TakeUnregister, TypeOK
  <2>2. /\ pc[Reader] = "unregistering" /\ pc[Manager] = "idle"
        /\ UNCHANGED <<once, member>>
    BY <1>7 DEF TakeUnregister
  <2>3. \A b \in Actors : pc'[b] = "inside" <=> pc[b] = "inside"
    BY <2>1, <2>2
  <2>4. /\ pc'[Writer] = pc[Writer] /\ pc'[Reader] = "closing"
        /\ pc'[Manager] = "unregister"
    BY <2>1, Roles
  <2> QED
    BY <2>2, <2>3, <2>4 DEF PumpsEndTogether
<1>8. CASE HandleUnregister
  <2>1. /\ pc' = [pc EXCEPT ![Manager] = "closing"]
        /\ pc[Manager] = "unregister" /\ once' = once /\ member' = FALSE
    BY <1>8 DEF HandleUnregister
  <2>2. pc'[Reader] = pc[Reader] /\ pc'[Writer] = pc[Writer]
    BY <2>1, Roles DEF TypeOK
  <2> QED
    BY <2>1, <2>2, Roles, InsideStays DEF PumpsEndTogether
<1>9. CASE Broadcast \/ Control \/ Break \/ UNCHANGED vars
  BY <1>9 DEF Broadcast, Control, Break, vars, PumpsEndTogether
<1> QED
  BY <1>1, <1>2, <1>3, <1>4, <1>5, <1>6, <1>7, <1>8, <1>9, StepCases DEF Close
-----------------------------------------------------------------------------
LEMMA Invariant == Spec => []IInv
<1>1. IInv /\ [Next]_vars => IInv'
  BY TypeStep, ThresholdStep, PumpsStep DEF IInv
<1> QED
  BY InitIInv, <1>1, PTL DEF Spec

(* Every variable keeps its type; in particular the counter stays within   *)
(* its width.                                                              *)
THEOREM TypeCorrect == Spec => []TypeOK
<1>1. IInv => TypeOK
  BY DEF IInv
<1> QED
  BY Invariant, <1>1, PTL

(* safeSend compares with the threshold for equality only.  Whatever the   *)
(* number of workers, the drop that reaches it is never overlooked.        *)
THEOREM SlowClientIsClosed == Spec => []ThresholdIsNotMissed
<1>1. IInv => ThresholdIsNotMissed
  BY DEF IInv
<1> QED
  BY Invariant, <1>1, PTL

(* Close is entered once, and no pump ends and leaves the connection open. *)
THEOREM NoPumpIsLeftBehind == Spec => []PumpsEndTogether
<1>1. IInv => PumpsEndTogether
  BY DEF IInv
<1> QED
  BY Invariant, <1>1, PTL
=============================================================================
