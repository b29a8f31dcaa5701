------------------------- MODULE RoomFanoutProofs -------------------------
(***************************************************************************)
(* RoomFanout for any servers, rooms, clients, messages, queues and        *)
(* workers: what clients see, how often, in which order, and what they     *)
(* miss.                                                                   *)
(***************************************************************************)
EXTENDS RoomFanout, FiniteSetTheorems, SequenceTheorems, TLAPS

(* How many entries of a queue, or of the workers of a server, are in T. *)
Hits(f, T) == Cardinality({i \in DOMAIN f : f[i] \in T})
-----------------------------------------------------------------------------
(* Queues *)

LEMMA InRange ==
  ASSUME NEW S, NEW q \in Seq(S), NEW m
  PROVE  m \in Range(q) <=> \E i \in 1..Len(q) : q[i] = m
BY RangeEquality

(* A queue takes an entry at its end. *)
LEMMA AppendRange ==
  ASSUME NEW S, NEW q \in Seq(S), NEW e \in S
  PROVE  /\ Append(q, e) \in Seq(S)
         /\ Range(Append(q, e)) = Range(q) \cup {e}
<1> DEFINE a == Append(q, e)
<1>1. /\ a \in Seq(S)
      /\ Len(a) = Len(q) + 1
      /\ \A i \in 1..Len(q) : a[i] = q[i]
      /\ a[Len(q) + 1] = e
  BY AppendProperties
<1>2. Len(q) \in Nat
  BY LenProperties
<1> HIDE DEF a
<1>3. Range(a) = {a[i] : i \in 1..Len(a)} /\ Range(q) = {q[i] : i \in 1..Len(q)}
  BY <1>1, RangeEquality
<1>4. Range(a) = Range(q) \cup {e}
  BY <1>1, <1>2, <1>3
<1> QED
  BY <1>1, <1>4 DEF a

(* A queue loses its head. *)
LEMMA TailRange ==
  ASSUME NEW S, NEW q \in Seq(S), q # <<>>
  PROVE  /\ Tail(q) \in Seq(S)
         /\ Head(q) \in S
         /\ Len(Tail(q)) = Len(q) - 1
         /\ Range(q) = Range(Tail(q)) \cup {Head(q)}
<1> DEFINE r == Tail(q)
<1>1. /\ Head(q) \in S
      /\ r \in Seq(S)
      /\ Len(r) = Len(q) - 1
      /\ \A i \in 1..Len(r) : r[i] = q[i + 1]
  BY HeadTailProperties
<1>2. Len(q) \in Nat \ {0} /\ Head(q) = q[1]
  BY EmptySeq
<1> HIDE DEF r
<1>3. Range(r) = {r[i] : i \in 1..Len(r)} /\ Range(q) = {q[i] : i \in 1..Len(q)}
  BY <1>1, RangeEquality
<1>4. ASSUME NEW i \in 1..Len(q)
      PROVE  q[i] = Head(q) \/ \E j \in 1..Len(r) : q[i] = r[j]
  <2>1. CASE i = 1
    BY <1>2, <2>1
  <2>2. CASE i # 1
    <3>1. i - 1 \in 1..Len(r) /\ (i - 1) + 1 = i
      BY <1>1, <1>2, <2>2
    <3>2. r[i - 1] = q[i]
      BY <1>1, <3>1
    <3> QED
      BY <3>1, <3>2
  <2> QED
    BY <2>1, <2>2
<1>5. ASSUME NEW j \in 1..Len(r)
      PROVE  \E i \in 1..Len(q) : r[j] = q[i]
  <2>1. j + 1 \in 1..Len(q)
    BY <1>1, <1>2
  <2> QED
    BY <1>1, <2>1
<1>6. 1 \in 1..Len(q)
  BY <1>2
<1>7. Range(q) = Range(r) \cup {Head(q)}
  BY <1>2, <1>3, <1>4, <1>5, <1>6
<1> QED
  BY <1>1, <1>7 DEF r
-----------------------------------------------------------------------------
(* Counting *)

LEMMA HitsNatural ==
  ASSUME NEW f, IsFiniteSet(DOMAIN f), NEW T
  PROVE  /\ Hits(f, T) \in Nat
         /\ Hits(f, T) > 0 <=> \E i \in DOMAIN f : f[i] \in T
<1> DEFINE P == {i \in DOMAIN f : f[i] \in T}
<1>1. IsFiniteSet(P)
  BY FS_Subset
<1>2. Hits(f, T) = Cardinality(P)
  BY DEF Hits
<1>3. Cardinality(P) \in Nat /\ (Cardinality(P) = 0 <=> P = {})
  BY <1>1, FS_CardinalityType, FS_EmptySet
<1>4. P # {} <=> \E i \in DOMAIN f : f[i] \in T
  OBVIOUS
<1> HIDE DEF P
<1> QED
  BY <1>2, <1>3, <1>4

LEMMA SequenceHits ==
  ASSUME NEW S, NEW q \in Seq(S), NEW T
  PROVE  /\ IsFiniteSet(DOMAIN q)
         /\ Hits(q, T) \in Nat
         /\ Hits(q, T) > 0 <=> \E i \in 1..Len(q) : q[i] \in T
<1>1. DOMAIN q = 1..Len(q) /\ Len(q) \in Nat
  BY LenProperties
<1>2. IsFiniteSet(DOMAIN q)
  BY <1>1, FS_Interval
<1> QED
  BY <1>1, <1>2, HitsNatural

LEMMA WorkerHits ==
  ASSUME NEW n \in Nat, NEW S, NEW f \in [1..n -> S], NEW T
  PROVE  /\ IsFiniteSet(DOMAIN f)
         /\ Hits(f, T) \in Nat
         /\ Hits(f, T) > 0 <=> \E i \in 1..n : f[i] \in T
<1>1. DOMAIN f = 1..n
  OBVIOUS
<1>2. IsFiniteSet(DOMAIN f)
  BY <1>1, FS_Interval
<1> QED
  BY <1>1, <1>2, HitsNatural

LEMMA AppendHits ==
  ASSUME NEW S, NEW q \in Seq(S), NEW e \in S, NEW T
  PROVE  Hits(Append(q, e), T) = Hits(q, T) + (IF e \in T THEN 1 ELSE 0)
<1> DEFINE P == {i \in 1..Len(q) : q[i] \in T}
           Q == {i \in 1..(Len(q) + 1) : Append(q, e)[i] \in T}
<1>1. /\ Append(q, e) \in Seq(S)
      /\ Len(Append(q, e)) = Len(q) + 1
      /\ \A i \in 1..Len(q) : Append(q, e)[i] = q[i]
      /\ Append(q, e)[Len(q) + 1] = e
  BY AppendProperties
<1>2. Len(q) \in Nat /\ DOMAIN q = 1..Len(q)
      /\ DOMAIN Append(q, e) = 1..(Len(q) + 1)
  BY <1>1, LenProperties
<1>3. Hits(q, T) = Cardinality(P) /\ Hits(Append(q, e), T) = Cardinality(Q)
  BY <1>2 DEF Hits
<1>4. Q = IF e \in T THEN P \cup {Len(q) + 1} ELSE P
  BY <1>1, <1>2
<1>5. IsFiniteSet(P) /\ Len(q) + 1 \notin P
  <2>1. IsFiniteSet(1..Len(q))
    BY <1>2, FS_Interval
  <2> QED
    BY <1>2, <2>1, FS_Subset
<1> HIDE DEF P, Q
<1>6. Cardinality(P) \in Nat
      /\ Cardinality(P \cup {Len(q) + 1}) = Cardinality(P) + 1
  BY <1>5, FS_CardinalityType, FS_AddElement
<1> QED
  BY <1>3, <1>4, <1>6

LEMMA TailHits ==
  ASSUME NEW S, NEW q \in Seq(S), q # <<>>, NEW T
  PROVE  Hits(q, T) = Hits(Tail(q), T) + (IF Head(q) \in T THEN 1 ELSE 0)
<1> DEFINE P == {i \in 1..(Len(q) - 1) : Tail(q)[i] \in T}
           Q == {i \in 2..Len(q) : q[i] \in T}
           R == {i \in 1..Len(q) : q[i] \in T}
<1>1. /\ Tail(q) \in Seq(S)
      /\ Len(Tail(q)) = Len(q) - 1
      /\ \A i \in 1..Len(Tail(q)) : Tail(q)[i] = q[i + 1]
  BY HeadTailProperties
<1>2. Len(q) \in Nat \ {0} /\ DOMAIN q = 1..Len(q) /\ Head(q) = q[1]
      /\ DOMAIN Tail(q) = 1..(Len(q) - 1)
  BY <1>1, LenProperties, EmptySeq
<1>3. Hits(Tail(q), T) = Cardinality(P) /\ Hits(q, T) = Cardinality(R)
  BY <1>2 DEF Hits
<1>4. R = IF Head(q) \in T THEN Q \cup {1} ELSE Q
  BY <1>2
<1>5. 1 \notin Q
  OBVIOUS
<1>6. IsFiniteSet(Q) /\ IsFiniteSet(P)
  <2>1. IsFiniteSet(2..Len(q)) /\ IsFiniteSet(1..(Len(q) - 1))
    BY <1>2, FS_Interval
  <2> QED
    BY <2>1, FS_Subset
<1>7. Cardinality(P) = Cardinality(Q)
  <2> DEFINE f == [i \in P |-> i + 1]
  <2>1. \A i \in P : i \in Nat /\ i + 1 \in Q
    BY <1>1, <1>2
  <2>2. \A j \in Q : j - 1 \in P /\ f[j - 1] = j
    BY <1>1, <1>2
  <2>d. DOMAIN f = P
    OBVIOUS
  <2>3. \A i \in P : f[i] = i + 1
    OBVIOUS
  <2>4. f \in [P -> Q]
    BY <2>1
  <2> HIDE DEF f, P, Q
  <2>5. f \in Bijection(P, Q)
    <3>1. \A i, j \in P : f[i] = f[j] => i = j
      BY <2>1, <2>3
    <3>2. f \in Injection(P, Q)
      BY <2>4, <2>d, <3>1 DEF Injection, IsInjective
    <3>3. f \in Surjection(P, Q)
      BY <2>2, <2>4 DEF Surjection
    <3> QED
      BY <3>2, <3>3 DEF Bijection
  <2>6. ExistsBijection(P, Q)
    BY <2>5 DEF ExistsBijection
  <2> QED
    BY <1>6, <2>6, FS_Bijection
<1> HIDE DEF P, Q, R
<1>8. Cardinality(Q) \in Nat /\ Cardinality(Q \cup {1}) = Cardinality(Q) + 1
  BY <1>5, <1>6, FS_CardinalityType, FS_AddElement
<1> QED
  BY <1>3, <1>4, <1>7, <1>8

(* A worker takes one entry for another. *)
LEMMA ExceptHits ==
  ASSUME NEW n \in Nat, NEW f, DOMAIN f = 1..n, NEW T,
         NEW w \in 1..n, NEW e, NEW g, g = [f EXCEPT ![w] = e]
  PROVE  Hits(g, T) + (IF f[w] \in T THEN 1 ELSE 0)
           = Hits(f, T) + (IF e \in T THEN 1 ELSE 0)
<1> DEFINE P == {i \in (1..n) \ {w} : f[i] \in T}
           Q == {i \in 1..n : f[i] \in T}
           R == {i \in 1..n : g[i] \in T}
<1>1. Hits(f, T) = Cardinality(Q) /\ Hits(g, T) = Cardinality(R)
  BY DEF Hits
<1>2. Q = (IF f[w] \in T THEN P \cup {w} ELSE P)
  OBVIOUS
<1>3. R = (IF e \in T THEN P \cup {w} ELSE P)
  OBVIOUS
<1>4. IsFiniteSet(P) /\ w \notin P
  <2>1. IsFiniteSet((1..n) \ {w})
    BY FS_Interval, FS_Subset
  <2> QED
    BY <2>1, FS_Subset
<1> HIDE DEF P, Q, R
<1>5. Cardinality(P) \in Nat /\ Cardinality(P \cup {w}) = Cardinality(P) + 1
  BY <1>4, FS_CardinalityType, FS_AddElement
<1> QED
  BY <1>1, <1>2, <1>3, <1>5
-----------------------------------------------------------------------------
(* Types *)

(* The workers of every server are there. *)
Arrays ==
  /\ DOMAIN publishing = Servers
  /\ DOMAIN broadcasting = Servers

LEMMA Constants ==
  /\ \A c \in Clients : Home[c] \in Servers
  /\ \A m \in Messages : Sender[m] \in Clients /\ Origin(m) \in Servers
  /\ \A s \in Servers :
       RedisWorkerCount[s] \in Nat \ {0} /\ WorkerCount[s] \in Nat \ {0}
BY Assumptions DEF Origin

LEMMA Snapshot ==
  ASSUME NEW s \in Servers, NEW r, NEW m \in Messages
  PROVE  [message |-> m, clients |-> Members(s, r)] \in Job
BY DEF Job, Members

(* One worker of one server takes another entry. *)
LEMMA WorkerSet ==
  ASSUME NEW f, DOMAIN f = Servers, NEW s \in Servers, NEW w, NEW e,
         NEW g, g = [f EXCEPT ![s][w] = e]
  PROVE  /\ DOMAIN g = Servers
         /\ g[s] = [f[s] EXCEPT ![w] = e]
         /\ \A t \in Servers : t # s => g[t] = f[t]
OBVIOUS

LEMMA WorkerSetTyped ==
  ASSUME NEW f, DOMAIN f = Servers, NEW s \in Servers, NEW n, NEW T,
         \A t \in Servers : f[t] \in [1..n[t] -> T],
         NEW w \in 1..n[s], NEW e \in T,
         NEW g, g = [f EXCEPT ![s][w] = e]
  PROVE  /\ \A t \in Servers : g[t] \in [1..n[t] -> T]
         /\ DOMAIN g = Servers
         /\ g[s][w] = e
         /\ \A v \in 1..n[s] : v # w => g[s][v] = f[s][v]
         /\ \A t \in Servers : t # s => g[t] = f[t]
<1>1. /\ DOMAIN g = Servers
      /\ g[s] = [f[s] EXCEPT ![w] = e]
      /\ \A t \in Servers : t # s => g[t] = f[t]
  BY WorkerSet
<1>2. f[s] \in [1..n[s] -> T]
  OBVIOUS
<1>3. g[s] \in [1..n[s] -> T]
  BY <1>1, <1>2
<1>4. g[s][w] = e /\ \A v \in 1..n[s] : v # w => g[s][v] = f[s][v]
  BY <1>1, <1>2
<1>5. \A t \in Servers : g[t] \in [1..n[t] -> T]
  BY <1>1, <1>3
<1> QED
  BY <1>1, <1>4, <1>5

(* A message goes to the end of a queue of one server. *)
LEMMA QueueAppended ==
  ASSUME NEW S, NEW f \in [Servers -> Seq(S)], NEW s \in Servers, NEW e \in S,
         NEW g, g = [f EXCEPT ![s] = Append(@, e)]
  PROVE  /\ g \in [Servers -> Seq(S)]
         /\ g[s] = Append(f[s], e)
         /\ Len(g[s]) = Len(f[s]) + 1
         /\ \A t \in Servers : t # s => g[t] = f[t]
<1>1. f[s] \in Seq(S)
  OBVIOUS
<1>2. Append(f[s], e) \in Seq(S) /\ Len(Append(f[s], e)) = Len(f[s]) + 1
  BY <1>1, AppendProperties
<1> QED
  BY <1>2

(* The head of a queue of one server is taken. *)
LEMMA QueueTaken ==
  ASSUME NEW S, NEW f \in [Servers -> Seq(S)], NEW s \in Servers,
         f[s] # <<>>,
         NEW g, g = [f EXCEPT ![s] = Tail(@)]
  PROVE  /\ g \in [Servers -> Seq(S)]
         /\ Head(f[s]) \in S
         /\ g[s] = Tail(f[s])
         /\ Len(g[s]) = Len(f[s]) - 1
         /\ \A t \in Servers : t # s => g[t] = f[t]
<1>1. f[s] \in Seq(S)
  OBVIOUS
<1>2. Tail(f[s]) \in Seq(S) /\ Len(Tail(f[s])) = Len(f[s]) - 1 /\ Head(f[s]) \in S
  BY <1>1, HeadTailProperties
<1> QED
  BY <1>2

LEMMA LensAreNatural ==
  ASSUME NEW S, NEW f \in [Servers -> Seq(S)], NEW s \in Servers
  PROVE  Len(f[s]) \in Nat
BY LenProperties

LEMMA EnqueueTyped ==
  ASSUME TypeOK, NEW s \in Servers, NEW r, NEW m \in Messages,
         EnqueueLocalBroadcast(s, r, m)
  PROVE  /\ broadcastJobs' \in [Servers -> Seq(Job)]
         /\ \A t \in Servers : Len(broadcastJobs'[t]) <= JobBufferSize
         /\ lost' \subseteq Messages \X (Servers \cup Clients)
<1> DEFINE job == [message |-> m, clients |-> Members(s, r)]
<1>1. job \in Job
  BY Snapshot
<1>t. /\ broadcastJobs \in [Servers -> Seq(Job)]
      /\ \A t \in Servers : Len(broadcastJobs[t]) <= JobBufferSize
      /\ lost \subseteq Messages \X (Servers \cup Clients)
      /\ JobBufferSize \in Nat
  BY Assumptions DEF TypeOK
<1>2. CASE UNCHANGED locals
  BY <1>2, <1>t DEF locals
<1>3. CASE /\ Len(broadcastJobs[s]) < JobBufferSize
           /\ broadcastJobs' = [broadcastJobs EXCEPT ![s] = Append(@, job)]
           /\ UNCHANGED lost
  <2> HIDE DEF job
  <2>1. /\ broadcastJobs' \in [Servers -> Seq(Job)]
        /\ Len(broadcastJobs'[s]) = Len(broadcastJobs[s]) + 1
        /\ \A t \in Servers : t # s => broadcastJobs'[t] = broadcastJobs[t]
    BY <1>1, <1>3, <1>t, QueueAppended
  <2>2. Len(broadcastJobs[s]) \in Nat
    BY <1>t, LensAreNatural
  <2> QED
    BY <1>3, <1>t, <2>1, <2>2
<1>4. CASE lost' = lost \cup {<<m, s>>} /\ UNCHANGED broadcastJobs
  BY <1>4, <1>t
<1> QED
  BY <1>2, <1>3, <1>4 DEF EnqueueLocalBroadcast

Typed == TypeOK /\ Arrays

LEMMA InitTyped == Init => Typed
<1> SUFFICES ASSUME Init PROVE Typed
  OBVIOUS
<1>1. \A S : <<>> \in Seq(S) /\ Len(<<>>) = 0
  BY EmptySeq
<1>2. /\ phase \in [Clients -> {"outside", "inside", "left"}]
      /\ sub \in [Clients -> {"none", "connecting", "active", "cancelled", "ended"}]
      /\ wire \subseteq Messages
      /\ faults \in 0..MaxFaults
      /\ audience \in [Messages -> SUBSET Clients]
      /\ arrivals \in [Messages -> [Clients -> Nat]]
      /\ carried \in [Messages -> Nat]
      /\ degraded \subseteq Messages
      /\ lost \subseteq Messages \X (Servers \cup Clients)
  BY Assumptions DEF Init
<1>3. /\ seen \in [Clients -> Seq(Messages)]
      /\ channel \in [Clients -> Seq(Messages)]
      /\ Broadcast \in [Servers -> Seq(Messages)]
      /\ redisPublishJobs \in [Servers -> Seq(Messages)]
      /\ broadcastJobs \in [Servers -> Seq(Job)]
      /\ accepted \in [Servers -> Seq(Messages)]
  BY <1>1 DEF Init
<1>4. \A s \in Servers :
       /\ publishing[s] \in [1..RedisWorkerCount[s] -> Call \cup {Idle}]
       /\ broadcasting[s] \in [1..WorkerCount[s] -> Job \cup {Idle}]
       /\ Len(Broadcast[s]) <= BroadcastBufferSize
       /\ Len(redisPublishJobs[s]) <= RedisPublishBufferSize
       /\ Len(broadcastJobs[s]) <= JobBufferSize
  BY <1>1, Assumptions DEF Init
<1>5. Arrays
  BY DEF Init, Arrays
<1> QED
  BY <1>2, <1>3, <1>4, <1>5 DEF Typed, TypeOK

LEMMA RoomTyped ==
  ASSUME Typed, NEW c \in Clients,
         \/ Register(c) \/ Unregister(c) \/ Subscribe(c)
         \/ SubscriptionBreaks(c) \/ SubscriptionEnds(c)
  PROVE  Typed'
<1> USE DEF redis, ingress, locals, workers, publish, Disturb
<1>1. CASE Register(c)
  <2>1. sub' \in [Clients -> {"none", "connecting", "active", "cancelled", "ended"}]
    BY <1>1 DEF Register, Typed, TypeOK
  <2>2. phase' \in [Clients -> {"outside", "inside", "left"}]
    BY <1>1 DEF Register, Typed, TypeOK
  <2> QED
    BY <1>1, <2>1, <2>2 DEF Register, Typed, TypeOK, Arrays
<1>2. CASE Unregister(c)
  <2>1. sub' \in [Clients -> {"none", "connecting", "active", "cancelled", "ended"}]
    BY <1>2 DEF Unregister, Typed, TypeOK
  <2>2. phase' \in [Clients -> {"outside", "inside", "left"}]
    BY <1>2 DEF Unregister, Typed, TypeOK
  <2>3. faults' \in 0..MaxFaults
    BY <1>2, Assumptions DEF Unregister, Typed, TypeOK
  <2> QED
    BY <1>2, <2>1, <2>2, <2>3 DEF Unregister, Typed, TypeOK, Arrays
<1>3. CASE Subscribe(c)
  <2>1. sub' \in [Clients -> {"none", "connecting", "active", "cancelled", "ended"}]
    BY <1>3 DEF Subscribe, Typed, TypeOK
  <2> QED
    BY <1>3, <2>1 DEF Subscribe, Typed, TypeOK, Arrays
<1>4. CASE SubscriptionBreaks(c)
  <2>1. sub' \in [Clients -> {"none", "connecting", "active", "cancelled", "ended"}]
    BY <1>4 DEF SubscriptionBreaks, Typed, TypeOK
  <2>3. faults' \in 0..MaxFaults
    BY <1>4, Assumptions DEF SubscriptionBreaks, Typed, TypeOK
  <2> QED
    BY <1>4, <2>1, <2>3 DEF SubscriptionBreaks, Typed, TypeOK, Arrays
<1>5. CASE SubscriptionEnds(c)
  <2>1. sub' \in [Clients -> {"none", "connecting", "active", "cancelled", "ended"}]
    BY <1>5 DEF SubscriptionEnds, Typed, TypeOK
  <2>2. <<>> \in Seq(Messages)
    BY EmptySeq
  <2>3. channel' \in [Clients -> Seq(Messages)]
    BY <1>5, <2>2 DEF SubscriptionEnds, Typed, TypeOK
  <2> QED
    BY <1>5, <2>1, <2>3 DEF SubscriptionEnds, Typed, TypeOK, Arrays
<1> QED
  BY <1>1, <1>2, <1>3, <1>4, <1>5

LEMMA ReceiveTyped ==
  ASSUME Typed, NEW c \in Clients, Receive(c)
  PROVE  /\ Typed'
         /\ channel[c] # <<>> /\ channel[c] \in Seq(Messages)
         /\ Head(channel[c]) \in Messages
<1> USE DEF members, ingress, workers
<1>1. channel[c] # <<>> /\ channel[c] \in Seq(Messages)
  BY DEF Receive, Typed, TypeOK
<1>2. Tail(channel[c]) \in Seq(Messages) /\ Head(channel[c]) \in Messages
  BY <1>1, HeadTailProperties
<1>3. channel' \in [Clients -> Seq(Messages)]
  BY <1>2 DEF Receive, Typed, TypeOK
<1>4. /\ broadcastJobs' \in [Servers -> Seq(Job)]
      /\ \A t \in Servers : Len(broadcastJobs'[t]) <= JobBufferSize
      /\ lost' \subseteq Messages \X (Servers \cup Clients)
  BY <1>2, EnqueueTyped, Constants DEF Receive, Typed
<1>5. Typed'
  BY <1>3, <1>4 DEF Receive, Typed, TypeOK, Arrays, publish
<1> QED
  BY <1>1, <1>2, <1>5

LEMMA TakeJobEffect ==
  ASSUME Typed, NEW s \in Servers, NEW w \in 1..WorkerCount[s],
         TakeBroadcastJob(s, w)
  PROVE  /\ Typed'
         /\ broadcastJobs[s] \in Seq(Job) /\ broadcastJobs[s] # <<>>
         /\ Head(broadcastJobs[s]) \in Job
         /\ broadcastJobs'[s] = Tail(broadcastJobs[s])
         /\ broadcasting'[s] = [broadcasting[s] EXCEPT ![w] = Head(broadcastJobs[s])]
         /\ \A t \in Servers : t # s =>
              /\ broadcastJobs'[t] = broadcastJobs[t]
              /\ broadcasting'[t] = broadcasting[t]
<1> DEFINE job == Head(broadcastJobs[s])
<1>t. /\ broadcastJobs \in [Servers -> Seq(Job)] /\ DOMAIN broadcasting = Servers
      /\ broadcastJobs[s] # <<>>
      /\ \A t \in Servers :
           /\ broadcasting[t] \in [1..WorkerCount[t] -> Job \cup {Idle}]
           /\ Len(broadcastJobs[t]) <= JobBufferSize
      /\ JobBufferSize \in Nat
  BY Assumptions DEF TakeBroadcastJob, Typed, TypeOK, Arrays
<1>1. broadcastJobs' = [broadcastJobs EXCEPT ![s] = Tail(@)]
      /\ broadcasting' = [broadcasting EXCEPT ![s][w] = job]
  BY DEF TakeBroadcastJob
<1>2. /\ broadcastJobs' \in [Servers -> Seq(Job)]
      /\ job \in Job
      /\ broadcastJobs'[s] = Tail(broadcastJobs[s])
      /\ Len(broadcastJobs'[s]) = Len(broadcastJobs[s]) - 1
      /\ \A t \in Servers : t # s => broadcastJobs'[t] = broadcastJobs[t]
  BY <1>t, <1>1, QueueTaken
<1> HIDE DEF job
<1>3. /\ \A t \in Servers : broadcasting'[t] \in [1..WorkerCount[t] -> Job \cup {Idle}]
      /\ DOMAIN broadcasting' = Servers
      /\ broadcasting'[s] = [broadcasting[s] EXCEPT ![w] = job]
      /\ \A t \in Servers : t # s => broadcasting'[t] = broadcasting[t]
  <2>1. job \in Job \cup {Idle}
    BY <1>2
  <2> QED
    BY <1>t, <1>1, <2>1, WorkerSetTyped, WorkerSet
<1>4. \A t \in Servers : Len(broadcastJobs'[t]) <= JobBufferSize
  <2>1. Len(broadcastJobs[s]) \in Nat
    BY <1>t, LensAreNatural
  <2> QED
    BY <1>t, <1>2, <2>1
<1>5. Typed'
  BY <1>2, <1>3, <1>4
  DEF TakeBroadcastJob, Typed, TypeOK, Arrays, members, redis, ingress, publish
<1> QED
  BY <1>t, <1>2, <1>3, <1>5 DEF job

LEMMA BroadcastEffect ==
  ASSUME Typed, NEW s \in Servers, NEW w \in 1..WorkerCount[s],
         BroadcastWorker(s, w)
  PROVE  /\ Typed'
         /\ broadcasting[s][w] \in Job
         /\ broadcasting'[s] = [broadcasting[s] EXCEPT ![w] = Idle]
         /\ \A t \in Servers : t # s => broadcasting'[t] = broadcasting[t]
         /\ \A c \in Clients :
              \/ /\ c \in broadcasting[s][w].clients
                 /\ seen'[c] = Append(seen[c], broadcasting[s][w].message)
              \/ /\ c \in broadcasting[s][w].clients => <<broadcasting[s][w].message, c>> \in lost'
                 /\ seen'[c] = seen[c]
         /\ lost \subseteq lost'
<1> DEFINE job == broadcasting[s][w]
<1>t. /\ DOMAIN broadcasting = Servers
      /\ \A t \in Servers :
           broadcasting[t] \in [1..WorkerCount[t] -> Job \cup {Idle}]
      /\ seen \in [Clients -> Seq(Messages)]
      /\ lost \subseteq Messages \X (Servers \cup Clients)
  BY DEF Typed, TypeOK, Arrays
<1>1. job \in Job
  BY <1>t DEF BroadcastWorker
<1>2. job.message \in Messages /\ job.clients \subseteq Clients
  BY <1>1 DEF Job
<1>3. broadcasting' = [broadcasting EXCEPT ![s][w] = Idle]
  BY DEF BroadcastWorker
<1>4. /\ \A t \in Servers : broadcasting'[t] \in [1..WorkerCount[t] -> Job \cup {Idle}]
      /\ DOMAIN broadcasting' = Servers
      /\ broadcasting'[s] = [broadcasting[s] EXCEPT ![w] = Idle]
      /\ \A t \in Servers : t # s => broadcasting'[t] = broadcasting[t]
  <2>1. Idle \in Job \cup {Idle}
    OBVIOUS
  <2> QED
    BY <1>t, <1>3, <2>1, WorkerSetTyped, WorkerSet
<1>5. PICK full \in SUBSET (job.clients \cap Slow) :
        /\ seen' = [c \in Clients |-> IF c \in job.clients \ full
                                       THEN Append(seen[c], job.message)
                                       ELSE seen[c]]
        /\ lost' = lost \cup {<<job.message, c>> : c \in full}
  BY DEF BroadcastWorker
<1> HIDE DEF job
<1>6. seen' \in [Clients -> Seq(Messages)]
  <2>1. \A c \in Clients : Append(seen[c], job.message) \in Seq(Messages)
    BY <1>t, <1>2, AppendProperties
  <2> QED
    BY <1>t, <1>5, <2>1
<1>7. lost' \subseteq Messages \X (Servers \cup Clients)
  BY <1>t, <1>2, <1>5
<1>8. Typed'
  BY <1>4, <1>6, <1>7
  DEF BroadcastWorker, Typed, TypeOK, Arrays, members, redis, ingress, publish
<1>9. \A c \in Clients :
        \/ c \in job.clients /\ seen'[c] = Append(seen[c], job.message)
        \/ (c \in job.clients => <<job.message, c>> \in lost') /\ seen'[c] = seen[c]
  BY <1>5
<1>10. lost \subseteq lost'
  BY <1>5
<1> QED
  BY <1>1, <1>4, <1>8, <1>9, <1>10 DEF job

LEMMA SubmitEffect ==
  ASSUME Typed, NEW m \in Messages, SubmitDanmaku(m)
  PROVE  /\ Typed'
         /\ Broadcast'[Origin(m)] = Append(Broadcast[Origin(m)], m)
         /\ accepted'[Origin(m)] = Append(accepted[Origin(m)], m)
         /\ \A t \in Servers : t # Origin(m) =>
              /\ Broadcast'[t] = Broadcast[t]
              /\ accepted'[t] = accepted[t]
<1> DEFINE s == Origin(m)
<1>s. s \in Servers
  BY Constants
<1>t. /\ Broadcast \in [Servers -> Seq(Messages)]
      /\ accepted \in [Servers -> Seq(Messages)]
      /\ audience \in [Messages -> SUBSET Clients]
      /\ \A t \in Servers : Len(Broadcast[t]) <= BroadcastBufferSize
      /\ BroadcastBufferSize \in Nat
  BY Assumptions DEF Typed, TypeOK
<1>1. /\ Len(Broadcast[s]) < BroadcastBufferSize
      /\ Broadcast' = [Broadcast EXCEPT ![s] = Append(@, m)]
      /\ accepted' = [accepted EXCEPT ![s] = Append(@, m)]
  BY DEF SubmitDanmaku
<1>2. audience' \in [Messages -> SUBSET Clients]
  BY <1>t DEF SubmitDanmaku
<1> HIDE DEF s
<1>3. /\ Broadcast' \in [Servers -> Seq(Messages)]
      /\ Broadcast'[s] = Append(Broadcast[s], m)
      /\ Len(Broadcast'[s]) = Len(Broadcast[s]) + 1
      /\ \A t \in Servers : t # s => Broadcast'[t] = Broadcast[t]
  BY <1>s, <1>t, <1>1, QueueAppended
<1>4. /\ accepted' \in [Servers -> Seq(Messages)]
      /\ accepted'[s] = Append(accepted[s], m)
      /\ \A t \in Servers : t # s => accepted'[t] = accepted[t]
  BY <1>s, <1>t, <1>1, QueueAppended
<1>5. \A t \in Servers : Len(Broadcast'[t]) <= BroadcastBufferSize
  <2>1. Len(Broadcast[s]) \in Nat
    BY <1>s, <1>t, LensAreNatural
  <2> QED
    BY <1>t, <1>1, <1>3, <2>1
<1>6. Typed'
  BY <1>2, <1>3, <1>4, <1>5
  DEF SubmitDanmaku, Typed, TypeOK, Arrays, members, redis, locals, workers, publish
<1> QED
  BY <1>3, <1>4, <1>6 DEF s

LEMMA HandleEffect ==
  ASSUME Typed, NEW s \in Servers, HandleBroadcast(s)
  PROVE  LET m == Head(Broadcast[s]) IN
         /\ Typed'
         /\ m \in Messages
         /\ Broadcast[s] # <<>> /\ Broadcast'[s] = Tail(Broadcast[s])
         /\ \A t \in Servers : t # s =>
              /\ Broadcast'[t] = Broadcast[t]
              /\ redisPublishJobs'[t] = redisPublishJobs[t]
         /\ \/ /\ redisPublishJobs'[s] = Append(redisPublishJobs[s], m)
               /\ UNCHANGED <<broadcastJobs, lost, degraded>>
            \/ /\ UNCHANGED redisPublishJobs
               /\ degraded' = degraded \cup {m}
               /\ EnqueueLocalBroadcast(s, Room(m), m)
<1> DEFINE m == Head(Broadcast[s])
<1>t. /\ Broadcast \in [Servers -> Seq(Messages)]
      /\ redisPublishJobs \in [Servers -> Seq(Messages)]
      /\ degraded \subseteq Messages
      /\ \A t \in Servers : /\ Len(Broadcast[t]) <= BroadcastBufferSize
                            /\ Len(redisPublishJobs[t]) <= RedisPublishBufferSize
      /\ BroadcastBufferSize \in Nat /\ RedisPublishBufferSize \in Nat
  BY Assumptions DEF Typed, TypeOK
<1>1. Broadcast[s] # <<>> /\ Broadcast' = [Broadcast EXCEPT ![s] = Tail(@)]
  BY DEF HandleBroadcast
<1>2. /\ Broadcast' \in [Servers -> Seq(Messages)]
      /\ m \in Messages
      /\ Broadcast'[s] = Tail(Broadcast[s])
      /\ Len(Broadcast'[s]) = Len(Broadcast[s]) - 1
      /\ \A t \in Servers : t # s => Broadcast'[t] = Broadcast[t]
  BY <1>t, <1>1, QueueTaken
<1>3. \A t \in Servers : Len(Broadcast'[t]) <= BroadcastBufferSize
  <2>1. Len(Broadcast[s]) \in Nat
    BY <1>t, LensAreNatural
  <2> QED
    BY <1>t, <1>2, <2>1
<1>4. \/ /\ Len(redisPublishJobs[s]) < RedisPublishBufferSize
         /\ redisPublishJobs' = [redisPublishJobs EXCEPT ![s] = Append(@, m)]
         /\ UNCHANGED <<broadcastJobs, lost, degraded>>
      \/ /\ UNCHANGED redisPublishJobs
         /\ degraded' = degraded \cup {m}
         /\ EnqueueLocalBroadcast(s, Room(m), m)
  BY DEF HandleBroadcast, FallBack, locals
<1>u. UNCHANGED <<members, redis, accepted, audience, workers, publishing>>
  BY DEF HandleBroadcast
<1> HIDE DEF m
<1>5. CASE /\ Len(redisPublishJobs[s]) < RedisPublishBufferSize
           /\ redisPublishJobs' = [redisPublishJobs EXCEPT ![s] = Append(@, m)]
           /\ UNCHANGED <<broadcastJobs, lost, degraded>>
  <2>1. /\ redisPublishJobs' \in [Servers -> Seq(Messages)]
        /\ redisPublishJobs'[s] = Append(redisPublishJobs[s], m)
        /\ Len(redisPublishJobs'[s]) = Len(redisPublishJobs[s]) + 1
        /\ \A t \in Servers : t # s => redisPublishJobs'[t] = redisPublishJobs[t]
    BY <1>2, <1>5, <1>t, QueueAppended
  <2>2. Len(redisPublishJobs[s]) \in Nat
    BY <1>t, LensAreNatural
  <2>3. \A t \in Servers : Len(redisPublishJobs'[t]) <= RedisPublishBufferSize
    BY <1>5, <1>t, <2>1, <2>2
  <2>4. Typed'
    BY <1>2, <1>3, <1>5, <1>u, <2>1, <2>3
    DEF Typed, TypeOK, Arrays, members, redis, workers
  <2> QED
    BY <1>1, <1>2, <1>5, <2>1, <2>4 DEF m
<1>6. CASE /\ UNCHANGED redisPublishJobs
           /\ degraded' = degraded \cup {m}
           /\ EnqueueLocalBroadcast(s, Room(m), m)
  <2>1. /\ broadcastJobs' \in [Servers -> Seq(Job)]
        /\ \A t \in Servers : Len(broadcastJobs'[t]) <= JobBufferSize
        /\ lost' \subseteq Messages \X (Servers \cup Clients)
    BY <1>2, <1>6, EnqueueTyped DEF Typed
  <2>2. degraded' \subseteq Messages
    BY <1>2, <1>6, <1>t
  <2>4. Typed'
    BY <1>2, <1>3, <1>6, <1>u, <2>1, <2>2
    DEF Typed, TypeOK, Arrays, members, redis, workers
  <2> QED
    BY <1>1, <1>2, <1>6, <2>4 DEF m
<1> QED
  BY <1>4, <1>5, <1>6

LEMMA TakePublishEffect ==
  ASSUME Typed, NEW s \in Servers, NEW w \in 1..RedisWorkerCount[s],
         TakePublishJob(s, w)
  PROVE  /\ redisPublishJobs[s] # <<>>
         /\ Head(redisPublishJobs[s]) \in Messages
         /\ redisPublishJobs' \in [Servers -> Seq(Messages)]
         /\ redisPublishJobs'[s] = Tail(redisPublishJobs[s])
         /\ \A t \in Servers : t # s => redisPublishJobs'[t] = redisPublishJobs[t]
         /\ \A t \in Servers : Len(redisPublishJobs'[t]) <= RedisPublishBufferSize
<1>t. /\ redisPublishJobs \in [Servers -> Seq(Messages)]
      /\ \A t \in Servers : Len(redisPublishJobs[t]) <= RedisPublishBufferSize
      /\ RedisPublishBufferSize \in Nat
  BY Assumptions DEF Typed, TypeOK
<1>1. /\ redisPublishJobs[s] # <<>>
      /\ redisPublishJobs' = [redisPublishJobs EXCEPT ![s] = Tail(@)]
  BY DEF TakePublishJob
<1>2. /\ redisPublishJobs' \in [Servers -> Seq(Messages)]
      /\ Head(redisPublishJobs[s]) \in Messages
      /\ redisPublishJobs'[s] = Tail(redisPublishJobs[s])
      /\ Len(redisPublishJobs'[s]) = Len(redisPublishJobs[s]) - 1
      /\ \A t \in Servers : t # s => redisPublishJobs'[t] = redisPublishJobs[t]
  BY <1>t, <1>1, QueueTaken
<1>3. Len(redisPublishJobs[s]) \in Nat
  BY <1>t, LensAreNatural
<1> QED
  BY <1>t, <1>1, <1>2, <1>3

LEMMA PublishEffect ==
  ASSUME Typed, NEW s \in Servers, NEW w \in 1..RedisWorkerCount[s],
         Publish(s, w)
  PROVE  LET m == Head(redisPublishJobs[s]) IN
         /\ Typed'
         /\ redisPublishJobs[s] # <<>> /\ m \in Messages
         /\ redisPublishJobs'[s] = Tail(redisPublishJobs[s])
         /\ publishing[s][w] = Idle
         /\ publishing'[s] =
              [publishing[s] EXCEPT ![w] = [message |-> m, answer |-> FALSE]]
         /\ \A t \in Servers : t # s =>
              /\ redisPublishJobs'[t] = redisPublishJobs[t]
              /\ publishing'[t] = publishing[t]
<1> DEFINE m == Head(redisPublishJobs[s])
           call == [message |-> m, answer |-> FALSE]
<1>t. /\ DOMAIN publishing = Servers
      /\ \A t \in Servers :
           publishing[t] \in [1..RedisWorkerCount[t] -> Call \cup {Idle}]
      /\ wire \subseteq Messages
  BY DEF Typed, TypeOK, Arrays
<1>1. TakePublishJob(s, w) /\ publishing[s][w] = Idle
  BY DEF Publish, TakePublishJob
<1>2. publishing' = [publishing EXCEPT ![s][w] = call] /\ wire' = wire \cup {m}
  BY DEF Publish
<1>3. /\ redisPublishJobs[s] # <<>>
      /\ m \in Messages
      /\ redisPublishJobs' \in [Servers -> Seq(Messages)]
      /\ redisPublishJobs'[s] = Tail(redisPublishJobs[s])
      /\ \A t \in Servers : t # s => redisPublishJobs'[t] = redisPublishJobs[t]
      /\ \A t \in Servers : Len(redisPublishJobs'[t]) <= RedisPublishBufferSize
  BY <1>1, TakePublishEffect
<1>4. call \in Call \cup {Idle}
  BY <1>3 DEF Call
<1>5. wire' \subseteq Messages
  BY <1>2, <1>3, <1>t
<1> HIDE DEF call, m
<1>6. /\ \A t \in Servers :
           publishing'[t] \in [1..RedisWorkerCount[t] -> Call \cup {Idle}]
      /\ DOMAIN publishing' = Servers
      /\ publishing'[s] = [publishing[s] EXCEPT ![w] = call]
      /\ \A t \in Servers : t # s => publishing'[t] = publishing[t]
  BY <1>t, <1>2, <1>4, WorkerSetTyped, WorkerSet
<1>7. Typed'
  BY <1>3, <1>5, <1>6
  DEF Publish, Typed, TypeOK, Arrays, members, ingress, locals, workers
<1> QED
  BY <1>1, <1>3, <1>6, <1>7 DEF call, m

LEMMA CircuitOpenEffect ==
  ASSUME Typed, NEW s \in Servers, NEW w \in 1..RedisWorkerCount[s],
         CircuitOpen(s, w)
  PROVE  LET m == Head(redisPublishJobs[s]) IN
         /\ Typed'
         /\ redisPublishJobs[s] # <<>> /\ m \in Messages
         /\ redisPublishJobs'[s] = Tail(redisPublishJobs[s])
         /\ \A t \in Servers : t # s => redisPublishJobs'[t] = redisPublishJobs[t]
         /\ degraded' = degraded \cup {m}
         /\ EnqueueLocalBroadcast(s, Room(m), m)
<1> DEFINE m == Head(redisPublishJobs[s])
<1>1. TakePublishJob(s, w)
  BY DEF CircuitOpen
<1>2. /\ redisPublishJobs[s] # <<>>
      /\ m \in Messages
      /\ redisPublishJobs' \in [Servers -> Seq(Messages)]
      /\ redisPublishJobs'[s] = Tail(redisPublishJobs[s])
      /\ \A t \in Servers : t # s => redisPublishJobs'[t] = redisPublishJobs[t]
      /\ \A t \in Servers : Len(redisPublishJobs'[t]) <= RedisPublishBufferSize
  BY <1>1, TakePublishEffect
<1>3. degraded' = degraded \cup {m} /\ EnqueueLocalBroadcast(s, Room(m), m)
  BY DEF CircuitOpen, FallBack
<1> HIDE DEF m
<1>4. /\ broadcastJobs' \in [Servers -> Seq(Job)]
      /\ \A t \in Servers : Len(broadcastJobs'[t]) <= JobBufferSize
      /\ lost' \subseteq Messages \X (Servers \cup Clients)
  BY <1>2, <1>3, EnqueueTyped DEF Typed
<1>5. degraded' \subseteq Messages
  BY <1>2, <1>3 DEF Typed, TypeOK
<1>6. Typed'
  BY <1>2, <1>4, <1>5
  DEF CircuitOpen, Typed, TypeOK, Arrays, members, redis, ingress, workers
<1> QED
  BY <1>2, <1>3, <1>6 DEF m

LEMMA CallEndsEffect ==
  ASSUME Typed, NEW s \in Servers, NEW w \in 1..RedisWorkerCount[s],
         publishing[s][w] # Idle,
         publishing' = [publishing EXCEPT ![s][w] = Idle]
  PROVE  /\ publishing[s][w] \in Call
         /\ publishing[s][w].message \in Messages
         /\ \A t \in Servers :
              publishing'[t] \in [1..RedisWorkerCount[t] -> Call \cup {Idle}]
         /\ DOMAIN publishing' = Servers
         /\ publishing'[s] = [publishing[s] EXCEPT ![w] = Idle]
         /\ \A t \in Servers : t # s => publishing'[t] = publishing[t]
<1>t. /\ DOMAIN publishing = Servers
      /\ \A t \in Servers :
           publishing[t] \in [1..RedisWorkerCount[t] -> Call \cup {Idle}]
  BY DEF Typed, TypeOK, Arrays
<1>1. publishing[s][w] \in Call
  BY <1>t
<1>2. Idle \in Call \cup {Idle}
  OBVIOUS
<1> QED
  BY <1>t, <1>1, <1>2, WorkerSetTyped, WorkerSet DEF Call

LEMMA PublishedTyped ==
  ASSUME Typed, NEW s \in Servers, NEW w \in 1..RedisWorkerCount[s],
         Published(s, w)
  PROVE  Typed'
<1>1. /\ \A t \in Servers :
           publishing'[t] \in [1..RedisWorkerCount[t] -> Call \cup {Idle}]
      /\ DOMAIN publishing' = Servers
  BY CallEndsEffect DEF Published
<1> QED
  BY <1>1 DEF Published, Typed, TypeOK, Arrays, members, redis, ingress,
      locals, workers

LEMMA PublishFailsEffect ==
  ASSUME Typed, NEW s \in Servers, NEW w \in 1..RedisWorkerCount[s],
         PublishFails(s, w)
  PROVE  LET m == publishing[s][w].message IN
         /\ Typed'
         /\ publishing[s][w] \in Call /\ m \in Messages
         /\ publishing'[s] = [publishing[s] EXCEPT ![w] = Idle]
         /\ \A t \in Servers : t # s => publishing'[t] = publishing[t]
         /\ wire' \subseteq wire
         /\ degraded' = degraded \cup {m}
         /\ EnqueueLocalBroadcast(s, Room(m), m)
<1> DEFINE m == publishing[s][w].message
<1>1. /\ publishing[s][w] \in Call
      /\ m \in Messages
      /\ \A t \in Servers :
           publishing'[t] \in [1..RedisWorkerCount[t] -> Call \cup {Idle}]
      /\ DOMAIN publishing' = Servers
      /\ publishing'[s] = [publishing[s] EXCEPT ![w] = Idle]
      /\ \A t \in Servers : t # s => publishing'[t] = publishing[t]
  BY CallEndsEffect DEF PublishFails
<1>2. /\ wire' \subseteq wire
      /\ degraded' = degraded \cup {m}
      /\ EnqueueLocalBroadcast(s, Room(m), m)
  BY DEF PublishFails, FallBack
<1>3. faults' \in 0..MaxFaults
  BY Assumptions DEF PublishFails, Disturb, Typed, TypeOK
<1> HIDE DEF m
<1>4. /\ broadcastJobs' \in [Servers -> Seq(Job)]
      /\ \A t \in Servers : Len(broadcastJobs'[t]) <= JobBufferSize
      /\ lost' \subseteq Messages \X (Servers \cup Clients)
  BY <1>1, <1>2, EnqueueTyped DEF Typed
<1>5. degraded' \subseteq Messages /\ wire' \subseteq Messages
  BY <1>1, <1>2 DEF Typed, TypeOK
<1>6. Typed'
  BY <1>1, <1>3, <1>4, <1>5
  DEF PublishFails, Typed, TypeOK, Arrays, members, ingress, workers
<1> QED
  BY <1>1, <1>2, <1>6 DEF m

LEMMA CarryOutEffect ==
  ASSUME Typed, NEW m \in Messages, CarryOut(m)
  PROVE  /\ Typed'
         /\ m \in wire /\ wire' \subseteq wire
         /\ \A c \in Clients :
              IF Subscribed(c, m)
              THEN /\ channel'[c] = Append(channel[c], m)
                   /\ arrivals'[m][c] = arrivals[m][c] + 1
              ELSE /\ channel'[c] = channel[c]
                   /\ arrivals'[m][c] = arrivals[m][c]
         /\ \A n \in Messages : n # m =>
              /\ arrivals'[n] = arrivals[n]
              /\ carried'[n] = carried[n]
         /\ carried'[m] = carried[m] + 1
         /\ \A s \in Servers : \A w \in 1..RedisWorkerCount[s] :
              \/ publishing'[s][w] = publishing[s][w]
              \/ /\ publishing[s][w] \in Call /\ publishing'[s][w] \in Call
                 /\ publishing[s][w].message = m /\ publishing'[s][w].message = m
<1>t. /\ DOMAIN publishing = Servers
      /\ \A s \in Servers :
           publishing[s] \in [1..RedisWorkerCount[s] -> Call \cup {Idle}]
      /\ channel \in [Clients -> Seq(Messages)]
      /\ wire \subseteq Messages
      /\ arrivals \in [Messages -> [Clients -> Nat]]
      /\ carried \in [Messages -> Nat]
      /\ faults \in 0..MaxFaults
  BY DEF Typed, TypeOK, Arrays
<1>1. /\ channel' = [c \in Clients |-> IF Subscribed(c, m)
                                        THEN Append(channel[c], m)
                                        ELSE channel[c]]
      /\ arrivals' = [arrivals EXCEPT ![m] =
           [c \in Clients |-> IF Subscribed(c, m) THEN @[c] + 1 ELSE @[c]]]
      /\ carried' = [carried EXCEPT ![m] = @ + 1]
  BY DEF CarryOut
<1>2. channel' \in [Clients -> Seq(Messages)]
  <2>1. \A c \in Clients : Append(channel[c], m) \in Seq(Messages)
    BY <1>t, AppendProperties
  <2> QED
    BY <1>t, <1>1, <2>1
<1>3. /\ arrivals' \in [Messages -> [Clients -> Nat]]
      /\ \A n \in Messages : n # m => arrivals'[n] = arrivals[n]
      /\ \A c \in Clients :
           arrivals'[m][c] = IF Subscribed(c, m) THEN arrivals[m][c] + 1
                                                 ELSE arrivals[m][c]
  <2> DEFINE row == [c \in Clients |-> IF Subscribed(c, m) THEN arrivals[m][c] + 1
                                                           ELSE arrivals[m][c]]
  <2>1. arrivals[m] \in [Clients -> Nat]
    BY <1>t
  <2>2. row \in [Clients -> Nat]
    BY <2>1
  <2>3. \A c \in Clients :
          row[c] = IF Subscribed(c, m) THEN arrivals[m][c] + 1 ELSE arrivals[m][c]
    OBVIOUS
  <2>4. arrivals' = [arrivals EXCEPT ![m] = row]
    BY <1>1
  <2> HIDE DEF row
  <2>5. arrivals'[m] = row
    BY <1>t, <2>4
  <2> QED
    BY <1>t, <2>2, <2>3, <2>4, <2>5
<1>4. /\ carried' \in [Messages -> Nat]
      /\ carried'[m] = carried[m] + 1
      /\ \A n \in Messages : n # m => carried'[n] = carried[n]
  BY <1>t, <1>1
<1>5. /\ wire' \subseteq wire /\ m \in wire
      /\ faults' \in 0..MaxFaults
  BY <1>t, Assumptions DEF CarryOut, Disturb
<1>6. publishing' = [s \in Servers |-> [w \in 1..RedisWorkerCount[s] |->
        LET call == publishing[s][w] IN
        IF call # Idle /\ call.message = m
        THEN [call EXCEPT !.answer = TRUE] ELSE call]]
  BY DEF CarryOut
<1>7. ASSUME NEW call \in Call
      PROVE  /\ [call EXCEPT !.answer = TRUE] \in Call
             /\ [call EXCEPT !.answer = TRUE].message = call.message
  BY DEF Call
<1>8. ASSUME NEW s \in Servers
      PROVE  /\ publishing'[s] \in [1..RedisWorkerCount[s] -> Call \cup {Idle}]
             /\ \A w \in 1..RedisWorkerCount[s] :
                  \/ publishing'[s][w] = publishing[s][w]
                  \/ /\ publishing[s][w] \in Call /\ publishing'[s][w] \in Call
                     /\ publishing[s][w].message = m /\ publishing'[s][w].message = m
  <2>1. publishing'[s] = [w \in 1..RedisWorkerCount[s] |->
          IF publishing[s][w] # Idle /\ publishing[s][w].message = m
          THEN [publishing[s][w] EXCEPT !.answer = TRUE] ELSE publishing[s][w]]
    BY <1>6
  <2>2. \A w \in 1..RedisWorkerCount[s] :
          publishing[s][w] \in Call \/ publishing[s][w] = Idle
    BY <1>t
  <2>3. ASSUME NEW w \in 1..RedisWorkerCount[s]
        PROVE  \/ publishing'[s][w] = publishing[s][w]
               \/ /\ publishing[s][w] \in Call /\ publishing'[s][w] \in Call
                  /\ publishing[s][w].message = m /\ publishing'[s][w].message = m
    <3>1. CASE publishing[s][w] # Idle /\ publishing[s][w].message = m
      <4>1. publishing'[s][w] = [publishing[s][w] EXCEPT !.answer = TRUE]
        BY <2>1, <3>1
      <4>2. publishing[s][w] \in Call
        BY <2>2, <3>1
      <4> QED
        BY <1>7, <3>1, <4>1, <4>2
    <3>2. CASE ~ (publishing[s][w] # Idle /\ publishing[s][w].message = m)
      BY <2>1, <3>2
    <3> QED
      BY <3>1, <3>2
  <2>4. \A w \in 1..RedisWorkerCount[s] : publishing'[s][w] \in Call \cup {Idle}
    BY <2>2, <2>3
  <2>5. DOMAIN publishing'[s] = 1..RedisWorkerCount[s]
        /\ publishing'[s] = [w \in 1..RedisWorkerCount[s] |-> publishing'[s][w]]
    BY <2>1
  <2>6. publishing'[s] \in [1..RedisWorkerCount[s] -> Call \cup {Idle}]
    BY <2>4, <2>5
  <2> QED
    BY <2>3, <2>6
<1>9. DOMAIN publishing' = Servers
  BY <1>6
<1>10. Typed'
  BY <1>2, <1>3, <1>4, <1>5, <1>8, <1>9, <1>t
  DEF CarryOut, Typed, TypeOK, Arrays, members, ingress, locals, workers
<1> QED
  BY <1>1, <1>3, <1>4, <1>5, <1>8, <1>10

LEMMA TypedStep ==
  ASSUME Typed, [Next]_vars
  PROVE  Typed'
<1>1. ASSUME NEW s \in Servers, HandleBroadcast(s) PROVE Typed'
  BY <1>1, HandleEffect
<1>2. ASSUME NEW s \in Servers, NEW w \in 1..RedisWorkerCount[s],
             Publish(s, w) \/ CircuitOpen(s, w) \/ Published(s, w)
               \/ PublishFails(s, w)
      PROVE  Typed'
  BY <1>2, PublishEffect, CircuitOpenEffect, PublishedTyped, PublishFailsEffect
<1>3. ASSUME NEW s \in Servers, NEW w \in 1..WorkerCount[s],
             TakeBroadcastJob(s, w) \/ BroadcastWorker(s, w)
      PROVE  Typed'
  BY <1>3, TakeJobEffect, BroadcastEffect
<1>4. ASSUME NEW c \in Clients,
             Register(c) \/ Unregister(c) \/ Receive(c) \/ Subscribe(c)
               \/ SubscriptionBreaks(c) \/ SubscriptionEnds(c)
      PROVE  Typed'
  BY <1>4, RoomTyped, ReceiveTyped
<1>5. ASSUME NEW m \in Messages, SubmitDanmaku(m) \/ CarryOut(m)
      PROVE  Typed'
  BY <1>5, SubmitEffect, CarryOutEffect
<1>6. CASE UNCHANGED vars
  BY <1>6 DEF Typed, TypeOK, Arrays, vars, members, redis, ingress, locals,
     workers, publish
<1> QED
  BY <1>1, <1>2, <1>3, <1>4, <1>5, <1>6 DEF Next

(* Every variable of the live path keeps its type: no queue of a server    *)
(* outgrows its buffer, and a worker has one job or one call at a time     *)
(* (enqueueLocalBroadcast and the sends with a default branch,             *)
(* manager.go).                                                            *)
THEOREM TypeCorrect == Spec => []TypeOK
<1>1. Typed => TypeOK
  BY DEF Typed
<1> QED
  BY InitTyped, TypedStep, <1>1, PTL DEF Spec

-----------------------------------------------------------------------------
(* Where messages come from *)

CallsFor(m) == {call \in Call : call.message = m}
JobsFor(m, c) == {job \in Job : job.message = m /\ c \in job.clients}

(* Messages enter one server, and each enters once. *)
AcceptedOnce ==
  \A s \in Servers : \A i \in 1..Len(accepted[s]) :
    /\ Origin(accepted[s][i]) = s
    /\ \A j \in 1..Len(accepted[s]) : accepted[s][i] = accepted[s][j] => i = j

(* On their way to Redis they are on the server they entered, and a call   *)
(* is answered once its command was carried out.                           *)
Upstream ==
  \A m \in Messages :
    /\ \A s \in Servers :
         /\ m \in Range(Broadcast[s]) \cup Range(redisPublishJobs[s])
              => Origin(m) = s /\ Accepted(m)
         /\ \A w \in 1..RedisWorkerCount[s] :
              publishing[s][w] \in CallsFor(m) =>
                /\ Origin(m) = s /\ Accepted(m)
                /\ publishing[s][w].answer => carried[m] > 0
    /\ m \in wire \/ m \in degraded \/ carried[m] > 0 => Accepted(m)

(* Redis sends a message to subscriptions of its own room only. *)
Subscriptions ==
  \A c \in Clients :
    /\ phase[c] = "outside" => sub[c] = "none"
    /\ \A m \in Messages :
         /\ Hits(channel[c], {m}) <= arrivals[m][c]
         /\ arrivals[m][c] > 0 =>
              carried[m] > 0 /\ RoomOf[c] = Room(m) /\ sub[c] # "none"

(* The jobs of a server, in the queue or with a worker. *)
HasJob(s, job) ==
  \/ job \in Range(broadcastJobs[s])
  \/ \E w \in 1..WorkerCount[s] : broadcasting[s][w] = job

(* A snapshot is taken of the room of its message on one server. *)
JobPlaced(s, job) ==
  \A c \in job.clients : Home[c] = s /\ RoomOf[c] = Room(job.message)

Snapshots ==
  \A s \in Servers, job \in Job :
    HasJob(s, job) => JobPlaced(s, job) /\ Accepted(job.message)

SeenPlaced ==
  \A c \in Clients, m \in Messages :
    m \in Range(seen[c]) => Accepted(m) /\ RoomOf[c] = Room(m)

AudiencePlaced ==
  \A m \in Messages : \A c \in audience[m] :
    phase[c] # "outside" /\ Accepted(m) /\ RoomOf[c] = Room(m)

Provenance ==
  /\ AcceptedOnce
  /\ Upstream
  /\ Subscriptions
  /\ Snapshots
  /\ SeenPlaced
  /\ AudiencePlaced

LEMMA Sequences ==
  ASSUME Typed
  PROVE  /\ \A s \in Servers :
              /\ Broadcast[s] \in Seq(Messages)
              /\ redisPublishJobs[s] \in Seq(Messages)
              /\ accepted[s] \in Seq(Messages)
              /\ broadcastJobs[s] \in Seq(Job)
         /\ \A c \in Clients :
              seen[c] \in Seq(Messages) /\ channel[c] \in Seq(Messages)
BY DEF Typed, TypeOK

LEMMA EmptyRange == Range(<<>>) = {}
BY DEF Range

LEMMA SubmitRange ==
  ASSUME Typed, NEW m \in Messages, SubmitDanmaku(m)
  PROVE  /\ Range(accepted'[Origin(m)]) = Range(accepted[Origin(m)]) \cup {m}
         /\ Range(Broadcast'[Origin(m)]) = Range(Broadcast[Origin(m)]) \cup {m}
<1>1. /\ accepted'[Origin(m)] = Append(accepted[Origin(m)], m)
      /\ Broadcast'[Origin(m)] = Append(Broadcast[Origin(m)], m)
  BY SubmitEffect
<1>2. accepted[Origin(m)] \in Seq(Messages) /\ Broadcast[Origin(m)] \in Seq(Messages)
  BY Constants, Sequences
<1>3. \A q \in Seq(Messages) : Range(Append(q, m)) = Range(q) \cup {m}
  BY AppendRange
<1> QED
  BY <1>1, <1>2, <1>3

(* What was accepted stays accepted. *)
LEMMA AcceptedGrows ==
  ASSUME Typed, [Next]_vars, NEW m \in Messages, Accepted(m)
  PROVE  Accepted(m)'
<1>1. CASE UNCHANGED accepted
  BY <1>1 DEF Accepted
<1>2. ASSUME NEW n \in Messages, SubmitDanmaku(n)
      PROVE  Accepted(m)'
  <2>1. Range(accepted'[Origin(n)]) = Range(accepted[Origin(n)]) \cup {n}
    BY <1>2, SubmitRange
  <2>2. Origin(m) # Origin(n) => accepted'[Origin(m)] = accepted[Origin(m)]
    BY <1>2, SubmitEffect, Constants
  <2> QED
    BY <2>1, <2>2 DEF Accepted, Origin
<1> QED
  BY <1>1, <1>2
  DEF Next, vars, HandleBroadcast, Publish, CircuitOpen, Published,
      PublishFails, TakeBroadcastJob, BroadcastWorker, Register, Unregister,
      Receive, Subscribe, SubscriptionBreaks, SubscriptionEnds, CarryOut,
      ingress

LEMMA SubmitAccepts ==
  ASSUME Typed, NEW m \in Messages, SubmitDanmaku(m)
  PROVE  Accepted(m)' /\ ~Accepted(m)
<1> QED
  BY SubmitRange DEF Accepted, Origin, SubmitDanmaku

LEMMA InitProvenance ==
  ASSUME Init
  PROVE  Provenance
<1>1. AcceptedOnce
  BY DEF Init, AcceptedOnce
<1>2. Upstream
  BY EmptyRange, IdleAssumption DEF Init, Upstream, CallsFor
<1>3. Subscriptions
  <2>1. \A m : Hits(<<>>, {m}) = 0
    <3> TAKE m
    <3>1. {i \in DOMAIN <<>> : <<>>[i] \in {m}} = {}
      OBVIOUS
    <3> QED
      BY <3>1, FS_EmptySet DEF Hits
  <2>2. ASSUME NEW c \in Clients
        PROVE  phase[c] = "outside" => sub[c] = "none"
    BY DEF Init
  <2>3. ASSUME NEW c \in Clients, NEW m \in Messages
        PROVE  arrivals[m][c] = 0 /\ channel[c] = <<>>
    BY DEF Init
  <2> QED
    <3>1. \A c \in Clients, m \in Messages : Hits(channel[c], {m}) = 0
      BY <2>1, <2>3, Zenon
    <3>2. \A c \in Clients, m \in Messages : arrivals[m][c] = 0
      BY <2>3
    <3> QED
      BY <2>2, <3>1, <3>2 DEF Subscriptions
<1>4. Snapshots
  BY EmptyRange, IdleAssumption DEF Init, Snapshots, HasJob
<1>5. SeenPlaced
  BY EmptyRange DEF Init, SeenPlaced
<1>6. AudiencePlaced
  BY DEF Init, AudiencePlaced
<1> QED
  BY <1>1, <1>2, <1>3, <1>4, <1>5, <1>6 DEF Provenance

LEMMA AcceptedOnceStep ==
  ASSUME Typed, AcceptedOnce, [Next]_vars
  PROVE  AcceptedOnce'
<1>1. CASE UNCHANGED accepted
  BY <1>1 DEF AcceptedOnce, Origin
<1>2. ASSUME NEW m \in Messages, SubmitDanmaku(m)
      PROVE  AcceptedOnce'
  <2> DEFINE s == Origin(m)
  <2>1. s \in Servers /\ accepted[s] \in Seq(Messages)
    BY Constants, Sequences
  <2>2. /\ accepted'[s] = Append(accepted[s], m)
        /\ \A t \in Servers : t # s => accepted'[t] = accepted[t]
    BY <1>2, SubmitEffect
  <2>3. \A i \in 1..Len(accepted[s]) : accepted[s][i] # m
    BY <1>2, <2>1, InRange DEF SubmitDanmaku
  <2>4. Origin(m) = s
    OBVIOUS
  <2>5. /\ Len(accepted'[s]) = Len(accepted[s]) + 1 /\ Len(accepted[s]) \in Nat
        /\ \A i \in 1..Len(accepted[s]) : accepted'[s][i] = accepted[s][i]
        /\ accepted'[s][Len(accepted[s]) + 1] = m
    BY <2>1, <2>2, AppendProperties, LenProperties
  <2> HIDE DEF s
  <2>6. ASSUME NEW i \in 1..Len(accepted'[s])
        PROVE  /\ Origin(accepted'[s][i]) = s
               /\ \A j \in 1..Len(accepted'[s]) :
                    accepted'[s][i] = accepted'[s][j] => i = j
    <3>1. \A k \in 1..Len(accepted'[s]) :
            \/ /\ k \in 1..Len(accepted[s]) /\ accepted'[s][k] = accepted[s][k]
               /\ accepted'[s][k] # m
            \/ k = Len(accepted[s]) + 1 /\ accepted'[s][k] = m
      BY <2>3, <2>5
    <3>2. \A k \in 1..Len(accepted[s]) : Origin(accepted[s][k]) = s
      BY <2>1 DEF AcceptedOnce
    <3>3. \A k, j \in 1..Len(accepted[s]) : accepted[s][k] = accepted[s][j] => k = j
      BY <2>1 DEF AcceptedOnce
    <3>4. Origin(accepted'[s][i]) = s
      BY <2>4, <3>1, <3>2
    <3>5. ASSUME NEW j \in 1..Len(accepted'[s]), accepted'[s][i] = accepted'[s][j]
          PROVE  i = j
      BY <3>1, <3>3, <3>5
    <3> QED
      BY <3>4, <3>5
  <2> QED
    BY <2>1, <2>2, <2>6 DEF AcceptedOnce, Origin
<1> QED
  BY <1>1, <1>2
  DEF Next, vars, HandleBroadcast, Publish, CircuitOpen, Published,
      PublishFails, TakeBroadcastJob, BroadcastWorker, Register, Unregister,
      Receive, Subscribe, SubscriptionBreaks, SubscriptionEnds, CarryOut,
      ingress

LEMMA HandleRange ==
  ASSUME Typed, NEW s \in Servers, HandleBroadcast(s)
  PROVE  LET m == Head(Broadcast[s]) IN
         /\ Range(Broadcast[s]) = Range(Broadcast'[s]) \cup {m}
         /\ \/ UNCHANGED redisPublishJobs
            \/ Range(redisPublishJobs'[s]) = Range(redisPublishJobs[s]) \cup {m}
<1> DEFINE m == Head(Broadcast[s])
<1>1. /\ m \in Messages
      /\ Broadcast[s] # <<>> /\ Broadcast'[s] = Tail(Broadcast[s])
      /\ \/ redisPublishJobs'[s] = Append(redisPublishJobs[s], m)
         \/ UNCHANGED redisPublishJobs
  BY HandleEffect
<1>2. Range(Broadcast[s]) = Range(Broadcast'[s]) \cup {m}
  <2>1. \A q \in Seq(Messages) : q # <<>> => Range(q) = Range(Tail(q)) \cup {Head(q)}
    BY TailRange
  <2> QED
    BY <1>1, <2>1, Sequences
<1> HIDE DEF m
<1>3. \A q \in Seq(Messages) : Range(Append(q, m)) = Range(q) \cup {m}
  BY <1>1, AppendRange
<1>4. \/ UNCHANGED redisPublishJobs
      \/ Range(redisPublishJobs'[s]) = Range(redisPublishJobs[s]) \cup {m}
  BY <1>1, <1>3, Sequences
<1> QED
  BY <1>2, <1>4 DEF m

LEMMA TakePublishRange ==
  ASSUME Typed, NEW s \in Servers, NEW w \in 1..RedisWorkerCount[s],
         TakePublishJob(s, w)
  PROVE  Range(redisPublishJobs[s])
           = Range(redisPublishJobs'[s]) \cup {Head(redisPublishJobs[s])}
<1>1. /\ redisPublishJobs[s] # <<>>
      /\ redisPublishJobs'[s] = Tail(redisPublishJobs[s])
  BY TakePublishEffect
<1>2. \A q \in Seq(Messages) : q # <<>> => Range(q) = Range(Tail(q)) \cup {Head(q)}
  BY TailRange
<1> QED
  BY <1>1, <1>2, Sequences

LEMMA UpstreamStep ==
  ASSUME Typed, Upstream, [Next]_vars
  PROVE  Upstream'
<1>a. \A m \in Messages : Accepted(m) => Accepted(m)'
  BY AcceptedGrows
<1>o. \A m : Origin(m)' = Origin(m)
  BY DEF Origin
<1>f. \A m : CallsFor(m)' = CallsFor(m)
  BY DEF CallsFor
<1>1. ASSUME NEW n \in Messages, SubmitDanmaku(n)
      PROVE  Upstream'
  <2>1. /\ Range(Broadcast'[Origin(n)]) = Range(Broadcast[Origin(n)]) \cup {n}
        /\ \A t \in Servers : t # Origin(n) => Broadcast'[t] = Broadcast[t]
    BY <1>1, SubmitRange, SubmitEffect
  <2>2. Accepted(n)' /\ UNCHANGED <<redisPublishJobs, publishing, carried, wire, degraded>>
    BY <1>1, SubmitAccepts DEF SubmitDanmaku, redis, publish
  <2> QED
    BY <1>a, <1>o, <1>f, <2>1, <2>2 DEF Upstream
<1>2. ASSUME NEW s \in Servers, HandleBroadcast(s)
      PROVE  Upstream'
  <2> DEFINE n == Head(Broadcast[s])
  <2>1. /\ Range(Broadcast[s]) = Range(Broadcast'[s]) \cup {n}
        /\ \/ UNCHANGED redisPublishJobs
           \/ Range(redisPublishJobs'[s]) = Range(redisPublishJobs[s]) \cup {n}
        /\ n \in Messages
        /\ degraded' \subseteq degraded \cup {n}
        /\ \A t \in Servers : t # s =>
             /\ Broadcast'[t] = Broadcast[t]
             /\ redisPublishJobs'[t] = redisPublishJobs[t]
    BY <1>2, HandleRange, HandleEffect
  <2>2. UNCHANGED <<publishing, carried, wire>>
    BY <1>2 DEF HandleBroadcast, redis
  <2> HIDE DEF n
  <2>3. Accepted(n) /\ Origin(n) = s
    BY <2>1 DEF Upstream
  <2>4. ASSUME NEW m \in Messages, NEW t \in Servers,
               m \in Range(Broadcast'[t]) \cup Range(redisPublishJobs'[t])
        PROVE  m \in Range(Broadcast[t]) \cup Range(redisPublishJobs[t])
    BY <2>1, <2>4
  <2> QED
    BY <1>a, <1>o, <1>f, <2>1, <2>2, <2>3, <2>4 DEF Upstream
<1>3. ASSUME NEW s \in Servers, NEW w \in 1..RedisWorkerCount[s], Publish(s, w)
      PROVE  Upstream'
  <2> DEFINE n == Head(redisPublishJobs[s])
             call == [message |-> n, answer |-> FALSE]
  <2>1. /\ Range(redisPublishJobs[s]) = Range(redisPublishJobs'[s]) \cup {n}
        /\ publishing'[s] = [publishing[s] EXCEPT ![w] = call]
        /\ n \in Messages
        /\ \A t \in Servers : t # s =>
             /\ redisPublishJobs'[t] = redisPublishJobs[t]
             /\ publishing'[t] = publishing[t]
    BY <1>3, TakePublishRange, PublishEffect DEF Publish
  <2>2. UNCHANGED <<Broadcast, carried, degraded>> /\ wire' = wire \cup {n}
    BY <1>3 DEF Publish, ingress
  <2>3. call.message = n /\ ~call.answer
    OBVIOUS
  <2> HIDE DEF n, call
  <2>4. Accepted(n) /\ Origin(n) = s
    BY <2>1 DEF Upstream
  <2>5. ASSUME NEW m \in Messages, NEW t \in Servers,
               NEW v \in 1..RedisWorkerCount[t], publishing'[t][v] \in CallsFor(m)
        PROVE  \/ publishing'[t][v] = publishing[t][v]
               \/ t = s /\ m = n /\ ~publishing'[t][v].answer
    <3>1. publishing[s] \in [1..RedisWorkerCount[s] -> Call \cup {Idle}]
      BY DEF Typed, TypeOK
    <3> QED
      BY <2>1, <2>3, <2>5, <3>1 DEF CallsFor
  <2>6. ASSUME NEW m \in Messages, NEW t \in Servers,
               m \in Range(Broadcast'[t]) \cup Range(redisPublishJobs'[t])
        PROVE  m \in Range(Broadcast[t]) \cup Range(redisPublishJobs[t])
    BY <2>1, <2>2, <2>6
  <2> QED
    BY <1>a, <1>o, <1>f, <2>2, <2>4, <2>5, <2>6 DEF Upstream
<1>4. ASSUME NEW s \in Servers, NEW w \in 1..RedisWorkerCount[s], CircuitOpen(s, w)
      PROVE  Upstream'
  <2> DEFINE n == Head(redisPublishJobs[s])
  <2>1. /\ Range(redisPublishJobs[s]) = Range(redisPublishJobs'[s]) \cup {n}
        /\ n \in Messages
        /\ degraded' = degraded \cup {n}
        /\ \A t \in Servers : t # s => redisPublishJobs'[t] = redisPublishJobs[t]
    BY <1>4, TakePublishRange, CircuitOpenEffect DEF CircuitOpen
  <2>2. UNCHANGED <<Broadcast, carried, wire, publishing>>
    BY <1>4 DEF CircuitOpen, ingress, redis
  <2> HIDE DEF n
  <2>4. Accepted(n) /\ Origin(n) = s
    BY <2>1 DEF Upstream
  <2>6. ASSUME NEW m \in Messages, NEW t \in Servers,
               m \in Range(Broadcast'[t]) \cup Range(redisPublishJobs'[t])
        PROVE  m \in Range(Broadcast[t]) \cup Range(redisPublishJobs[t])
    BY <2>1, <2>2, <2>6
  <2> QED
    BY <1>a, <1>o, <1>f, <2>1, <2>2, <2>4, <2>6 DEF Upstream
<1>5. ASSUME NEW s \in Servers, NEW w \in 1..RedisWorkerCount[s],
             Published(s, w) \/ PublishFails(s, w)
      PROVE  Upstream'
  <2>1. /\ publishing[s][w] \in Call
        /\ publishing[s][w].message \in Messages
        /\ publishing'[s] = [publishing[s] EXCEPT ![w] = Idle]
        /\ \A t \in Servers : t # s => publishing'[t] = publishing[t]
    BY <1>5, CallEndsEffect DEF Published, PublishFails
  <2>2. /\ UNCHANGED <<Broadcast, redisPublishJobs, carried>>
        /\ wire' \subseteq wire
        /\ degraded' \subseteq degraded \cup {publishing[s][w].message}
    BY <1>5 DEF Published, PublishFails, FallBack, ingress, redis
  <2>3. Accepted(publishing[s][w].message)
    BY <2>1 DEF Upstream, CallsFor
  <2>5. ASSUME NEW m \in Messages, NEW t \in Servers,
               NEW v \in 1..RedisWorkerCount[t], publishing'[t][v] \in CallsFor(m)
        PROVE  publishing'[t][v] = publishing[t][v]
    <3>1. publishing[s] \in [1..RedisWorkerCount[s] -> Call \cup {Idle}]
      BY DEF Typed, TypeOK
    <3> QED
      BY <2>1, <2>5, <3>1, IdleAssumption DEF CallsFor
  <2> QED
    BY <1>a, <1>o, <1>f, <2>1, <2>2, <2>3, <2>5 DEF Upstream
<1>6. ASSUME NEW n \in Messages, CarryOut(n)
      PROVE  Upstream'
  <2>1. /\ n \in wire /\ wire' \subseteq wire
        /\ \A m \in Messages : m # n => carried'[m] = carried[m]
        /\ carried'[n] = carried[n] + 1
        /\ \A t \in Servers : \A v \in 1..RedisWorkerCount[t] :
             \/ publishing'[t][v] = publishing[t][v]
             \/ /\ publishing[t][v] \in Call /\ publishing'[t][v] \in Call
                /\ publishing[t][v].message = n /\ publishing'[t][v].message = n
    BY <1>6, CarryOutEffect
  <2>2. UNCHANGED <<Broadcast, redisPublishJobs, degraded>>
    BY <1>6 DEF CarryOut, ingress
  <2>3. carried[n] \in Nat
    BY DEF Typed, TypeOK
  <2>4. Accepted(n) /\ carried'[n] > 0
    BY <2>1, <2>3 DEF Upstream
  <2>5. ASSUME NEW m \in Messages, NEW t \in Servers,
               NEW v \in 1..RedisWorkerCount[t], publishing'[t][v] \in CallsFor(m)
        PROVE  /\ publishing[t][v] \in CallsFor(m)
               /\ m = n \/ publishing'[t][v] = publishing[t][v]
    BY <2>1, <2>5 DEF CallsFor
  <2>6. \A m \in Messages : carried'[m] > 0 => carried[m] > 0 \/ m = n
    BY <2>1
  <2>7. \A m \in Messages : carried[m] > 0 => carried'[m] > 0
    BY <2>1, <2>4
  <2>8. ASSUME NEW m \in Messages, NEW t \in Servers,
               NEW v \in 1..RedisWorkerCount[t], publishing'[t][v] \in CallsFor(m)
        PROVE  /\ Origin(m) = t /\ Accepted(m)
               /\ publishing'[t][v].answer => carried'[m] > 0
    BY <2>4, <2>5, <2>7, <2>8 DEF Upstream
  <2> QED
    BY <1>a, <1>o, <1>f, <2>1, <2>2, <2>4, <2>6, <2>8 DEF Upstream
<1>7. CASE UNCHANGED <<Broadcast, redisPublishJobs, publishing, carried, wire,
                       degraded>>
  BY <1>a, <1>o, <1>f, <1>7 DEF Upstream
<1> QED
  BY <1>1, <1>2, <1>3, <1>4, <1>5, <1>6, <1>7
  DEF Next, vars, TakeBroadcastJob, BroadcastWorker, Register, Unregister,
      Receive, Subscribe, SubscriptionBreaks, SubscriptionEnds, ingress,
      redis, publish

LEMMA SubscriptionsStep ==
  ASSUME Typed, Subscriptions, [Next]_vars
  PROVE  Subscriptions'
<1>r. \A m : Room(m)' = Room(m)
  BY DEF Room
<1>t. /\ arrivals \in [Messages -> [Clients -> Nat]] /\ carried \in [Messages -> Nat]
      /\ sub \in [Clients -> {"none", "connecting", "active", "cancelled", "ended"}]
      /\ phase \in [Clients -> {"outside", "inside", "left"}]
      /\ \A c \in Clients : channel[c] \in Seq(Messages)
      /\ \A c \in Clients, m \in Messages : Hits(channel[c], {m}) \in Nat
  BY Sequences, SequenceHits DEF Typed, TypeOK
<1>1. ASSUME NEW d \in Clients,
             \/ Register(d) \/ Unregister(d) \/ Subscribe(d)
             \/ SubscriptionBreaks(d)
      PROVE  Subscriptions'
  <2>1. UNCHANGED <<channel, arrivals, carried>>
    BY <1>1 DEF Register, Unregister, Subscribe, SubscriptionBreaks, redis
  <2>2. \A c \in Clients : sub[c] # "none" => sub'[c] # "none"
    BY <1>1, <1>t DEF Register, Unregister, Subscribe, SubscriptionBreaks
  <2>3. \A c \in Clients : sub'[c] # "none" => sub[c] # "none" \/ c = d
    BY <1>1, <1>t DEF Register, Unregister, Subscribe, SubscriptionBreaks, Current
  <2>4. \A c \in Clients : phase'[c] = "outside" => phase[c] = "outside"
    BY <1>1, <1>t DEF Register, Unregister, Subscribe, SubscriptionBreaks
  <2>5. phase'[d] = "outside" => sub'[d] = "none"
    <3>1. CASE Register(d) \/ Unregister(d)
      BY <1>t, <3>1 DEF Register, Unregister
    <3>2. CASE Subscribe(d) \/ SubscriptionBreaks(d)
      <4>1. phase' = phase /\ sub[d] # "none"
        BY <3>2 DEF Subscribe, SubscriptionBreaks
      <4> QED
        BY <4>1 DEF Subscriptions
    <3> QED
      BY <1>1, <3>1, <3>2
  <2>6. \A c \in Clients, m \in Messages : Hits(channel[c], {m})' = Hits(channel[c], {m})
    BY <2>1 DEF Hits
  <2> QED
    BY <1>r, <2>1, <2>2, <2>3, <2>4, <2>5, <2>6 DEF Subscriptions
<1>2. ASSUME NEW d \in Clients, SubscriptionEnds(d)
      PROVE  Subscriptions'
  <2>1. /\ UNCHANGED <<phase, arrivals, carried>>
        /\ sub[d] = "cancelled" /\ sub' = [sub EXCEPT ![d] = "ended"]
        /\ channel' = [channel EXCEPT ![d] = <<>>]
    BY <1>2 DEF SubscriptionEnds
  <2>2. \A c \in Clients : /\ sub[c] # "none" => sub'[c] # "none"
                           /\ sub[c] = "none" => sub'[c] = "none"
    BY <1>t, <2>1
  <2>c. channel \in [Clients -> Seq(Messages)]
    BY DEF Typed, TypeOK
  <2>3. \A c \in Clients, m \in Messages :
          Hits(channel'[c], {m}) <= Hits(channel[c], {m})
    <3> TAKE c \in Clients, m \in Messages
    <3>n. Hits(channel[c], {m}) \in Nat
      BY Sequences, SequenceHits
    <3>1. CASE c # d
      <4>1. channel'[c] = channel[c]
        BY <2>1, <2>c, <3>1
      <4> QED
        BY <3>n, <4>1
    <3>2. CASE c = d
      <4>1. channel'[c] = <<>>
        BY <2>1, <2>c, <3>2
      <4>2. {i \in DOMAIN <<>> : <<>>[i] \in {m}} = {}
        OBVIOUS
      <4>3. Hits(<<>>, {m}) = 0
        BY <4>2, FS_EmptySet DEF Hits
      <4>4. Hits(channel'[c], {m}) = 0
        BY <4>1, <4>3, Zenon
      <4> QED
        BY <3>n, <4>4
    <3> QED
      BY <3>1, <3>2
  <2>4. \A c \in Clients, m \in Messages :
          Hits(channel'[c], {m}) <= arrivals'[m][c]
    <3> TAKE c \in Clients, m \in Messages
    <3>1. /\ Hits(channel'[c], {m}) <= Hits(channel[c], {m})
          /\ Hits(channel[c], {m}) <= arrivals[m][c]
      BY <2>3 DEF Subscriptions
    <3>2. channel'[c] \in Seq(Messages)
      BY <1>2, RoomTyped, Sequences DEF Typed, TypeOK
    <3>3. Hits(channel'[c], {m}) \in Nat
      BY <3>2, SequenceHits
    <3>4. arrivals'[m][c] = arrivals[m][c] /\ arrivals[m][c] \in Nat
      BY <2>1 DEF Typed, TypeOK
    <3>5. Hits(channel[c], {m}) \in Nat
      BY Sequences, SequenceHits
    <3> QED
      BY <3>1, <3>3, <3>4, <3>5
  <2> QED
    BY <1>r, <2>1, <2>2, <2>4 DEF Subscriptions, Hits
<1>3. ASSUME NEW d \in Clients, Receive(d)
      PROVE  Subscriptions'
  <2>1. /\ UNCHANGED <<phase, sub, arrivals, carried>>
        /\ channel[d] # <<>>
        /\ channel' = [channel EXCEPT ![d] = Tail(@)]
    BY <1>3 DEF Receive, members
  <2>c. channel \in [Clients -> Seq(Messages)]
    BY DEF Typed, TypeOK
  <2>2. \A c \in Clients, m \in Messages :
          Hits(channel'[c], {m}) <= arrivals'[m][c]
    <3> TAKE c \in Clients, m \in Messages
    <3>0. arrivals' = arrivals /\ Hits(channel[c], {m}) <= arrivals[m][c]
      BY <2>1 DEF Subscriptions
    <3>1. CASE c # d
      <4>1. channel'[c] = channel[c]
        BY <2>1, <2>c, <3>1
      <4> QED
        BY <3>0, <4>1
    <3>2. CASE c = d
      <4>1. channel'[c] = Tail(channel[c]) /\ channel[c] # <<>>
        BY <2>1, <2>c, <3>2
      <4>2. Hits(channel[c], {m})
              = Hits(Tail(channel[c]), {m}) + (IF Head(channel[c]) \in {m} THEN 1 ELSE 0)
        BY <1>t, <4>1, TailHits
      <4>3. Tail(channel[c]) \in Seq(Messages)
        BY <1>t, <4>1, HeadTailProperties
      <4>4. Hits(Tail(channel[c]), {m}) \in Nat
        BY <4>3, SequenceHits
      <4>5. Hits(channel'[c], {m}) = Hits(Tail(channel[c]), {m})
        BY <4>1
      <4> HIDE <4>1
      <4> QED
        BY <1>t, <3>0, <4>2, <4>4, <4>5
    <3> QED
      BY <3>1, <3>2
  <2> QED
    BY <1>r, <2>1, <2>2 DEF Subscriptions, Hits
<1>4. ASSUME NEW n \in Messages, CarryOut(n)
      PROVE  Subscriptions'
  <2>1. /\ \A c \in Clients :
             IF Subscribed(c, n)
             THEN /\ channel'[c] = Append(channel[c], n)
                  /\ arrivals'[n][c] = arrivals[n][c] + 1
             ELSE /\ channel'[c] = channel[c]
                  /\ arrivals'[n][c] = arrivals[n][c]
        /\ \A m \in Messages : m # n =>
             arrivals'[m] = arrivals[m] /\ carried'[m] = carried[m]
        /\ carried'[n] = carried[n] + 1
    BY <1>4, CarryOutEffect
  <2>2. UNCHANGED <<phase, sub>>
    BY <1>4 DEF CarryOut, members
  <2>3. ASSUME NEW c \in Clients, NEW m \in Messages
        PROVE  /\ Hits(channel'[c], {m}) <= arrivals'[m][c]
               /\ arrivals'[m][c] > 0 =>
                    carried'[m] > 0 /\ RoomOf[c] = Room(m) /\ sub[c] # "none"
    <3>0. /\ Hits(channel[c], {m}) <= arrivals[m][c]
          /\ arrivals[m][c] > 0 =>
               carried[m] > 0 /\ RoomOf[c] = Room(m) /\ sub[c] # "none"
          /\ Hits(channel[c], {m}) \in Nat /\ arrivals[m][c] \in Nat
          /\ carried[m] \in Nat
      BY <1>t DEF Subscriptions
    <3>1. CASE Subscribed(c, n)
      <4>1. Hits(channel'[c], {m})
              = Hits(channel[c], {m}) + (IF n \in {m} THEN 1 ELSE 0)
        <5>1. Hits(Append(channel[c], n), {m})
                = Hits(channel[c], {m}) + (IF n \in {m} THEN 1 ELSE 0)
          BY <1>t, AppendHits
        <5> QED
          BY <2>1, <3>1, <5>1
      <4>2. RoomOf[c] = Room(n) /\ sub[c] # "none"
        BY <3>1 DEF Subscribed
      <4>3. CASE m = n
        BY <2>1, <3>0, <3>1, <4>1, <4>2, <4>3
      <4>4. CASE m # n
        BY <2>1, <3>0, <3>1, <4>1, <4>2, <4>4
      <4> QED
        BY <4>3, <4>4
    <3>2. CASE ~Subscribed(c, n)
      <4>1. channel'[c] = channel[c] /\ arrivals'[m][c] = arrivals[m][c]
        BY <2>1, <3>2
      <4>2. carried'[m] >= carried[m]
        BY <2>1, <3>0
      <4>3. carried'[m] \in Nat
        BY <2>1, <3>0
      <4> QED
        BY <3>0, <4>1, <4>2, <4>3
    <3> QED
      BY <3>1, <3>2
  <2> QED
    BY <1>r, <2>2, <2>3 DEF Subscriptions, Hits
<1>5. CASE UNCHANGED <<members, channel, arrivals, carried>>
  BY <1>r, <1>5 DEF Subscriptions, Hits, members
<1> QED
  BY <1>1, <1>2, <1>3, <1>4, <1>5
  DEF Next, vars, HandleBroadcast, Publish, CircuitOpen, Published,
      PublishFails, TakeBroadcastJob, BroadcastWorker, SubmitDanmaku, redis

(* A local broadcast adds at most one job, for the members of the room on  *)
(* that server, and if it adds none, it says so in lost.                   *)
LEMMA EnqueueEffect ==
  ASSUME Typed, NEW s \in Servers, NEW r, NEW m \in Messages,
         EnqueueLocalBroadcast(s, r, m)
  PROVE  LET job == [message |-> m, clients |-> Members(s, r)] IN
         /\ job \in Job
         /\ lost \subseteq lost'
         /\ \A t \in Servers : t # s => broadcastJobs'[t] = broadcastJobs[t]
         /\ \/ broadcastJobs'[s] = Append(broadcastJobs[s], job)
            \/ /\ broadcastJobs'[s] = broadcastJobs[s]
               /\ Members(s, r) = {} \/ <<m, s>> \in lost'
<1> DEFINE job == [message |-> m, clients |-> Members(s, r)]
<1>1. job \in Job
  BY Snapshot
<1>t. broadcastJobs \in [Servers -> Seq(Job)]
  BY DEF Typed, TypeOK
<1>2. CASE Members(s, r) = {} /\ UNCHANGED locals
  BY <1>1, <1>2 DEF locals
<1>3. CASE /\ broadcastJobs' = [broadcastJobs EXCEPT ![s] = Append(@, job)]
           /\ UNCHANGED lost
  <2> HIDE DEF job
  <2>1. /\ broadcastJobs'[s] = Append(broadcastJobs[s], job)
        /\ \A t \in Servers : t # s => broadcastJobs'[t] = broadcastJobs[t]
    BY <1>t, <1>3
  <2> QED
    BY <1>1, <1>3, <2>1 DEF job
<1>4. CASE lost' = lost \cup {<<m, s>>} /\ UNCHANGED broadcastJobs
  BY <1>1, <1>4
<1> QED
  BY <1>2, <1>3, <1>4 DEF EnqueueLocalBroadcast

LEMMA EnqueueRange ==
  ASSUME Typed, NEW s \in Servers, NEW r, NEW m \in Messages,
         EnqueueLocalBroadcast(s, r, m)
  PROVE  LET job == [message |-> m, clients |-> Members(s, r)] IN
         /\ \A t \in Servers :
              /\ Range(broadcastJobs[t]) \subseteq Range(broadcastJobs'[t])
              /\ Range(broadcastJobs'[t]) \subseteq Range(broadcastJobs[t])
                                                    \cup (IF t = s THEN {job} ELSE {})
         /\ \/ job \in Range(broadcastJobs'[s])
            \/ Members(s, r) = {} \/ <<m, s>> \in lost'
<1> DEFINE job == [message |-> m, clients |-> Members(s, r)]
<1>1. /\ job \in Job
      /\ \A t \in Servers : t # s => broadcastJobs'[t] = broadcastJobs[t]
      /\ \/ broadcastJobs'[s] = Append(broadcastJobs[s], job)
         \/ /\ broadcastJobs'[s] = broadcastJobs[s]
            /\ Members(s, r) = {} \/ <<m, s>> \in lost'
  BY EnqueueEffect
<1> HIDE DEF job
<1>2. Range(Append(broadcastJobs[s], job)) = Range(broadcastJobs[s]) \cup {job}
  <2>1. \A q \in Seq(Job) : Range(Append(q, job)) = Range(q) \cup {job}
    BY <1>1, AppendRange
  <2> QED
    BY <2>1, Sequences
<1>3. /\ \A t \in Servers :
           /\ Range(broadcastJobs[t]) \subseteq Range(broadcastJobs'[t])
           /\ Range(broadcastJobs'[t]) \subseteq Range(broadcastJobs[t])
                                                 \cup (IF t = s THEN {job} ELSE {})
      /\ \/ job \in Range(broadcastJobs'[s])
         \/ Members(s, r) = {} \/ <<m, s>> \in lost'
  BY <1>1, <1>2
<1> QED
  BY <1>3 DEF job

LEMMA SnapshotsKept ==
  ASSUME Typed, Snapshots, [Next]_vars,
         \A t \in Servers, j \in Job :
           HasJob(t, j)' => \/ HasJob(t, j)
                            \/ JobPlaced(t, j) /\ Accepted(j.message)
  PROVE  Snapshots'
<1>1. \A j \in Job : Accepted(j.message) => Accepted(j.message)'
  BY AcceptedGrows DEF Job
<1>2. \A t, j : JobPlaced(t, j)' <=> JobPlaced(t, j)
  BY DEF JobPlaced, Room
<1> QED
  BY <1>1, <1>2 DEF Snapshots

(* The snapshot a local broadcast of an accepted message leaves behind.    *)
LEMMA EnqueuePlaced ==
  ASSUME Typed, Snapshots, [Next]_vars,
         NEW s \in Servers, NEW m \in Messages, NEW r, r = Room(m), Accepted(m),
         EnqueueLocalBroadcast(s, r, m), UNCHANGED broadcasting
  PROVE  Snapshots'
<1> DEFINE job == [message |-> m, clients |-> Members(s, r)]
<1>1. JobPlaced(s, job) /\ Accepted(job.message)
  BY DEF Members, JobPlaced
<1>2. \A t \in Servers :
        Range(broadcastJobs'[t]) \subseteq Range(broadcastJobs[t])
                                           \cup (IF t = s THEN {job} ELSE {})
  BY EnqueueRange
<1> HIDE DEF job
<1> QED
  BY <1>1, <1>2, SnapshotsKept DEF HasJob

LEMMA ReceiveArrived ==
  ASSUME Typed, Upstream, Subscriptions, NEW d \in Clients, Receive(d)
  PROVE  LET m == Head(channel[d]) IN
         /\ m \in Messages /\ arrivals[m][d] > 0
         /\ Accepted(m) /\ RoomOf[d] = Room(m)
         /\ EnqueueLocalBroadcast(Home[d], RoomOf[d], m)
         /\ Home[d] \in Servers
<1> DEFINE m == Head(channel[d])
<1>1. /\ m \in Messages
      /\ channel[d] # <<>> /\ channel[d] \in Seq(Messages)
      /\ EnqueueLocalBroadcast(Home[d], RoomOf[d], m)
      /\ Home[d] \in Servers
  BY ReceiveTyped, Constants DEF Receive
<1>2. Hits(channel[d], {m}) = Hits(Tail(channel[d]), {m}) + 1
  BY <1>1, TailHits
<1>3. Hits(Tail(channel[d]), {m}) \in Nat
  BY <1>1, HeadTailProperties, SequenceHits
<1>4. Hits(channel[d], {m}) <= arrivals[m][d] /\ arrivals[m][d] \in Nat
  BY <1>1 DEF Subscriptions, Typed, TypeOK
<1> HIDE DEF m
<1>5. arrivals[m][d] > 0
  BY <1>2, <1>3, <1>4
<1>6. Accepted(m) /\ RoomOf[d] = Room(m)
  BY <1>1, <1>5 DEF Subscriptions, Upstream
<1> QED
  BY <1>1, <1>5, <1>6 DEF m

LEMMA SnapshotsStep ==
  ASSUME Typed, Upstream, Subscriptions, Snapshots, [Next]_vars
  PROVE  Snapshots'
<1>1. ASSUME NEW s \in Servers, HandleBroadcast(s)
      PROVE  Snapshots'
  <2> DEFINE m == Head(Broadcast[s])
  <2>1. /\ m \in Messages /\ m \in Range(Broadcast[s])
        /\ \/ UNCHANGED broadcastJobs
           \/ EnqueueLocalBroadcast(s, Room(m), m)
    BY <1>1, HandleEffect, HandleRange
  <2>2. UNCHANGED broadcasting
    BY <1>1 DEF HandleBroadcast, workers
  <2> HIDE DEF m
  <2>3. Accepted(m)
    BY <2>1 DEF Upstream
  <2>4. CASE UNCHANGED broadcastJobs
    BY <2>2, <2>4, SnapshotsKept DEF HasJob
  <2>5. CASE EnqueueLocalBroadcast(s, Room(m), m)
    BY <2>1, <2>2, <2>3, <2>5, EnqueuePlaced
  <2> QED
    BY <2>1, <2>4, <2>5
<1>2. ASSUME NEW s \in Servers, NEW w \in 1..RedisWorkerCount[s], CircuitOpen(s, w)
      PROVE  Snapshots'
  <2> DEFINE m == Head(redisPublishJobs[s])
  <2>1. /\ m \in Messages /\ m \in Range(redisPublishJobs[s])
        /\ EnqueueLocalBroadcast(s, Room(m), m)
    BY <1>2, CircuitOpenEffect, TakePublishRange DEF CircuitOpen
  <2>2. UNCHANGED broadcasting
    BY <1>2 DEF CircuitOpen, workers
  <2> HIDE DEF m
  <2>3. Accepted(m)
    BY <2>1 DEF Upstream
  <2> QED
    BY <2>1, <2>2, <2>3, EnqueuePlaced
<1>3. ASSUME NEW s \in Servers, NEW w \in 1..RedisWorkerCount[s], PublishFails(s, w)
      PROVE  Snapshots'
  <2> DEFINE m == publishing[s][w].message
  <2>1. /\ m \in Messages /\ publishing[s][w] \in CallsFor(m)
        /\ EnqueueLocalBroadcast(s, Room(m), m)
    BY <1>3, PublishFailsEffect DEF CallsFor
  <2>2. UNCHANGED broadcasting
    BY <1>3 DEF PublishFails, workers
  <2> HIDE DEF m
  <2>3. Accepted(m)
    BY <2>1 DEF Upstream
  <2> QED
    BY <2>1, <2>2, <2>3, EnqueuePlaced
<1>4. ASSUME NEW d \in Clients, Receive(d)
      PROVE  Snapshots'
  <2> DEFINE m == Head(channel[d])
  <2>1. /\ m \in Messages /\ Accepted(m) /\ RoomOf[d] = Room(m)
        /\ EnqueueLocalBroadcast(Home[d], RoomOf[d], m)
        /\ Home[d] \in Servers
    BY <1>4, ReceiveArrived
  <2>2. UNCHANGED broadcasting
    BY <1>4 DEF Receive, workers
  <2> HIDE DEF m
  <2> QED
    BY <2>1, <2>2, EnqueuePlaced
<1>5. ASSUME NEW s \in Servers, NEW w \in 1..WorkerCount[s], TakeBroadcastJob(s, w)
      PROVE  Snapshots'
  <2>1. /\ broadcastJobs[s] \in Seq(Job) /\ broadcastJobs[s] # <<>>
        /\ broadcastJobs'[s] = Tail(broadcastJobs[s])
        /\ broadcasting'[s] = [broadcasting[s] EXCEPT ![w] = Head(broadcastJobs[s])]
        /\ \A t \in Servers : t # s =>
             /\ broadcastJobs'[t] = broadcastJobs[t]
             /\ broadcasting'[t] = broadcasting[t]
    BY <1>5, TakeJobEffect
  <2>2. Range(broadcastJobs[s])
          = Range(broadcastJobs'[s]) \cup {Head(broadcastJobs[s])}
    <3>1. \A q \in Seq(Job) : q # <<>> => Range(q) = Range(Tail(q)) \cup {Head(q)}
      BY TailRange
    <3> QED
      BY <2>1, <3>1
  <2>3. broadcasting[s] \in [1..WorkerCount[s] -> Job \cup {Idle}]
    BY DEF Typed, TypeOK
  <2>4. ASSUME NEW t \in Servers, NEW j \in Job, HasJob(t, j)'
        PROVE  HasJob(t, j)
    <3>1. CASE t # s
      BY <2>1, <2>4, <3>1 DEF HasJob
    <3>2. CASE t = s /\ j \in Range(broadcastJobs'[s])
      BY <2>2, <3>2 DEF HasJob
    <3>3. CASE t = s /\ \E v \in 1..WorkerCount[s] : broadcasting'[s][v] = j
      <4>1. PICK v \in 1..WorkerCount[s] : broadcasting'[s][v] = j
        BY <3>3
      <4>2. broadcasting[s][v] = j \/ j = Head(broadcastJobs[s])
        BY <2>1, <2>3, <4>1
      <4> QED
        BY <2>2, <3>3, <4>2 DEF HasJob
    <3> QED
      BY <2>4, <3>1, <3>2, <3>3 DEF HasJob
  <2> QED
    BY <2>4, SnapshotsKept
<1>6. ASSUME NEW s \in Servers, NEW w \in 1..WorkerCount[s], BroadcastWorker(s, w)
      PROVE  Snapshots'
  <2>1. /\ broadcasting'[s] = [broadcasting[s] EXCEPT ![w] = Idle]
        /\ \A t \in Servers : t # s => broadcasting'[t] = broadcasting[t]
        /\ UNCHANGED broadcastJobs
    BY <1>6, BroadcastEffect DEF BroadcastWorker
  <2>3. broadcasting[s] \in [1..WorkerCount[s] -> Job \cup {Idle}]
    BY DEF Typed, TypeOK
  <2>4. \A t \in Servers, j \in Job : HasJob(t, j)' => HasJob(t, j)
    BY <2>1, <2>3, IdleAssumption DEF HasJob
  <2> QED
    BY <2>4, SnapshotsKept
<1>7. CASE UNCHANGED <<broadcastJobs, broadcasting>>
  BY <1>7, SnapshotsKept DEF HasJob
<1> QED
  BY <1>1, <1>2, <1>3, <1>4, <1>5, <1>6, <1>7
  DEF Next, vars, Publish, Published, Register, Unregister, Subscribe,
      SubscriptionBreaks, SubscriptionEnds, SubmitDanmaku, CarryOut, locals,
      workers

(* What a broadcast worker hands to a client comes from its job.           *)
LEMMA BroadcastRange ==
  ASSUME Typed, NEW s \in Servers, NEW w \in 1..WorkerCount[s],
         BroadcastWorker(s, w)
  PROVE  LET job == broadcasting[s][w] IN
         \A c \in Clients :
           \/ /\ c \in job.clients
              /\ Range(seen'[c]) = Range(seen[c]) \cup {job.message}
           \/ /\ c \in job.clients => <<job.message, c>> \in lost'
              /\ seen'[c] = seen[c]
<1> DEFINE job == broadcasting[s][w]
<1>1. /\ job \in Job
      /\ \A c \in Clients :
           \/ /\ c \in job.clients
              /\ seen'[c] = Append(seen[c], job.message)
           \/ /\ c \in job.clients => <<job.message, c>> \in lost'
              /\ seen'[c] = seen[c]
  BY BroadcastEffect
<1> HIDE DEF job
<1>2. job.message \in Messages
  BY <1>1 DEF Job
<1>3. \A q \in Seq(Messages) :
        Range(Append(q, job.message)) = Range(q) \cup {job.message}
  BY <1>2, AppendRange
<1>4. \A c \in Clients : seen[c] \in Seq(Messages)
  BY Sequences
<1>5. \A c \in Clients :
        \/ /\ c \in job.clients
           /\ Range(seen'[c]) = Range(seen[c]) \cup {job.message}
        \/ /\ c \in job.clients => <<job.message, c>> \in lost'
           /\ seen'[c] = seen[c]
  BY <1>1, <1>3, <1>4
<1> QED
  BY <1>5 DEF job

LEMMA SeenPlacedStep ==
  ASSUME Typed, Snapshots, SeenPlaced, [Next]_vars
  PROVE  SeenPlaced'
<1>a. \A m \in Messages : Accepted(m) => Accepted(m)'
  BY AcceptedGrows
<1>r. \A m : Room(m)' = Room(m)
  BY DEF Room
<1>1. ASSUME NEW s \in Servers, NEW w \in 1..WorkerCount[s], BroadcastWorker(s, w)
      PROVE  SeenPlaced'
  <2> DEFINE job == broadcasting[s][w]
  <2>1. /\ job \in Job
        /\ \A c \in Clients :
             \/ /\ c \in job.clients
                /\ Range(seen'[c]) = Range(seen[c]) \cup {job.message}
             \/ seen'[c] = seen[c]
    <3>1. job \in Job
      BY <1>1, BroadcastEffect
    <3>2. \A c \in Clients :
            \/ /\ c \in job.clients
               /\ Range(seen'[c]) = Range(seen[c]) \cup {job.message}
            \/ seen'[c] = seen[c]
      BY <1>1, BroadcastRange
    <3> QED
      BY <3>1, <3>2
  <2>2. HasJob(s, job)
    BY DEF HasJob
  <2> HIDE DEF job
  <2>3. /\ Accepted(job.message) /\ job.message \in Messages
        /\ \A c \in job.clients : RoomOf[c] = Room(job.message)
    BY <2>1, <2>2 DEF Snapshots, JobPlaced, Job
  <2> QED
    BY <1>a, <1>r, <2>1, <2>3 DEF SeenPlaced
<1>2. CASE UNCHANGED seen
  BY <1>a, <1>r, <1>2 DEF SeenPlaced
<1> QED
  BY <1>1, <1>2
  DEF Next, vars, HandleBroadcast, Publish, CircuitOpen, Published,
      PublishFails, TakeBroadcastJob, Register, Unregister, Receive,
      Subscribe, SubscriptionBreaks, SubscriptionEnds, SubmitDanmaku,
      CarryOut, workers

LEMMA AudiencePlacedStep ==
  ASSUME Typed, AudiencePlaced, [Next]_vars
  PROVE  AudiencePlaced'
<1>a. \A m \in Messages : Accepted(m) => Accepted(m)'
  BY AcceptedGrows
<1>r. \A m : Room(m)' = Room(m)
  BY DEF Room
<1>t. /\ phase \in [Clients -> {"outside", "inside", "left"}]
      /\ audience \in [Messages -> SUBSET Clients]
  BY DEF Typed, TypeOK
<1>1. ASSUME NEW d \in Clients, Register(d) \/ Unregister(d)
      PROVE  AudiencePlaced'
  <2>1. /\ UNCHANGED audience
        /\ \A c \in Clients : phase'[c] = "outside" => phase[c] = "outside"
    BY <1>1, <1>t DEF Register, Unregister, ingress
  <2> QED
    BY <1>a, <1>r, <1>t, <2>1 DEF AudiencePlaced
<1>2. ASSUME NEW m \in Messages, SubmitDanmaku(m)
      PROVE  AudiencePlaced'
  <2>1. /\ audience'[m] = {c \in Clients : phase[c] = "inside" /\ RoomOf[c] = Room(m)}
        /\ \A n \in Messages : n # m => audience'[n] = audience[n]
        /\ UNCHANGED phase
    BY <1>2, <1>t DEF SubmitDanmaku, members
  <2>2. Accepted(m)'
    BY <1>2, SubmitAccepts
  <2> QED
    BY <1>a, <1>r, <1>t, <2>1, <2>2 DEF AudiencePlaced
<1>3. CASE UNCHANGED <<phase, audience>>
  BY <1>a, <1>r, <1>t, <1>3 DEF AudiencePlaced
<1> QED
  BY <1>1, <1>2, <1>3
  DEF Next, vars, HandleBroadcast, Publish, CircuitOpen, Published,
      PublishFails, TakeBroadcastJob, BroadcastWorker, Receive, Subscribe,
      SubscriptionBreaks, SubscriptionEnds, CarryOut, members, ingress

LEMMA ProvenanceStep ==
  ASSUME Typed, Provenance, [Next]_vars
  PROVE  Provenance'
BY AcceptedOnceStep, UpstreamStep, SubscriptionsStep, SnapshotsStep,
   SeenPlacedStep, AudiencePlacedStep
DEF Provenance
-----------------------------------------------------------------------------
(* How often *)

(* A message is on its way to Redis at most once, and once it has been     *)
(* handed to the server's own clients it is no longer on that way.         *)
UnderWay(m) ==
  Hits(Broadcast[Origin(m)], {m}) + Hits(redisPublishJobs[Origin(m)], {m})
    + Hits(publishing[Origin(m)], CallsFor(m))
    + (IF m \in degraded THEN 1 ELSE 0)

OneCopy == \A m \in Messages : UnderWay(m) <= 1

(* Numbered entries of the subscriptions of c's room on c's server. *)
Numbered(c, f) ==
  UNION {{d} \X (1..f[d]) : d \in {e \in Clients : Same(c, e)}}

(* The arrivals that have left the channels of their subscriptions. *)
Left(m) == [d \in Clients |-> arrivals[m][d] - Hits(channel[d], {m})]
Gone(c, m) == Numbered(c, Left(m))

(* The copies of m that c has seen or that are under way to it. *)
CopiesFor(c, m) ==
  Hits(seen[c], {m}) + Hits(broadcastJobs[Home[c]], JobsFor(m, c))
    + Hits(broadcasting[Home[c]], JobsFor(m, c))

(* The copy a fallback makes. *)
Extra(c, m) == IF m \in degraded /\ Home[c] = Origin(m) THEN 1 ELSE 0

Copies ==
  \A c \in Clients, m \in Messages :
    CopiesFor(c, m) <= Cardinality(Gone(c, m)) + Extra(c, m)

LEMMA HitsAreNatural ==
  ASSUME Typed, NEW T
  PROVE  /\ \A s \in Servers :
              /\ Hits(Broadcast[s], T) \in Nat
              /\ Hits(redisPublishJobs[s], T) \in Nat
              /\ Hits(broadcastJobs[s], T) \in Nat
              /\ Hits(publishing[s], T) \in Nat
              /\ Hits(broadcasting[s], T) \in Nat
         /\ \A c \in Clients :
              Hits(seen[c], T) \in Nat /\ Hits(channel[c], T) \in Nat
<1>1. \A s \in Servers :
        /\ Hits(Broadcast[s], T) \in Nat
        /\ Hits(redisPublishJobs[s], T) \in Nat
        /\ Hits(broadcastJobs[s], T) \in Nat
  BY Sequences, SequenceHits
<1>2. ASSUME NEW s \in Servers
      PROVE  Hits(publishing[s], T) \in Nat /\ Hits(broadcasting[s], T) \in Nat
  <2>1. /\ publishing[s] \in [1..RedisWorkerCount[s] -> Call \cup {Idle}]
        /\ broadcasting[s] \in [1..WorkerCount[s] -> Job \cup {Idle}]
    BY DEF Typed, TypeOK
  <2>2. RedisWorkerCount[s] \in Nat /\ WorkerCount[s] \in Nat
    BY Constants
  <2> QED
    BY <2>1, <2>2, WorkerHits
<1>3. \A c \in Clients : Hits(seen[c], T) \in Nat /\ Hits(channel[c], T) \in Nat
  BY Sequences, SequenceHits
<1> QED
  BY <1>1, <1>2, <1>3

LEMMA UnderWayIsNatural ==
  ASSUME Typed, NEW m \in Messages
  PROVE  UnderWay(m) \in Nat
<1> DEFINE s == Origin(m)
<1>1. s \in Servers
  BY Constants
<1> HIDE DEF s
<1>2. /\ Hits(Broadcast[s], {m}) \in Nat
      /\ Hits(redisPublishJobs[s], {m}) \in Nat
  BY <1>1, HitsAreNatural
<1>3. Hits(publishing[s], CallsFor(m)) \in Nat
  BY <1>1, HitsAreNatural
<1> QED
  BY <1>2, <1>3 DEF UnderWay, s

(* A server's queues and calls say nothing of the messages of another one. *)
LEMMA UnderWayElsewhere ==
  ASSUME Typed, NEW s \in Servers, NEW m \in Messages, Origin(m) # s,
         \A t \in Servers : t # s =>
           /\ Broadcast'[t] = Broadcast[t]
           /\ redisPublishJobs'[t] = redisPublishJobs[t]
           /\ publishing'[t] = publishing[t],
         m \in degraded' <=> m \in degraded
  PROVE  UnderWay(m)' = UnderWay(m)
<1>1. Origin(m) \in Servers /\ Origin(m)' = Origin(m) /\ CallsFor(m)' = CallsFor(m)
  BY Constants DEF Origin, CallsFor
<1>2. /\ Broadcast'[Origin(m)] = Broadcast[Origin(m)]
      /\ redisPublishJobs'[Origin(m)] = redisPublishJobs[Origin(m)]
      /\ publishing'[Origin(m)] = publishing[Origin(m)]
  BY <1>1
<1> QED
  BY <1>1, <1>2 DEF UnderWay, Hits

LEMMA UnderWayAtRest ==
  ASSUME Typed, Upstream, NEW m \in Messages, ~Accepted(m)
  PROVE  UnderWay(m) = 0
<1> DEFINE s == Origin(m)
<1>s. s \in Servers
  BY Constants
<1>1. m \notin Range(Broadcast[s]) /\ m \notin Range(redisPublishJobs[s])
      /\ m \notin degraded
  BY <1>s DEF Upstream
<1>2. \A w \in 1..RedisWorkerCount[s] : publishing[s][w] \notin CallsFor(m)
  BY <1>s DEF Upstream
<1>3. Broadcast[s] \in Seq(Messages) /\ redisPublishJobs[s] \in Seq(Messages)
  BY <1>s, Sequences
<1>4. \A q \in Seq(Messages) : m \notin Range(q) => Hits(q, {m}) = 0
  <2> TAKE q \in Seq(Messages)
  <2>1. Hits(q, {m}) \in Nat
        /\ (Hits(q, {m}) > 0 <=> \E i \in 1..Len(q) : q[i] \in {m})
    BY SequenceHits
  <2>2. m \in Range(q) <=> \E i \in 1..Len(q) : q[i] = m
    BY InRange
  <2> QED
    BY <2>1, <2>2
<1>5. Hits(publishing[s], CallsFor(m)) = 0
  <2>1. publishing[s] \in [1..RedisWorkerCount[s] -> Call \cup {Idle}]
        /\ RedisWorkerCount[s] \in Nat
    BY <1>s, Constants DEF Typed, TypeOK
  <2>2. /\ Hits(publishing[s], CallsFor(m)) \in Nat
        /\ Hits(publishing[s], CallsFor(m)) > 0
             <=> \E w \in 1..RedisWorkerCount[s] : publishing[s][w] \in CallsFor(m)
    BY <2>1, WorkerHits
  <2> QED
    BY <1>2, <2>2
<1>6. Hits(Broadcast[s], {m}) = 0 /\ Hits(redisPublishJobs[s], {m}) = 0
  BY <1>1, <1>3, <1>4
<1> QED
  BY <1>1, <1>5, <1>6 DEF UnderWay

(* Handing a message on adds no copy of it. *)
LEMMA UnderWayHere ==
  ASSUME Typed, NEW m \in Messages, NEW s \in Servers, Origin(m) = s,
         \/ /\ Broadcast[s] # <<>> /\ Broadcast'[s] = Tail(Broadcast[s])
            /\ publishing'[s] = publishing[s]
            /\ \/ /\ redisPublishJobs'[s]
                       = Append(redisPublishJobs[s], Head(Broadcast[s]))
                  /\ degraded' = degraded
               \/ /\ redisPublishJobs'[s] = redisPublishJobs[s]
                  /\ degraded' = degraded \cup {Head(Broadcast[s])}
         \/ /\ redisPublishJobs[s] # <<>>
            /\ redisPublishJobs'[s] = Tail(redisPublishJobs[s])
            /\ Broadcast'[s] = Broadcast[s]
            /\ publishing'[s] = publishing[s]
            /\ degraded' = degraded \cup {Head(redisPublishJobs[s])}
  PROVE  UnderWay(m)' <= UnderWay(m)
<1> DEFINE b == Hits(Broadcast[s], {m})
           r == Hits(redisPublishJobs[s], {m})
           p == Hits(publishing[s], CallsFor(m))
           d == IF m \in degraded THEN 1 ELSE 0
           b2 == Hits(Broadcast'[s], {m})
           r2 == Hits(redisPublishJobs'[s], {m})
           d2 == IF m \in degraded' THEN 1 ELSE 0
<1>q. /\ Broadcast[s] \in Seq(Messages) /\ redisPublishJobs[s] \in Seq(Messages)
      /\ publishing'[s] = publishing[s]
  BY Sequences
<1>n. b \in Nat /\ r \in Nat /\ p \in Nat /\ d \in {0, 1}
  BY HitsAreNatural
<1>t. \A q \in Seq(Messages) : q # <<>> =>
        /\ Head(q) \in Messages /\ Tail(q) \in Seq(Messages)
        /\ Hits(q, {m}) = Hits(Tail(q), {m}) + (IF Head(q) \in {m} THEN 1 ELSE 0)
        /\ Hits(Tail(q), {m}) \in Nat
  BY TailHits, HeadTailProperties, SequenceHits
<1>a. \A q \in Seq(Messages), e \in Messages :
        Hits(Append(q, e), {m}) = Hits(q, {m}) + (IF e \in {m} THEN 1 ELSE 0)
  BY AppendHits
<1>1. UnderWay(m) = b + r + p + d /\ UnderWay(m)' = b2 + r2 + p + d2
  <2>1. Origin(m)' = s /\ CallsFor(m)' = CallsFor(m)
    BY DEF Origin, CallsFor
  <2>2. UnderWay(m)' = b2 + r2 + p + d2
    BY <1>q, <2>1 DEF UnderWay, Hits
  <2> QED
    BY <2>2 DEF UnderWay
<1>2. CASE /\ Broadcast[s] # <<>> /\ Broadcast'[s] = Tail(Broadcast[s])
           /\ redisPublishJobs'[s] = Append(redisPublishJobs[s], Head(Broadcast[s]))
           /\ degraded' = degraded
  <2>1. /\ b = b2 + (IF Head(Broadcast[s]) \in {m} THEN 1 ELSE 0) /\ b2 \in Nat
        /\ Head(Broadcast[s]) \in Messages
    BY <1>2, <1>q, <1>t
  <2>2. r2 = r + (IF Head(Broadcast[s]) \in {m} THEN 1 ELSE 0)
    BY <1>2, <1>q, <1>a, <2>1
  <2>3. d2 = d
    BY <1>2
  <2> HIDE DEF b, r, p, d, b2, r2, d2
  <2> QED
    BY <1>1, <1>n, <2>1, <2>2, <2>3
<1>3. CASE /\ Broadcast[s] # <<>> /\ Broadcast'[s] = Tail(Broadcast[s])
           /\ redisPublishJobs'[s] = redisPublishJobs[s]
           /\ degraded' = degraded \cup {Head(Broadcast[s])}
  <2>1. /\ b = b2 + (IF Head(Broadcast[s]) \in {m} THEN 1 ELSE 0) /\ b2 \in Nat
        /\ r2 = r
    BY <1>3, <1>q, <1>t
  <2>2. /\ d \in {0, 1} /\ d2 \in {0, 1}
        /\ \/ d2 = d
           \/ Head(Broadcast[s]) \in {m} /\ d2 = 1
    BY <1>3
  <2> HIDE DEF b, r, p, d, b2, r2, d2
  <2> QED
    BY <1>1, <1>n, <2>1, <2>2
<1>4. CASE /\ redisPublishJobs[s] # <<>>
           /\ redisPublishJobs'[s] = Tail(redisPublishJobs[s])
           /\ Broadcast'[s] = Broadcast[s]
           /\ degraded' = degraded \cup {Head(redisPublishJobs[s])}
  <2>1. /\ r = r2 + (IF Head(redisPublishJobs[s]) \in {m} THEN 1 ELSE 0)
        /\ r2 \in Nat /\ b2 = b
    BY <1>4, <1>q, <1>t
  <2>2. /\ d \in {0, 1} /\ d2 \in {0, 1}
        /\ \/ d2 = d
           \/ Head(redisPublishJobs[s]) \in {m} /\ d2 = 1
    BY <1>4
  <2> HIDE DEF b, r, p, d, b2, r2, d2
  <2> QED
    BY <1>1, <1>n, <2>1, <2>2
<1> QED
  BY <1>2, <1>3, <1>4

(* A worker takes or finishes something, and the others do not. *)
LEMMA WorkersHits ==
  ASSUME Typed, NEW s \in Servers, NEW e, NEW g, NEW T
  PROVE  /\ \A w \in 1..RedisWorkerCount[s] :
              g = [publishing[s] EXCEPT ![w] = e] =>
                Hits(g, T) + (IF publishing[s][w] \in T THEN 1 ELSE 0)
                  = Hits(publishing[s], T) + (IF e \in T THEN 1 ELSE 0)
         /\ \A w \in 1..WorkerCount[s] :
              g = [broadcasting[s] EXCEPT ![w] = e] =>
                Hits(g, T) + (IF broadcasting[s][w] \in T THEN 1 ELSE 0)
                  = Hits(broadcasting[s], T) + (IF e \in T THEN 1 ELSE 0)
<1>1. RedisWorkerCount[s] \in Nat /\ WorkerCount[s] \in Nat
  BY Constants
<1>2. DOMAIN publishing[s] = 1..RedisWorkerCount[s]
      /\ DOMAIN broadcasting[s] = 1..WorkerCount[s]
  BY DEF Typed, TypeOK
<1> QED
  BY <1>1, <1>2, ExceptHits

LEMMA PublishUnderWay ==
  ASSUME Typed, NEW s \in Servers, NEW w \in 1..RedisWorkerCount[s],
         NEW m \in Messages, Origin(m) = s, Publish(s, w)
  PROVE  UnderWay(m)' = UnderWay(m)
<1> DEFINE n == Head(redisPublishJobs[s])
           call == [message |-> n, answer |-> FALSE]
           b == Hits(Broadcast[s], {m})
           r == Hits(redisPublishJobs[s], {m})
           p == Hits(publishing[s], CallsFor(m))
           d == IF m \in degraded THEN 1 ELSE 0
           r2 == Hits(redisPublishJobs'[s], {m})
           p2 == Hits(publishing'[s], CallsFor(m))
<1>1. /\ redisPublishJobs[s] # <<>> /\ n \in Messages
      /\ redisPublishJobs'[s] = Tail(redisPublishJobs[s])
      /\ publishing[s][w] = Idle
      /\ publishing'[s] = [publishing[s] EXCEPT ![w] = call]
      /\ UNCHANGED <<Broadcast, degraded>>
  BY PublishEffect DEF Publish, ingress
<1>2. r = r2 + (IF n \in {m} THEN 1 ELSE 0)
  BY <1>1, Sequences, TailHits
<1>3. p2 = p + (IF n \in {m} THEN 1 ELSE 0)
  <2>1. publishing[s] \in [1..RedisWorkerCount[s] -> Call \cup {Idle}]
        /\ RedisWorkerCount[s] \in Nat
    BY Constants DEF Typed, TypeOK
  <2>2. call \in CallsFor(m) <=> n \in {m}
    BY <1>1 DEF CallsFor, Call
  <2>3. publishing[s][w] \notin CallsFor(m)
    BY <1>1, IdleAssumption DEF CallsFor
  <2> HIDE DEF call, n
  <2>4. p2 + (IF publishing[s][w] \in CallsFor(m) THEN 1 ELSE 0)
          = p + (IF call \in CallsFor(m) THEN 1 ELSE 0)
    BY <1>1, WorkersHits
  <2>5. p2 \in Nat /\ p \in Nat
    <3>1. publishing'[s] \in [1..RedisWorkerCount[s] -> Call \cup {Idle}]
      BY PublishEffect DEF Typed, TypeOK
    <3> QED
      BY <2>1, <3>1, WorkerHits
  <2> HIDE DEF p, p2
  <2> QED
    BY <2>2, <2>3, <2>4, <2>5
<1>4. UnderWay(m) = b + r + p + d /\ UnderWay(m)' = b + r2 + p2 + d
  <2>1. Origin(m)' = s /\ CallsFor(m)' = CallsFor(m)
    BY DEF Origin, CallsFor
  <2>2. UnderWay(m)' = b + r2 + p2 + d
    BY <1>1, <2>1 DEF UnderWay, Hits
  <2> QED
    BY <2>2 DEF UnderWay
<1>5. b \in Nat /\ p \in Nat /\ r \in Nat /\ d \in {0, 1}
  BY HitsAreNatural
<1>6. r2 \in Nat
  BY <1>1, Sequences, HeadTailProperties, SequenceHits
<1> HIDE DEF b, r, p, d, r2, p2, n
<1> QED
  BY <1>2, <1>3, <1>4, <1>5, <1>6

(* A call ends, and its message may be degraded. *)
LEMMA CallEndsUnderWay ==
  ASSUME Typed, NEW s \in Servers, NEW w \in 1..RedisWorkerCount[s],
         NEW m \in Messages, Origin(m) = s,
         publishing[s][w] # Idle,
         publishing' = [publishing EXCEPT ![s][w] = Idle],
         UNCHANGED <<Broadcast, redisPublishJobs>>,
         \/ degraded' = degraded
         \/ degraded' = degraded \cup {publishing[s][w].message}
  PROVE  UnderWay(m)' <= UnderWay(m)
<1> DEFINE n == publishing[s][w].message
           b == Hits(Broadcast[s], {m})
           r == Hits(redisPublishJobs[s], {m})
           p == Hits(publishing[s], CallsFor(m))
           d == IF m \in degraded THEN 1 ELSE 0
           p2 == Hits(publishing'[s], CallsFor(m))
           d2 == IF m \in degraded' THEN 1 ELSE 0
<1>1. /\ publishing[s][w] \in Call
      /\ publishing'[s] = [publishing[s] EXCEPT ![w] = Idle]
      /\ publishing'[s] \in [1..RedisWorkerCount[s] -> Call \cup {Idle}]
  BY CallEndsEffect
<1>2. p = p2 + (IF n = m THEN 1 ELSE 0) /\ p2 \in Nat
  <2>1. publishing[s] \in [1..RedisWorkerCount[s] -> Call \cup {Idle}]
        /\ RedisWorkerCount[s] \in Nat
    BY Constants DEF Typed, TypeOK
  <2>2. Idle \notin CallsFor(m)
    BY IdleAssumption DEF CallsFor
  <2>3. publishing[s][w] \in CallsFor(m) <=> n = m
    BY <1>1 DEF CallsFor
  <2>4. p2 + (IF publishing[s][w] \in CallsFor(m) THEN 1 ELSE 0)
          = p + (IF Idle \in CallsFor(m) THEN 1 ELSE 0)
    BY <1>1, WorkersHits
  <2>5. p2 \in Nat /\ p \in Nat
    BY <1>1, <2>1, WorkerHits
  <2> HIDE DEF p, p2, n
  <2> QED
    BY <2>2, <2>3, <2>4, <2>5
<1>3. /\ d \in {0, 1} /\ d2 \in {0, 1}
      /\ \/ d2 = d
         \/ n = m /\ d2 = 1
  OBVIOUS
<1>4. UnderWay(m) = b + r + p + d /\ UnderWay(m)' = b + r + p2 + d2
  <2>1. Origin(m)' = s /\ CallsFor(m)' = CallsFor(m)
    BY DEF Origin, CallsFor
  <2>2. UnderWay(m)' = b + r + p2 + d2
    BY <2>1 DEF UnderWay, Hits
  <2> QED
    BY <2>2 DEF UnderWay
<1>5. b \in Nat /\ p \in Nat /\ r \in Nat
  BY HitsAreNatural
<1> HIDE DEF b, r, p, d, p2, d2, n
<1> QED
  BY <1>2, <1>3, <1>4, <1>5

(* An answer changes no call's message. *)
LEMMA AnswersKeepCalls ==
  ASSUME Typed, NEW n \in Messages, CarryOut(n), NEW s \in Servers,
         NEW m \in Messages
  PROVE  /\ \A w \in 1..RedisWorkerCount[s] :
              publishing'[s][w] \in CallsFor(m) <=> publishing[s][w] \in CallsFor(m)
         /\ Hits(publishing'[s], CallsFor(m)) = Hits(publishing[s], CallsFor(m))
<1>1. \A w \in 1..RedisWorkerCount[s] :
        publishing'[s][w] \in CallsFor(m) <=> publishing[s][w] \in CallsFor(m)
  <2>1. \A w \in 1..RedisWorkerCount[s] :
          \/ publishing'[s][w] = publishing[s][w]
          \/ /\ publishing[s][w] \in Call /\ publishing'[s][w] \in Call
             /\ publishing[s][w].message = n /\ publishing'[s][w].message = n
    BY CarryOutEffect
  <2> QED
    BY <2>1 DEF CallsFor
<1>2. DOMAIN publishing[s] = 1..RedisWorkerCount[s]
      /\ DOMAIN publishing'[s] = 1..RedisWorkerCount[s]
  BY CarryOutEffect DEF Typed, TypeOK
<1>3. {w \in DOMAIN publishing'[s] : publishing'[s][w] \in CallsFor(m)}
        = {w \in DOMAIN publishing[s] : publishing[s][w] \in CallsFor(m)}
  BY <1>1, <1>2
<1> QED
  BY <1>1, <1>3 DEF Hits

LEMMA SubmitUnderWay ==
  ASSUME Typed, NEW n \in Messages, SubmitDanmaku(n), NEW m \in Messages
  PROVE  UnderWay(m)' = UnderWay(m) + (IF n \in {m} THEN 1 ELSE 0)
<1> DEFINE s == Origin(n)
<1>1. /\ Broadcast'[s] = Append(Broadcast[s], n)
      /\ \A t \in Servers : t # s => Broadcast'[t] = Broadcast[t]
      /\ UNCHANGED <<redisPublishJobs, publishing, degraded>>
  BY SubmitEffect DEF SubmitDanmaku, publish
<1>s. s \in Servers
  BY Constants
<1>2. CASE Origin(m) # s
  <2>1. m # n
    BY <1>2
  <2> HIDE DEF s
  <2>2. UnderWay(m)' = UnderWay(m)
    BY <1>1, <1>s, <1>2, UnderWayElsewhere
  <2>3. UnderWay(m) \in Nat
    BY UnderWayIsNatural
  <2> QED
    BY <2>1, <2>2, <2>3
<1>3. CASE Origin(m) = s
  <2> DEFINE b == Hits(Broadcast[s], {m})
             r == Hits(redisPublishJobs[s], {m})
             p == Hits(publishing[s], CallsFor(m))
             d == IF m \in degraded THEN 1 ELSE 0
             b2 == Hits(Broadcast'[s], {m})
  <2>1. b2 = b + (IF n \in {m} THEN 1 ELSE 0)
    BY <1>1, <1>s, Sequences, AppendHits
  <2>2. Origin(m)' = s /\ CallsFor(m)' = CallsFor(m)
    BY <1>3 DEF Origin, CallsFor
  <2>3. UnderWay(m)' = b2 + r + p + d
    BY <1>1, <2>2 DEF UnderWay, Hits
  <2>4. UnderWay(m) = b + r + p + d
    BY <1>3 DEF UnderWay
  <2>5. b \in Nat /\ r \in Nat /\ p \in Nat /\ d \in {0, 1}
    BY <1>s, HitsAreNatural
  <2> HIDE DEF b, r, p, d, b2, s
  <2> QED
    BY <2>1, <2>3, <2>4, <2>5
<1> QED
  BY <1>2, <1>3

LEMMA OneCopyStep ==
  ASSUME Typed, Upstream, OneCopy, [Next]_vars
  PROVE  OneCopy'
<1>0. \A m \in Messages : UnderWay(m) \in Nat
  BY UnderWayIsNatural
<1>1. ASSUME NEW n \in Messages, SubmitDanmaku(n)
      PROVE  OneCopy'
  <2>1. UnderWay(n) = 0
    BY <1>1, SubmitAccepts, UnderWayAtRest
  <2>2. \A m \in Messages : UnderWay(m)' = UnderWay(m) + (IF n \in {m} THEN 1 ELSE 0)
    BY <1>1, SubmitUnderWay
  <2>3. \A m \in Messages : UnderWay(m)' <= 1
    BY <1>0, <2>1, <2>2 DEF OneCopy
  <2> QED
    BY <2>3 DEF OneCopy
<1>n. ASSUME \A m \in Messages : UnderWay(m)' <= UnderWay(m),
             \A m \in Messages : UnderWay(m)' \in Nat
      PROVE  OneCopy'
  <2>1. \A m \in Messages : UnderWay(m)' <= 1
    BY <1>0, <1>n DEF OneCopy
  <2> QED
    BY <2>1 DEF OneCopy
<1>t. \A m \in Messages : UnderWay(m)' \in Nat
  <2> TAKE m \in Messages
  <2>1. /\ \A s \in Servers :
             /\ Broadcast'[s] \in Seq(Messages)
             /\ redisPublishJobs'[s] \in Seq(Messages)
             /\ DOMAIN publishing'[s] = 1..RedisWorkerCount[s]
    BY TypedStep DEF Typed, TypeOK
  <2>2. Origin(m)' = Origin(m) /\ CallsFor(m)' = CallsFor(m) /\ Origin(m) \in Servers
        /\ RedisWorkerCount[Origin(m)] \in Nat
    BY Constants DEF Origin, CallsFor
  <2>3. /\ Hits(Broadcast'[Origin(m)], {m}) \in Nat
        /\ Hits(redisPublishJobs'[Origin(m)], {m}) \in Nat
    BY <2>1, <2>2, SequenceHits
  <2>4. Hits(publishing'[Origin(m)], CallsFor(m)) \in Nat
    <3>1. IsFiniteSet(DOMAIN publishing'[Origin(m)])
      BY <2>1, <2>2, FS_Interval
    <3> QED
      BY <3>1, HitsNatural
  <2> QED
    BY <2>2, <2>3, <2>4 DEF UnderWay, Hits
<1>2. ASSUME NEW s \in Servers, HandleBroadcast(s), NEW m \in Messages
      PROVE  UnderWay(m)' <= UnderWay(m)
  <2> DEFINE n == Head(Broadcast[s])
  <2>1. /\ Broadcast[s] # <<>> /\ Broadcast'[s] = Tail(Broadcast[s])
        /\ \A t \in Servers : t # s =>
             /\ Broadcast'[t] = Broadcast[t]
             /\ redisPublishJobs'[t] = redisPublishJobs[t]
        /\ \/ redisPublishJobs'[s] = Append(redisPublishJobs[s], n) /\ degraded' = degraded
           \/ redisPublishJobs'[s] = redisPublishJobs[s] /\ degraded' = degraded \cup {n}
        /\ UNCHANGED publishing
    BY <1>2, HandleEffect DEF HandleBroadcast
  <2>2. n \in Range(Broadcast[s]) /\ n \in Messages
    BY <1>2, HandleRange, HandleEffect
  <2>3. Origin(n) = s
    BY <2>2 DEF Upstream
  <2>4. CASE Origin(m) = s
    BY <2>1, <2>4, UnderWayHere
  <2>5. CASE Origin(m) # s
    <3>1. m \in degraded' <=> m \in degraded
      BY <2>1, <2>3, <2>5
    <3> QED
      BY <1>0, <2>1, <2>5, <3>1, UnderWayElsewhere
  <2> QED
    BY <2>4, <2>5
<1>3. ASSUME NEW s \in Servers, NEW w \in 1..RedisWorkerCount[s], CircuitOpen(s, w),
             NEW m \in Messages
      PROVE  UnderWay(m)' <= UnderWay(m)
  <2> DEFINE n == Head(redisPublishJobs[s])
  <2>1. /\ redisPublishJobs[s] # <<>>
        /\ redisPublishJobs'[s] = Tail(redisPublishJobs[s])
        /\ \A t \in Servers : t # s => redisPublishJobs'[t] = redisPublishJobs[t]
        /\ degraded' = degraded \cup {n}
        /\ UNCHANGED <<Broadcast, publishing>>
    BY <1>3, CircuitOpenEffect DEF CircuitOpen, ingress
  <2>2. n \in Range(redisPublishJobs[s]) /\ n \in Messages
    BY <1>3, TakePublishRange, CircuitOpenEffect DEF CircuitOpen
  <2>3. Origin(n) = s
    BY <2>2 DEF Upstream
  <2>4. CASE Origin(m) = s
    BY <2>1, <2>4, UnderWayHere
  <2>5. CASE Origin(m) # s
    <3>1. m \in degraded' <=> m \in degraded
      BY <2>1, <2>3, <2>5
    <3> QED
      BY <1>0, <2>1, <2>5, <3>1, UnderWayElsewhere
  <2> QED
    BY <2>4, <2>5
<1>4. ASSUME NEW s \in Servers, NEW w \in 1..RedisWorkerCount[s], Publish(s, w),
             NEW m \in Messages
      PROVE  UnderWay(m)' <= UnderWay(m)
  <2>1. CASE Origin(m) = s
    BY <1>0, <1>4, <2>1, PublishUnderWay
  <2>2. CASE Origin(m) # s
    <3>1. /\ \A t \in Servers : t # s =>
               /\ redisPublishJobs'[t] = redisPublishJobs[t]
               /\ publishing'[t] = publishing[t]
          /\ UNCHANGED <<Broadcast, degraded>>
      BY <1>4, PublishEffect DEF Publish, ingress
    <3> QED
      BY <1>0, <2>2, <3>1, UnderWayElsewhere
  <2> QED
    BY <2>1, <2>2
<1>5. ASSUME NEW s \in Servers, NEW w \in 1..RedisWorkerCount[s],
             Published(s, w) \/ PublishFails(s, w), NEW m \in Messages
      PROVE  UnderWay(m)' <= UnderWay(m)
  <2> DEFINE n == publishing[s][w].message
  <2>1. /\ publishing[s][w] # Idle
        /\ publishing' = [publishing EXCEPT ![s][w] = Idle]
        /\ UNCHANGED <<Broadcast, redisPublishJobs>>
        /\ degraded' = degraded \/ degraded' = degraded \cup {n}
    BY <1>5 DEF Published, PublishFails, FallBack, ingress
  <2>2. publishing[s][w] \in CallsFor(n) /\ n \in Messages
        /\ \A t \in Servers : t # s => publishing'[t] = publishing[t]
    BY <2>1, CallEndsEffect DEF CallsFor
  <2>3. Origin(n) = s
    BY <2>2 DEF Upstream
  <2>4. CASE Origin(m) = s
    BY <2>1, <2>4, CallEndsUnderWay
  <2>5. CASE Origin(m) # s
    <3>1. m \in degraded' <=> m \in degraded
      BY <2>1, <2>3, <2>5
    <3> QED
      BY <1>0, <2>1, <2>2, <2>5, <3>1, UnderWayElsewhere
  <2> QED
    BY <2>4, <2>5
<1>6. ASSUME NEW n \in Messages, CarryOut(n), NEW m \in Messages
      PROVE  UnderWay(m)' <= UnderWay(m)
  <2>1. Hits(publishing'[Origin(m)], CallsFor(m)) = Hits(publishing[Origin(m)], CallsFor(m))
    BY <1>6, AnswersKeepCalls, Constants
  <2>2. UNCHANGED <<Broadcast, redisPublishJobs, degraded>>
    BY <1>6 DEF CarryOut, ingress
  <2>3. Origin(m)' = Origin(m) /\ CallsFor(m)' = CallsFor(m)
    BY DEF Origin, CallsFor
  <2>4. UnderWay(m)' = UnderWay(m)
    BY <2>1, <2>2, <2>3 DEF UnderWay, Hits
  <2> QED
    BY <1>0, <2>4
<1>7. ASSUME UNCHANGED <<Broadcast, redisPublishJobs, publishing, degraded>>,
             NEW m \in Messages
      PROVE  UnderWay(m)' <= UnderWay(m)
  <2>3. Origin(m)' = Origin(m) /\ CallsFor(m)' = CallsFor(m)
    BY DEF Origin, CallsFor
  <2>4. UnderWay(m)' = UnderWay(m)
    BY <1>7, <2>3 DEF UnderWay, Hits
  <2> QED
    BY <1>0, <2>4
<1>8. ASSUME ~ \E n \in Messages : SubmitDanmaku(n)
      PROVE  \A m \in Messages : UnderWay(m)' <= UnderWay(m)
  BY <1>2, <1>3, <1>4, <1>5, <1>6, <1>7, <1>8
  DEF Next, vars, TakeBroadcastJob, BroadcastWorker, Register, Unregister,
      Receive, Subscribe, SubscriptionBreaks, SubscriptionEnds, ingress, publish
<1> QED
  BY <1>1, <1>8, <1>n, <1>t

LEMMA NumberedMembers ==
  ASSUME NEW c, NEW f, \A d \in Clients : f[d] \in Int
  PROVE  /\ IsFiniteSet(Numbered(c, f))
         /\ Cardinality(Numbered(c, f)) \in Nat
         /\ \A e : e \in Numbered(c, f) <=>
              \E d \in Clients : Same(c, d) /\ \E k \in 1..f[d] : e = <<d, k>>
<1> DEFINE D == {e \in Clients : Same(c, e)}
           P(d) == {d} \X (1..f[d])
<1>1. IsFiniteSet(D)
  BY Assumptions, FS_Subset
<1>2. ASSUME NEW d \in D
      PROVE  IsFiniteSet(P(d))
  <2>1. IsFiniteSet(1..f[d])
    BY FS_Interval
  <2>2. IsFiniteSet({d})
    BY FS_Singleton
  <2> QED
    BY <2>1, <2>2, FS_Product
<1>3. IsFiniteSet({P(d) : d \in D})
  <2> DEFINE h == [d \in D |-> P(d)]
  <2>1. h \in Surjection(D, {P(d) : d \in D})
    BY DEF Surjection
  <2> HIDE DEF h, P, D
  <2> QED
    BY <1>1, <2>1, FS_Surjection
<1>4. IsFiniteSet(UNION {P(d) : d \in D})
  BY <1>2, <1>3, FS_UNION
<1>5. Numbered(c, f) = UNION {P(d) : d \in D}
  BY DEF Numbered
<1>6. \A e : e \in Numbered(c, f) <=>
         \E d \in Clients : Same(c, d) /\ \E k \in 1..f[d] : e = <<d, k>>
  BY <1>5
<1> QED
  BY <1>4, <1>5, <1>6, FS_CardinalityType

LEMMA NumberedGrows ==
  ASSUME NEW c, NEW f, NEW g,
         \A d \in Clients : f[d] \in Int /\ g[d] \in Int /\ f[d] <= g[d]
  PROVE  /\ Cardinality(Numbered(c, f)) \in Nat
         /\ Cardinality(Numbered(c, g)) \in Nat
         /\ Cardinality(Numbered(c, f)) <= Cardinality(Numbered(c, g))
<1>1. /\ Cardinality(Numbered(c, f)) \in Nat
      /\ \A e : e \in Numbered(c, f) <=>
           \E d \in Clients : Same(c, d) /\ \E k \in 1..f[d] : e = <<d, k>>
  BY NumberedMembers
<1>2. /\ IsFiniteSet(Numbered(c, g))
      /\ Cardinality(Numbered(c, g)) \in Nat
      /\ \A e : e \in Numbered(c, g) <=>
           \E d \in Clients : Same(c, d) /\ \E k \in 1..g[d] : e = <<d, k>>
  BY NumberedMembers
<1>3. \A d \in Clients : \A k \in 1..f[d] : k \in 1..g[d]
  OBVIOUS
<1>4. Numbered(c, f) \subseteq Numbered(c, g)
  BY <1>1, <1>2, <1>3
<1> QED
  BY <1>1, <1>2, <1>4, FS_Subset

LEMMA NumberedGains ==
  ASSUME NEW c, NEW f, NEW g,
         \A d \in Clients : f[d] \in Int /\ g[d] \in Int /\ f[d] <= g[d],
         NEW b \in Clients, Same(c, b), f[b] \in Nat, g[b] = f[b] + 1
  PROVE  /\ Cardinality(Numbered(c, f)) \in Nat
         /\ Cardinality(Numbered(c, g)) \in Nat
         /\ Cardinality(Numbered(c, f)) + 1 <= Cardinality(Numbered(c, g))
<1> DEFINE F == Numbered(c, f)
           e == <<b, g[b]>>
<1>1. /\ IsFiniteSet(F)
      /\ Cardinality(F) \in Nat
      /\ \A x : x \in F <=>
           \E d \in Clients : Same(c, d) /\ \E k \in 1..f[d] : x = <<d, k>>
  BY NumberedMembers
<1>2. /\ IsFiniteSet(Numbered(c, g))
      /\ Cardinality(Numbered(c, g)) \in Nat
      /\ \A x : x \in Numbered(c, g) <=>
           \E d \in Clients : Same(c, d) /\ \E k \in 1..g[d] : x = <<d, k>>
  BY NumberedMembers
<1>3. \A d \in Clients : \A k \in 1..f[d] : k \in 1..g[d]
  OBVIOUS
<1>4. F \subseteq Numbered(c, g)
  BY <1>1, <1>2, <1>3
<1>5. e \notin F
  <2>1. g[b] \notin 1..f[b]
    OBVIOUS
  <2> QED
    BY <1>1, <2>1
<1>6. e \in Numbered(c, g)
  BY <1>2
<1> HIDE DEF F, e
<1>7. Cardinality(F \cup {e}) = Cardinality(F) + 1
  BY <1>1, <1>5, FS_AddElement
<1>8. Cardinality(F \cup {e}) <= Cardinality(Numbered(c, g))
  BY <1>2, <1>4, <1>6, FS_Subset
<1> QED
  BY <1>1, <1>2, <1>7, <1>8 DEF F

LEMMA LeftIsNatural ==
  ASSUME Typed, Subscriptions, NEW m \in Messages
  PROVE  \A d \in Clients : Left(m)[d] \in Nat
<1> TAKE d \in Clients
<1>1. arrivals[m][d] \in Nat
  BY DEF Typed, TypeOK
<1>2. Hits(channel[d], {m}) \in Nat
  BY HitsAreNatural
<1>3. Hits(channel[d], {m}) <= arrivals[m][d]
  BY DEF Subscriptions
<1>4. Left(m)[d] = arrivals[m][d] - Hits(channel[d], {m})
  BY DEF Left
<1> QED
  BY <1>1, <1>2, <1>3, <1>4

LEMMA LeftAfter ==
  ASSUME NEW m \in Messages, NEW d \in Clients
  PROVE  (Left(m)[d])' = arrivals'[m][d] - Hits(channel'[d], {m})
BY DEF Left, Hits

(* What a receiver takes from its channel has left it. *)
LEMMA ReceiveLeft ==
  ASSUME Typed, NEW b \in Clients, Receive(b), NEW m \in Messages
  PROVE  /\ (Left(m)[b])' = Left(m)[b] + (IF Head(channel[b]) \in {m} THEN 1 ELSE 0)
         /\ \A d \in Clients : d # b => (Left(m)[d])' = Left(m)[d]
<1>1. /\ channel[b] # <<>> /\ channel[b] \in Seq(Messages)
      /\ channel' = [channel EXCEPT ![b] = Tail(@)]
      /\ UNCHANGED arrivals
  BY ReceiveTyped DEF Receive
<1>2. channel \in [Clients -> Seq(Messages)]
      /\ arrivals[m] \in [Clients -> Nat]
  BY DEF Typed, TypeOK
<1>3. channel'[b] = Tail(channel[b]) /\ \A d \in Clients : d # b => channel'[d] = channel[d]
  BY <1>1, <1>2
<1>4. Hits(channel[b], {m}) = Hits(Tail(channel[b]), {m})
                                + (IF Head(channel[b]) \in {m} THEN 1 ELSE 0)
  BY <1>1, TailHits
<1>5. Hits(Tail(channel[b]), {m}) \in Nat
  BY <1>1, HeadTailProperties, SequenceHits
<1>6. /\ Left(m)[b] = arrivals[m][b] - Hits(channel[b], {m})
      /\ (Left(m)[b])' = arrivals[m][b] - Hits(Tail(channel[b]), {m})
      /\ arrivals[m][b] \in Nat
  BY <1>1, <1>2, <1>3, LeftAfter DEF Left
<1>7. (Left(m)[b])' = Left(m)[b] + (IF Head(channel[b]) \in {m} THEN 1 ELSE 0)
  BY <1>4, <1>5, <1>6
<1>8. ASSUME NEW d \in Clients, d # b
      PROVE  (Left(m)[d])' = Left(m)[d]
  BY <1>1, <1>3, <1>8, LeftAfter DEF Left
<1> QED
  BY <1>7, <1>8

LEMMA CarryOutLeft ==
  ASSUME Typed, NEW n \in Messages, CarryOut(n), NEW m \in Messages,
         NEW d \in Clients
  PROVE  (Left(m)[d])' = Left(m)[d]
<1>1. /\ IF Subscribed(d, n)
         THEN /\ channel'[d] = Append(channel[d], n)
              /\ arrivals'[n][d] = arrivals[n][d] + 1
         ELSE /\ channel'[d] = channel[d]
              /\ arrivals'[n][d] = arrivals[n][d]
      /\ m # n => arrivals'[m] = arrivals[m]
  BY CarryOutEffect
<1>c. channel[d] \in Seq(Messages)
  BY Sequences
<1>n. Hits(channel[d], {m}) \in Nat
  BY HitsAreNatural
<1>2. Hits(Append(channel[d], n), {m})
        = Hits(channel[d], {m}) + (IF n \in {m} THEN 1 ELSE 0)
  BY <1>c, AppendHits
<1>3. arrivals[m][d] \in Nat
  BY DEF Typed, TypeOK
<1>4. /\ Left(m)[d] = arrivals[m][d] - Hits(channel[d], {m})
      /\ (Left(m)[d])' = arrivals'[m][d] - Hits(channel'[d], {m})
  BY LeftAfter DEF Left
<1>5. CASE m = n /\ Subscribed(d, n)
  <2>1. /\ Hits(channel'[d], {m}) = Hits(channel[d], {m}) + 1
        /\ arrivals'[m][d] = arrivals[m][d] + 1
    BY <1>1, <1>2, <1>5
  <2> QED
    BY <1>n, <1>3, <1>4, <2>1
<1>6. CASE m # n /\ Subscribed(d, n)
  <2>1. /\ Hits(channel'[d], {m}) = Hits(channel[d], {m})
        /\ arrivals'[m][d] = arrivals[m][d]
    <3>1. Hits(Append(channel[d], n), {m}) = Hits(channel[d], {m})
      BY <1>2, <1>n, <1>6
    <3>2. channel'[d] = Append(channel[d], n)
      BY <1>1, <1>6
    <3>3. arrivals'[m][d] = arrivals[m][d]
      BY <1>1, <1>6
    <3> QED
      BY <3>1, <3>2, <3>3
  <2> QED
    BY <1>4, <2>1
<1>7. CASE ~Subscribed(d, n)
  BY <1>1, <1>4, <1>7
<1> QED
  BY <1>5, <1>6, <1>7

LEMMA EmptyHits == \A T : Hits(<<>>, T) = 0
<1> TAKE T
<1>1. {i \in DOMAIN <<>> : <<>>[i] \in T} = {}
  OBVIOUS
<1> QED
  BY <1>1, FS_EmptySet DEF Hits

(* What has left a channel does not come back. *)
LEMMA LeftGrows ==
  ASSUME Typed, Subscriptions, [Next]_vars, NEW m \in Messages
  PROVE  \A d \in Clients :
           /\ Left(m)[d] \in Nat
           /\ (Left(m)[d])' \in Int
           /\ Left(m)[d] <= (Left(m)[d])'
<1>1. \A d \in Clients : Left(m)[d] \in Nat
  BY LeftIsNatural
<1>2. ASSUME NEW n \in Messages, CarryOut(n), NEW d \in Clients
      PROVE  (Left(m)[d])' = Left(m)[d]
  BY <1>2, CarryOutLeft
<1>3. ASSUME NEW b \in Clients, Receive(b), NEW d \in Clients
      PROVE  (Left(m)[d])' \in {Left(m)[d], Left(m)[d] + 1}
  <2>1. CASE d = b
    <3>1. (Left(m)[b])' = Left(m)[b] + (IF Head(channel[b]) \in {m} THEN 1 ELSE 0)
      BY <1>3, ReceiveLeft
    <3>2. Left(m)[b] \in Nat
      BY <1>1
    <3>3. (Left(m)[b])' \in {Left(m)[b], Left(m)[b] + 1}
      BY <3>1, <3>2
    <3> QED
      BY <2>1, <3>3
  <2>2. CASE d # b
    BY <1>3, <2>2, ReceiveLeft
  <2> QED
    BY <2>1, <2>2
<1>4. ASSUME NEW b \in Clients, SubscriptionEnds(b), NEW d \in Clients
      PROVE  (Left(m)[d])' = Left(m)[d] \/ (Left(m)[d])' = arrivals[m][d]
  <2>1. channel' = [channel EXCEPT ![b] = <<>>] /\ UNCHANGED arrivals
    BY <1>4 DEF SubscriptionEnds
  <2>2. channel \in [Clients -> Seq(Messages)] /\ arrivals[m][d] \in Nat
    BY DEF Typed, TypeOK
  <2>3. CASE d = b
    <3>1. channel'[d] = <<>>
      BY <2>1, <2>2, <2>3
    <3>2. Hits(channel'[d], {m}) = 0
      BY <3>1, EmptyHits, Zenon
    <3>3. (Left(m)[d])' = arrivals'[m][d] - Hits(channel'[d], {m})
      BY LeftAfter
    <3>4. arrivals'[m][d] = arrivals[m][d]
      BY <2>1
    <3> QED
      BY <2>2, <3>2, <3>3, <3>4
  <2>4. CASE d # b
    <3>1. channel'[d] = channel[d]
      BY <2>1, <2>2, <2>4
    <3> QED
      BY <2>1, <3>1, LeftAfter DEF Left
  <2> QED
    BY <2>3, <2>4
<1>5. ASSUME UNCHANGED <<channel, arrivals>>, NEW d \in Clients
      PROVE  (Left(m)[d])' = Left(m)[d]
  BY <1>5, LeftAfter DEF Left
<1>6. \A d \in Clients :
        /\ arrivals[m][d] \in Nat
        /\ Left(m)[d] <= arrivals[m][d]
  <2> TAKE d \in Clients
  <2>1. arrivals[m][d] \in Nat
    BY DEF Typed, TypeOK
  <2>2. Hits(channel[d], {m}) \in Nat
    BY HitsAreNatural
  <2>3. Left(m)[d] = arrivals[m][d] - Hits(channel[d], {m})
    BY DEF Left
  <2> QED
    BY <2>1, <2>2, <2>3
<1>7. ASSUME NEW d \in Clients
      PROVE  \/ (Left(m)[d])' = Left(m)[d]
             \/ (Left(m)[d])' = Left(m)[d] + 1
             \/ (Left(m)[d])' = arrivals[m][d]
  BY <1>2, <1>3, <1>4, <1>5
  DEF Next, vars, HandleBroadcast, Publish, CircuitOpen, Published,
      PublishFails, TakeBroadcastJob, BroadcastWorker, Register, Unregister,
      Subscribe, SubscriptionBreaks, SubmitDanmaku, redis
<1> QED
  BY <1>1, <1>6, <1>7

LEMMA EnqueueHits ==
  ASSUME Typed, NEW s \in Servers, NEW r, NEW n \in Messages,
         EnqueueLocalBroadcast(s, r, n), NEW c \in Clients, NEW m \in Messages
  PROVE  LET q  == Hits(broadcastJobs[Home[c]], JobsFor(m, c))
             q2 == Hits(broadcastJobs'[Home[c]], JobsFor(m, c)) IN
         \/ q2 = q
         \/ q2 = q + 1 /\ Home[c] = s /\ m = n /\ c \in Members(s, r)
<1> DEFINE job == [message |-> n, clients |-> Members(s, r)]
           q  == Hits(broadcastJobs[Home[c]], JobsFor(m, c))
           q2 == Hits(broadcastJobs'[Home[c]], JobsFor(m, c))
<1>1. /\ job \in Job
      /\ \A t \in Servers : t # s => broadcastJobs'[t] = broadcastJobs[t]
      /\ \/ broadcastJobs'[s] = Append(broadcastJobs[s], job)
         \/ broadcastJobs'[s] = broadcastJobs[s]
  BY EnqueueEffect
<1>h. Home[c] \in Servers
  BY Constants
<1>2. CASE broadcastJobs'[Home[c]] = broadcastJobs[Home[c]]
  BY <1>2
<1>3. CASE Home[c] = s /\ broadcastJobs'[s] = Append(broadcastJobs[s], job)
  <2>1. job \in JobsFor(m, c) <=> m = n /\ c \in Members(s, r)
    BY <1>1 DEF JobsFor
  <2> HIDE DEF job
  <2>2. q2 = q + (IF job \in JobsFor(m, c) THEN 1 ELSE 0)
    BY <1>1, <1>3, <1>h, Sequences, AppendHits
  <2>3. q \in Nat
    BY <1>h, HitsAreNatural
  <2> HIDE DEF q, q2
  <2>4. q2 = q \/ (q2 = q + 1 /\ Home[c] = s /\ m = n /\ c \in Members(s, r))
    BY <1>3, <2>1, <2>2, <2>3
  <2> QED
    BY <2>4 DEF q, q2
<1> QED
  BY <1>1, <1>2, <1>3, <1>h

LEMMA CopiesAreNatural ==
  ASSUME Typed, NEW c \in Clients, NEW m \in Messages
  PROVE  CopiesFor(c, m) \in Nat
<1>1. /\ Home[c] \in Servers
      /\ Hits(seen[c], {m}) \in Nat
  BY Constants, HitsAreNatural
<1>2. /\ Hits(broadcastJobs[Home[c]], JobsFor(m, c)) \in Nat
      /\ Hits(broadcasting[Home[c]], JobsFor(m, c)) \in Nat
  BY <1>1, HitsAreNatural
<1> QED
  BY <1>1, <1>2 DEF CopiesFor

(* A local broadcast makes one copy for each client in the room. *)
LEMMA EnqueueCopies ==
  ASSUME Typed, NEW s \in Servers, NEW r, NEW n \in Messages,
         EnqueueLocalBroadcast(s, r, n), UNCHANGED <<seen, broadcasting>>,
         NEW c \in Clients, NEW m \in Messages
  PROVE  \/ CopiesFor(c, m)' = CopiesFor(c, m)
         \/ /\ CopiesFor(c, m)' = CopiesFor(c, m) + 1
            /\ Home[c] = s /\ m = n /\ c \in Members(s, r)
<1> DEFINE q  == Hits(broadcastJobs[Home[c]], JobsFor(m, c))
           q2 == Hits(broadcastJobs'[Home[c]], JobsFor(m, c))
           a == Hits(seen[c], {m})
           b == Hits(broadcasting[Home[c]], JobsFor(m, c))
<1>1. q2 = q \/ (q2 = q + 1 /\ Home[c] = s /\ m = n /\ c \in Members(s, r))
  BY EnqueueHits
<1>2. a \in Nat /\ b \in Nat /\ q \in Nat
  BY HitsAreNatural, Constants
<1>3. JobsFor(m, c)' = JobsFor(m, c)
  BY DEF JobsFor
<1>4. CopiesFor(c, m) = a + q + b /\ CopiesFor(c, m)' = a + q2 + b
  BY <1>3 DEF CopiesFor, Hits
<1> HIDE DEF q, q2, a, b
<1> QED
  BY <1>1, <1>2, <1>4

LEMMA DegradedGrows ==
  ASSUME [Next]_vars
  PROVE  degraded \subseteq degraded'
BY DEF Next, vars, HandleBroadcast, Publish, CircuitOpen, Published,
       PublishFails, FallBack, TakeBroadcastJob, BroadcastWorker, Register,
       Unregister, Receive, Subscribe, SubscriptionBreaks, SubscriptionEnds,
       SubmitDanmaku, CarryOut, publish

(* Only a message that is still on its way can be degraded. *)
LEMMA NotDegraded ==
  ASSUME Typed, OneCopy, NEW n \in Messages, NEW s \in Servers, Origin(n) = s,
         \/ n \in Range(Broadcast[s])
         \/ n \in Range(redisPublishJobs[s])
         \/ \E w \in 1..RedisWorkerCount[s] : publishing[s][w] \in CallsFor(n)
  PROVE  n \notin degraded
<1> DEFINE b == Hits(Broadcast[s], {n})
           r == Hits(redisPublishJobs[s], {n})
           p == Hits(publishing[s], CallsFor(n))
           d == IF n \in degraded THEN 1 ELSE 0
<1>1. b + r + p + d <= 1
  BY DEF OneCopy, UnderWay
<1>2. b \in Nat /\ r \in Nat /\ p \in Nat
  BY HitsAreNatural
<1>3. \A q \in Seq(Messages) : n \in Range(q) => Hits(q, {n}) > 0
  <2> TAKE q \in Seq(Messages)
  <2>1. Hits(q, {n}) > 0 <=> \E i \in 1..Len(q) : q[i] \in {n}
    BY SequenceHits
  <2>2. n \in Range(q) <=> \E i \in 1..Len(q) : q[i] = n
    BY InRange
  <2> QED
    BY <2>1, <2>2
<1>4. /\ n \in Range(Broadcast[s]) => b > 0
      /\ n \in Range(redisPublishJobs[s]) => r > 0
  BY <1>3, Sequences
<1>5. (\E w \in 1..RedisWorkerCount[s] : publishing[s][w] \in CallsFor(n)) => p > 0
  <2>1. publishing[s] \in [1..RedisWorkerCount[s] -> Call \cup {Idle}]
        /\ RedisWorkerCount[s] \in Nat
    BY Constants DEF Typed, TypeOK
  <2> QED
    BY <2>1, WorkerHits
<1>6. b > 0 \/ r > 0 \/ p > 0
  BY <1>4, <1>5
<1> HIDE DEF b, r, p
<1> QED
  BY <1>1, <1>2, <1>6

LEMMA TakeJobCopies ==
  ASSUME Typed, NEW s \in Servers, NEW w \in 1..WorkerCount[s],
         TakeBroadcastJob(s, w), NEW c \in Clients, NEW m \in Messages
  PROVE  CopiesFor(c, m)' = CopiesFor(c, m)
<1> DEFINE J == JobsFor(m, c)
           job == Head(broadcastJobs[s])
           a == Hits(seen[c], {m})
           q  == Hits(broadcastJobs[Home[c]], J)
           q2 == Hits(broadcastJobs'[Home[c]], J)
           b  == Hits(broadcasting[Home[c]], J)
           b2 == Hits(broadcasting'[Home[c]], J)
<1>1. /\ broadcastJobs[s] \in Seq(Job) /\ broadcastJobs[s] # <<>>
      /\ broadcastJobs'[s] = Tail(broadcastJobs[s])
      /\ broadcasting'[s] = [broadcasting[s] EXCEPT ![w] = job]
      /\ \A t \in Servers : t # s =>
           /\ broadcastJobs'[t] = broadcastJobs[t]
           /\ broadcasting'[t] = broadcasting[t]
      /\ broadcasting[s][w] = Idle /\ UNCHANGED seen
  BY TakeJobEffect DEF TakeBroadcastJob
<1>h. Home[c] \in Servers
  BY Constants
<1>2. a \in Nat /\ q \in Nat /\ b \in Nat
  BY <1>h, HitsAreNatural
<1>3. JobsFor(m, c)' = J
  BY DEF JobsFor
<1>4. CopiesFor(c, m) = a + q + b /\ CopiesFor(c, m)' = a + q2 + b2
  BY <1>1, <1>3 DEF CopiesFor, Hits
<1>5. CASE Home[c] # s
  BY <1>1, <1>4, <1>5, <1>h
<1>6. CASE Home[c] = s
  <2>1. Idle \notin J
    BY IdleAssumption DEF JobsFor
  <2> HIDE DEF J, job
  <2>2. Hits(broadcastJobs[s], J)
          = Hits(Tail(broadcastJobs[s]), J) + (IF job \in J THEN 1 ELSE 0)
    BY <1>1, TailHits DEF job
  <2>3. Hits(Tail(broadcastJobs[s]), J) \in Nat
    BY <1>1, HeadTailProperties, SequenceHits
  <2>4. Hits(broadcasting'[s], J) + (IF broadcasting[s][w] \in J THEN 1 ELSE 0)
          = Hits(broadcasting[s], J) + (IF job \in J THEN 1 ELSE 0)
    BY <1>1, WorkersHits
  <2>5. /\ q = q2 + (IF job \in J THEN 1 ELSE 0)
        /\ q2 \in Nat
        /\ b2 + (IF broadcasting[s][w] \in J THEN 1 ELSE 0)
             = b + (IF job \in J THEN 1 ELSE 0)
    BY <1>1, <1>6, <2>2, <2>3, <2>4
  <2>6. broadcasting[s][w] \notin J
    BY <1>1, <2>1
  <2>7. b2 \in Nat
    <3>1. DOMAIN broadcasting'[s] = 1..WorkerCount[s] /\ WorkerCount[s] \in Nat
      BY TakeJobEffect, Constants DEF Typed, TypeOK
    <3>2. IsFiniteSet(DOMAIN broadcasting'[s])
      BY <3>1, FS_Interval
    <3> QED
      BY <1>6, <3>2, HitsNatural
  <2> HIDE DEF a, q, q2, b, b2
  <2> QED
    BY <1>2, <1>4, <2>5, <2>6, <2>7
<1> QED
  BY <1>5, <1>6

LEMMA BroadcastCopies ==
  ASSUME Typed, NEW s \in Servers, NEW w \in 1..WorkerCount[s],
         BroadcastWorker(s, w), Snapshots, NEW c \in Clients, NEW m \in Messages
  PROVE  CopiesFor(c, m)' \in Nat /\ CopiesFor(c, m)' <= CopiesFor(c, m)
<1> DEFINE J == JobsFor(m, c)
           job == broadcasting[s][w]
           a  == Hits(seen[c], {m})
           a2 == Hits(seen'[c], {m})
           q  == Hits(broadcastJobs[Home[c]], J)
           b  == Hits(broadcasting[Home[c]], J)
           b2 == Hits(broadcasting'[Home[c]], J)
<1>1. /\ job \in Job
      /\ broadcasting'[s] = [broadcasting[s] EXCEPT ![w] = Idle]
      /\ \A t \in Servers : t # s => broadcasting'[t] = broadcasting[t]
      /\ \/ c \in job.clients /\ seen'[c] = Append(seen[c], job.message)
         \/ seen'[c] = seen[c]
      /\ UNCHANGED broadcastJobs
  BY BroadcastEffect DEF BroadcastWorker
<1>h. Home[c] \in Servers
  BY Constants
<1>2. a \in Nat /\ q \in Nat /\ b \in Nat
  BY <1>h, HitsAreNatural
<1>3. JobsFor(m, c)' = J
  BY DEF JobsFor
<1>4. CopiesFor(c, m) = a + q + b /\ CopiesFor(c, m)' = a2 + q + b2
  BY <1>1, <1>3 DEF CopiesFor, Hits
<1>5. CASE c \notin job.clients
  <2>1. a2 = a
    BY <1>1, <1>5
  <2>2. b2 = b
    <3>1. CASE Home[c] # s
      BY <1>1, <1>h, <3>1
    <3>2. CASE Home[c] = s
      <4>1. job \notin J /\ Idle \notin J
        BY <1>5, IdleAssumption DEF JobsFor
      <4>2. Hits(broadcasting'[s], J) + (IF broadcasting[s][w] \in J THEN 1 ELSE 0)
              = Hits(broadcasting[s], J) + (IF Idle \in J THEN 1 ELSE 0)
        BY <1>1, WorkersHits
      <4>3. DOMAIN broadcasting'[s] = 1..WorkerCount[s] /\ WorkerCount[s] \in Nat
        BY BroadcastEffect, Constants DEF Typed, TypeOK
      <4>4. IsFiniteSet(DOMAIN broadcasting'[s])
        BY <4>3, FS_Interval
      <4>5. Hits(broadcasting'[s], J) \in Nat /\ Hits(broadcasting[s], J) \in Nat
        BY <1>2, <3>2, <4>4, HitsNatural
      <4> HIDE DEF J
      <4>6. Hits(broadcasting'[s], J) = Hits(broadcasting[s], J)
        BY <4>1, <4>2, <4>5
      <4> QED
        BY <3>2, <4>6
    <3> QED
      BY <3>1, <3>2
  <2> HIDE DEF a, a2, q, b, b2
  <2> QED
    BY <1>2, <1>4, <2>1, <2>2
<1>6. CASE c \in job.clients
  <2>1. Home[c] = s
    <3>1. HasJob(s, job)
      BY DEF HasJob
    <3> QED
      BY <1>1, <1>6, <3>1 DEF Snapshots, JobPlaced
  <2>2. (job \in J <=> job.message = m) /\ Idle \notin J /\ job.message \in Messages
    BY <1>1, <1>6, IdleAssumption DEF JobsFor, Job
  <2>3. Hits(broadcasting'[s], J) + (IF broadcasting[s][w] \in J THEN 1 ELSE 0)
          = Hits(broadcasting[s], J) + (IF Idle \in J THEN 1 ELSE 0)
    BY <1>1, WorkersHits
  <2>4. DOMAIN broadcasting'[s] = 1..WorkerCount[s] /\ WorkerCount[s] \in Nat
    BY BroadcastEffect, Constants DEF Typed, TypeOK
  <2>5. IsFiniteSet(DOMAIN broadcasting'[s])
    BY <2>4, FS_Interval
  <2>6. Hits(broadcasting'[s], J) \in Nat
    BY <2>5, HitsNatural
  <2> HIDE DEF J, job
  <2>7. \A e \in Messages :
          Hits(Append(seen[c], e), {m}) = Hits(seen[c], {m}) + (IF e \in {m} THEN 1 ELSE 0)
    BY Sequences, AppendHits
  <2>8. a2 = a \/ a2 = a + (IF job.message \in {m} THEN 1 ELSE 0)
    BY <1>1, <2>2, <2>7
  <2>9. b2 \in Nat /\ b2 + (IF job \in J THEN 1 ELSE 0) = b
    BY <1>2, <2>1, <2>2, <2>3, <2>6 DEF job
  <2> HIDE DEF a, a2, q, b, b2
  <2> QED
    BY <1>2, <1>4, <2>2, <2>8, <2>9
<1> QED
  BY <1>5, <1>6

LEMMA CopiesKept ==
  ASSUME Typed, Subscriptions, Copies, [Next]_vars,
         NEW c \in Clients, NEW m \in Messages,
         CopiesFor(c, m)' \in Nat, CopiesFor(c, m)' <= CopiesFor(c, m)
  PROVE  CopiesFor(c, m)' <= Cardinality(Gone(c, m)') + Extra(c, m)'
<1> DEFINE g  == Cardinality(Numbered(c, Left(m)))
           g2 == Cardinality(Numbered(c, Left(m)'))
<1>1. g \in Nat /\ g2 \in Nat /\ g <= g2
  <2>1. \A d \in Clients :
          /\ Left(m)[d] \in Int /\ Left(m)'[d] \in Int
          /\ Left(m)[d] <= Left(m)'[d]
    BY LeftGrows
  <2> QED
    BY <2>1, NumberedGrows
<1>2. Extra(c, m) \in {0, 1} /\ Extra(c, m)' \in {0, 1} /\ Extra(c, m) <= Extra(c, m)'
  <2>1. degraded \subseteq degraded'
    BY DegradedGrows
  <2> QED
    BY <2>1 DEF Extra, Origin
<1>3. CopiesFor(c, m) \in Nat
  BY CopiesAreNatural
<1>4. Cardinality(Gone(c, m)) = g /\ Cardinality(Gone(c, m)') = g2
  BY DEF Gone, Numbered, Same
<1>5. CopiesFor(c, m) <= g + Extra(c, m)
  BY <1>4 DEF Copies
<1> HIDE DEF g, g2
<1> QED
  BY <1>1, <1>2, <1>3, <1>4, <1>5

LEMMA FallBackCopies ==
  ASSUME Typed, Subscriptions, Copies, [Next]_vars,
         NEW s \in Servers, NEW n \in Messages, Origin(n) = s, n \notin degraded,
         degraded' = degraded \cup {n}, EnqueueLocalBroadcast(s, Room(n), n),
         UNCHANGED <<seen, broadcasting>>,
         NEW c \in Clients, NEW m \in Messages
  PROVE  CopiesFor(c, m)' <= Cardinality(Gone(c, m)') + Extra(c, m)'
<1>1. CopiesFor(c, m) \in Nat
  BY CopiesAreNatural
<1>2. \/ CopiesFor(c, m)' = CopiesFor(c, m)
      \/ CopiesFor(c, m)' = CopiesFor(c, m) + 1 /\ Home[c] = s /\ m = n
  BY EnqueueCopies
<1>3. CASE CopiesFor(c, m)' = CopiesFor(c, m)
  BY <1>1, <1>3, CopiesKept
<1>4. CASE CopiesFor(c, m)' = CopiesFor(c, m) + 1 /\ Home[c] = s /\ m = n
  <2> DEFINE g  == Cardinality(Numbered(c, Left(m)))
             g2 == Cardinality(Numbered(c, Left(m)'))
  <2>1. g \in Nat /\ g2 \in Nat /\ g <= g2
    <3>1. \A d \in Clients :
            /\ Left(m)[d] \in Int /\ Left(m)'[d] \in Int
            /\ Left(m)[d] <= Left(m)'[d]
      BY LeftGrows
    <3> QED
      BY <3>1, NumberedGrows
  <2>2. Extra(c, m) = 0 /\ Extra(c, m)' = 1
    BY <1>4 DEF Extra, Origin
  <2>3. Cardinality(Gone(c, m)) = g /\ Cardinality(Gone(c, m)') = g2
    BY DEF Gone, Numbered, Same
  <2>4. CopiesFor(c, m) <= g + Extra(c, m)
    BY <2>3 DEF Copies
  <2> HIDE DEF g, g2
  <2> QED
    BY <1>1, <1>4, <2>1, <2>2, <2>3, <2>4
<1> QED
  BY <1>2, <1>3, <1>4

LEMMA ReceiveCopies ==
  ASSUME Typed, Upstream, Subscriptions, Copies, [Next]_vars,
         NEW b \in Clients, Receive(b), NEW c \in Clients, NEW m \in Messages
  PROVE  CopiesFor(c, m)' <= Cardinality(Gone(c, m)') + Extra(c, m)'
<1> DEFINE n == Head(channel[b])
<1>1. CopiesFor(c, m) \in Nat
  BY CopiesAreNatural
<1>2. /\ n \in Messages /\ Home[b] \in Servers
      /\ EnqueueLocalBroadcast(Home[b], RoomOf[b], n)
      /\ UNCHANGED <<seen, broadcasting>>
  BY ReceiveArrived DEF Receive, workers
<1> HIDE DEF n
<1>3. \/ CopiesFor(c, m)' = CopiesFor(c, m)
      \/ /\ CopiesFor(c, m)' = CopiesFor(c, m) + 1
         /\ Home[c] = Home[b] /\ m = n /\ c \in Members(Home[b], RoomOf[b])
  BY <1>2, EnqueueCopies
<1>4. CASE CopiesFor(c, m)' = CopiesFor(c, m)
  BY <1>1, <1>4, CopiesKept
<1>5. CASE /\ CopiesFor(c, m)' = CopiesFor(c, m) + 1
           /\ Home[c] = Home[b] /\ m = n /\ c \in Members(Home[b], RoomOf[b])
  <2> DEFINE g  == Cardinality(Numbered(c, Left(m)))
             g2 == Cardinality(Numbered(c, Left(m)'))
  <2>1. g \in Nat /\ g2 \in Nat /\ g + 1 <= g2
    <3>1. \A d \in Clients :
            /\ Left(m)[d] \in Int /\ Left(m)'[d] \in Int
            /\ Left(m)[d] <= Left(m)'[d]
      BY LeftGrows
    <3>2. Same(c, b)
      BY <1>5 DEF Members, Same
    <3>3. Left(m)'[b] = Left(m)[b] + 1
      BY <1>5, ReceiveLeft DEF n
    <3>4. Left(m)[b] \in Nat
      BY LeftIsNatural
    <3> QED
      BY <3>1, <3>2, <3>3, <3>4, NumberedGains
  <2>2. Extra(c, m) \in {0, 1} /\ Extra(c, m)' \in {0, 1} /\ Extra(c, m) <= Extra(c, m)'
    <3>1. degraded \subseteq degraded'
      BY DegradedGrows
    <3> QED
      BY <3>1 DEF Extra, Origin
  <2>3. Cardinality(Gone(c, m)) = g /\ Cardinality(Gone(c, m)') = g2
    BY DEF Gone, Numbered, Same
  <2>4. CopiesFor(c, m) <= g + Extra(c, m)
    BY <2>3 DEF Copies
  <2> HIDE DEF g, g2
  <2> QED
    BY <1>1, <1>5, <2>1, <2>2, <2>3, <2>4
<1> QED
  BY <1>3, <1>4, <1>5

LEMMA CopiesStep ==
  ASSUME Typed, Upstream, Subscriptions, Snapshots, OneCopy, Copies, [Next]_vars
  PROVE  Copies'
<1> SUFFICES ASSUME NEW c \in Clients, NEW m \in Messages
             PROVE  CopiesFor(c, m)' <= Cardinality(Gone(c, m)') + Extra(c, m)'
  BY DEF Copies
<1>0. CopiesFor(c, m) \in Nat
  BY CopiesAreNatural
<1>1. ASSUME NEW s \in Servers, HandleBroadcast(s)
      PROVE  CopiesFor(c, m)' <= Cardinality(Gone(c, m)') + Extra(c, m)'
  <2> DEFINE n == Head(Broadcast[s])
  <2>1. /\ n \in Messages /\ n \in Range(Broadcast[s])
        /\ \/ UNCHANGED broadcastJobs
           \/ degraded' = degraded \cup {n} /\ EnqueueLocalBroadcast(s, Room(n), n)
        /\ UNCHANGED <<seen, broadcasting>>
    BY <1>1, HandleEffect, HandleRange DEF HandleBroadcast, workers
  <2> HIDE DEF n
  <2>2. CASE UNCHANGED broadcastJobs
    <3>1. CopiesFor(c, m)' = CopiesFor(c, m)
      BY <2>1, <2>2 DEF CopiesFor, Hits, JobsFor
    <3> QED
      BY <1>0, <3>1, CopiesKept
  <2>3. CASE degraded' = degraded \cup {n} /\ EnqueueLocalBroadcast(s, Room(n), n)
    <3>1. Origin(n) = s
      BY <2>1 DEF Upstream
    <3>2. n \notin degraded
      BY <2>1, <3>1, NotDegraded
    <3> QED
      BY <2>1, <2>3, <3>1, <3>2, FallBackCopies
  <2> QED
    BY <2>1, <2>2, <2>3
<1>2. ASSUME NEW s \in Servers, NEW w \in 1..RedisWorkerCount[s], CircuitOpen(s, w)
      PROVE  CopiesFor(c, m)' <= Cardinality(Gone(c, m)') + Extra(c, m)'
  <2> DEFINE n == Head(redisPublishJobs[s])
  <2>1. /\ n \in Messages /\ n \in Range(redisPublishJobs[s])
        /\ degraded' = degraded \cup {n} /\ EnqueueLocalBroadcast(s, Room(n), n)
        /\ UNCHANGED <<seen, broadcasting>>
    BY <1>2, CircuitOpenEffect, TakePublishRange DEF CircuitOpen, workers
  <2> HIDE DEF n
  <2>2. Origin(n) = s
    BY <2>1 DEF Upstream
  <2>3. n \notin degraded
    BY <2>1, <2>2, NotDegraded
  <2> QED
    BY <2>1, <2>2, <2>3, FallBackCopies
<1>3. ASSUME NEW s \in Servers, NEW w \in 1..RedisWorkerCount[s], PublishFails(s, w)
      PROVE  CopiesFor(c, m)' <= Cardinality(Gone(c, m)') + Extra(c, m)'
  <2> DEFINE n == publishing[s][w].message
  <2>1. /\ n \in Messages /\ publishing[s][w] \in CallsFor(n)
        /\ degraded' = degraded \cup {n} /\ EnqueueLocalBroadcast(s, Room(n), n)
        /\ UNCHANGED <<seen, broadcasting>>
    BY <1>3, PublishFailsEffect DEF PublishFails, workers, CallsFor
  <2> HIDE DEF n
  <2>2. Origin(n) = s
    BY <2>1 DEF Upstream
  <2>3. n \notin degraded
    BY <2>1, <2>2, NotDegraded
  <2> QED
    BY <2>1, <2>2, <2>3, FallBackCopies
<1>4. ASSUME NEW b \in Clients, Receive(b)
      PROVE  CopiesFor(c, m)' <= Cardinality(Gone(c, m)') + Extra(c, m)'
  BY <1>4, ReceiveCopies
<1>5. ASSUME NEW s \in Servers, NEW w \in 1..WorkerCount[s],
             TakeBroadcastJob(s, w) \/ BroadcastWorker(s, w)
      PROVE  CopiesFor(c, m)' <= Cardinality(Gone(c, m)') + Extra(c, m)'
  <2>1. CopiesFor(c, m)' \in Nat /\ CopiesFor(c, m)' <= CopiesFor(c, m)
    BY <1>0, <1>5, TakeJobCopies, BroadcastCopies
  <2> QED
    BY <2>1, CopiesKept
<1>6. ASSUME UNCHANGED <<seen, broadcastJobs, broadcasting>>
      PROVE  CopiesFor(c, m)' <= Cardinality(Gone(c, m)') + Extra(c, m)'
  <2>1. CopiesFor(c, m)' = CopiesFor(c, m)
    BY <1>6 DEF CopiesFor, Hits, JobsFor
  <2> QED
    BY <1>0, <2>1, CopiesKept
<1> QED
  BY <1>1, <1>2, <1>3, <1>4, <1>5, <1>6
  DEF Next, vars, Publish, Published, Register, Unregister, Subscribe,
      SubscriptionBreaks, SubscriptionEnds, SubmitDanmaku, CarryOut, locals,
      workers

LEMMA InitCopies ==
  ASSUME Init
  PROVE  OneCopy /\ Copies
<1>1. Typed /\ Provenance
  BY InitTyped, InitProvenance
<1>2. OneCopy
  <2>1. \A m \in Messages : ~Accepted(m)
    BY EmptyRange, Constants DEF Init, Accepted
  <2>2. \A m \in Messages : UnderWay(m) = 0
    BY <1>1, <2>1, UnderWayAtRest DEF Provenance
  <2> QED
    BY <2>2 DEF OneCopy
<1>3. ASSUME NEW c \in Clients, NEW m \in Messages
      PROVE  CopiesFor(c, m) <= Cardinality(Gone(c, m)) + Extra(c, m)
  <2>1. Home[c] \in Servers
    BY Constants
  <2>2. seen[c] = <<>> /\ broadcastJobs[Home[c]] = <<>>
    BY <2>1 DEF Init
  <2>3. Hits(seen[c], {m}) = 0 /\ Hits(broadcastJobs[Home[c]], JobsFor(m, c)) = 0
    BY <2>2, EmptyHits, Zenon
  <2>4. Hits(broadcasting[Home[c]], JobsFor(m, c)) = 0
    <3>1. broadcasting[Home[c]] = [w \in 1..WorkerCount[Home[c]] |-> Idle]
      BY <2>1 DEF Init
    <3>2. Idle \notin JobsFor(m, c)
      BY IdleAssumption DEF JobsFor
    <3>3. {w \in DOMAIN broadcasting[Home[c]] :
             broadcasting[Home[c]][w] \in JobsFor(m, c)} = {}
      BY <3>1, <3>2
    <3> QED
      BY <3>3, FS_EmptySet DEF Hits
  <2>5. Cardinality(Gone(c, m)) \in Nat
    <3>1. \A d \in Clients : Left(m)[d] \in Int
      BY <1>1, LeftIsNatural DEF Provenance
    <3> QED
      BY <3>1, NumberedMembers DEF Gone
  <2> QED
    BY <2>3, <2>4, <2>5 DEF CopiesFor, Extra
<1> QED
  BY <1>2, <1>3 DEF Copies

Explained ==
  /\ Typed
  /\ Provenance
  /\ OneCopy
  /\ Copies

LEMMA ExplainedInit == Init => Explained
BY InitTyped, InitProvenance, InitCopies DEF Explained

LEMMA ExplainedStep ==
  ASSUME Explained, [Next]_vars
  PROVE  Explained'
<1>1. Typed' /\ Provenance'
  BY TypedStep, ProvenanceStep DEF Explained
<1>2. OneCopy' /\ Copies'
  BY OneCopyStep, CopiesStep DEF Explained, Provenance
<1> QED
  BY <1>1, <1>2 DEF Explained

LEMMA ExplainedCopies ==
  ASSUME Explained
  PROVE  CopiesAreExplained
<1> SUFFICES ASSUME NEW c \in Clients, NEW m \in Messages
             PROVE  Times(seen[c], m) <= Cardinality(Arrivals(c, m)) + Extra(c, m)
  BY DEF Explained, Provenance, SeenPlaced, CopiesAreExplained, Extra
<1>t. Typed /\ Subscriptions
  BY DEF Explained, Provenance
<1>1. CopiesFor(c, m) <= Cardinality(Gone(c, m)) + Extra(c, m)
  BY DEF Explained, Copies
<1>2. Cardinality(Gone(c, m)) \in Nat /\ Cardinality(Arrivals(c, m)) \in Nat
      /\ Cardinality(Gone(c, m)) <= Cardinality(Arrivals(c, m))
  <2>1. ASSUME NEW d \in Clients
        PROVE  /\ Left(m)[d] \in Int /\ arrivals[m][d] \in Int
               /\ Left(m)[d] <= arrivals[m][d]
    <3>1. arrivals[m][d] \in Nat
      BY <1>t DEF Typed, TypeOK
    <3>2. Hits(channel[d], {m}) \in Nat
      BY <1>t, HitsAreNatural
    <3>3. Left(m)[d] = arrivals[m][d] - Hits(channel[d], {m})
      BY DEF Left
    <3> QED
      BY <3>1, <3>2, <3>3
  <2>2. Arrivals(c, m) = Numbered(c, arrivals[m])
    BY DEF Arrivals, Numbered
  <2> QED
    BY <2>1, <2>2, NumberedGrows DEF Gone
<1>3. Times(seen[c], m) = Hits(seen[c], {m})
  <2>1. DOMAIN seen[c] = 1..Len(seen[c])
    BY <1>t, Sequences, LenProperties
  <2> QED
    BY <2>1 DEF Times, Hits
<1>4. /\ Hits(seen[c], {m}) \in Nat
      /\ Home[c] \in Servers
  BY <1>t, HitsAreNatural, Constants
<1>5. /\ Hits(broadcastJobs[Home[c]], JobsFor(m, c)) \in Nat
      /\ Hits(broadcasting[Home[c]], JobsFor(m, c)) \in Nat
  BY <1>t, <1>4, HitsAreNatural
<1>6. Hits(seen[c], {m}) <= CopiesFor(c, m) /\ CopiesFor(c, m) \in Nat
  BY <1>4, <1>5 DEF CopiesFor
<1>7. Extra(c, m) \in {0, 1}
  BY DEF Extra
<1> QED
  BY <1>1, <1>2, <1>3, <1>4, <1>6, <1>7

(* However the servers, the Redis clients and the rooms behave, a client   *)
(* sees a message at most as often as Redis gave it to a subscription of   *)
(* its room on its server, and once more where its sender's server fell    *)
(* back to a local broadcast (redisPublishWorker, subscribeToRoom,         *)
(* broadcastWorker, manager.go); and it sees nothing of another room.      *)
THEOREM CopiesExplained == Spec => []CopiesAreExplained
BY ExplainedInit, ExplainedStep, ExplainedCopies, PTL DEF Spec
-----------------------------------------------------------------------------

(* What is missed *)

Calling(m) ==
  \E w \in 1..RedisWorkerCount[Origin(m)] :
    publishing[Origin(m)][w] \in CallsFor(m)

(* The sender's server has it in hand. *)
InHand(m) ==
  \/ m \in Range(Broadcast[Origin(m)])
  \/ m \in Range(redisPublishJobs[Origin(m)])
  \/ Calling(m)

(* An accepted message goes on until Redis has carried it out or it is     *)
(* degraded.                                                               *)
Forwarded ==
  \A m \in Messages :
    Accepted(m) => InHand(m) \/ m \in degraded \/ carried[m] > 0

(* The client has the message, a broadcast of its server that includes it  *)
(* is to come, or one was dropped.                                         *)
Covered(m, c) ==
  \/ m \in Range(seen[c])
  \/ <<m, c>> \in lost
  \/ <<m, Home[c]>> \in lost
  \/ \E job \in JobsFor(m, c) : HasJob(Home[c], job)

(* Who is in the room to the end is covered by a fallback of its server,   *)
(* and by every arrival at the subscription the room has now.              *)
Delivered ==
  \A m \in Messages : \A c \in audience[m] : phase[c] = "inside" =>
    /\ m \in degraded /\ Home[c] = Origin(m) => Covered(m, c)
    /\ \A d \in Clients : Current(d, c) /\ arrivals[m][d] > 0 =>
         m \in Range(channel[d]) \/ Covered(m, c)

LEMMA InHandKept ==
  ASSUME Typed, Upstream, [Next]_vars, NEW m \in Messages, InHand(m)
  PROVE  InHand(m)' \/ m \in degraded' \/ carried'[m] > 0
<1>o. Origin(m)' = Origin(m) /\ CallsFor(m)' = CallsFor(m) /\ Origin(m) \in Servers
  BY Constants DEF Origin, CallsFor
<1>h. InHand(m)' <=> \/ m \in Range(Broadcast'[Origin(m)])
                     \/ m \in Range(redisPublishJobs'[Origin(m)])
                     \/ \E w \in 1..RedisWorkerCount[Origin(m)] :
                          publishing'[Origin(m)][w] \in CallsFor(m)
  BY <1>o DEF InHand, Calling
<1>p. \A s \in Servers :
        publishing[s] \in [1..RedisWorkerCount[s] -> Call \cup {Idle}]
  BY DEF Typed, TypeOK
<1>1. ASSUME NEW n \in Messages, SubmitDanmaku(n)
      PROVE  InHand(m)'
  <2>1. /\ Range(Broadcast'[Origin(n)]) = Range(Broadcast[Origin(n)]) \cup {n}
        /\ \A s \in Servers : s # Origin(n) => Broadcast'[s] = Broadcast[s]
        /\ UNCHANGED <<redisPublishJobs, publishing>>
    BY <1>1, SubmitRange, SubmitEffect DEF SubmitDanmaku, publish
  <2>2. Range(Broadcast[Origin(m)]) \subseteq Range(Broadcast'[Origin(m)])
    BY <2>1, <1>o
  <2> QED
    BY <1>h, <2>1, <2>2 DEF InHand, Calling
<1>2. ASSUME NEW s \in Servers, HandleBroadcast(s)
      PROVE  InHand(m)' \/ m \in degraded'
  <2> DEFINE n == Head(Broadcast[s])
  <2>1. /\ Range(Broadcast[s]) = Range(Broadcast'[s]) \cup {n}
        /\ n \in Messages
        /\ \/ Range(redisPublishJobs'[s]) = Range(redisPublishJobs[s]) \cup {n}
           \/ UNCHANGED redisPublishJobs /\ degraded' = degraded \cup {n}
        /\ \A u \in Servers : u # s =>
             /\ Broadcast'[u] = Broadcast[u]
             /\ redisPublishJobs'[u] = redisPublishJobs[u]
        /\ UNCHANGED publishing
    <3>1. redisPublishJobs[s] \in Seq(Messages) /\ n \in Messages
      BY <1>2, Sequences, HandleEffect
    <3> HIDE DEF n
    <3>2. \A q \in Seq(Messages) : Range(Append(q, n)) = Range(q) \cup {n}
      BY <3>1, AppendRange
    <3> QED
      BY <1>2, <3>1, <3>2, HandleEffect, HandleRange DEF n, HandleBroadcast
  <2> HIDE DEF n
  <2>2. CASE Origin(m) # s
    BY <1>h, <1>o, <2>1, <2>2 DEF InHand, Calling
  <2>3. CASE Origin(m) = s
    BY <1>h, <1>o, <2>1, <2>3 DEF InHand, Calling
  <2> QED
    BY <2>2, <2>3
<1>3. ASSUME NEW s \in Servers, NEW w \in 1..RedisWorkerCount[s], Publish(s, w)
      PROVE  InHand(m)'
  <2> DEFINE n == Head(redisPublishJobs[s])
             call == [message |-> n, answer |-> FALSE]
  <2>1. /\ Range(redisPublishJobs[s]) = Range(redisPublishJobs'[s]) \cup {n}
        /\ publishing[s][w] = Idle
        /\ publishing'[s] = [publishing[s] EXCEPT ![w] = call]
        /\ \A u \in Servers : u # s =>
             /\ redisPublishJobs'[u] = redisPublishJobs[u]
             /\ publishing'[u] = publishing[u]
        /\ UNCHANGED Broadcast
    BY <1>3, TakePublishRange, PublishEffect DEF Publish, ingress
  <2>2. n \in Messages
    BY <1>3, PublishEffect
  <2>3. call \in CallsFor(n)
    BY <2>2 DEF CallsFor, Call
  <2>4. Idle \notin CallsFor(m)
    BY IdleAssumption DEF CallsFor
  <2> HIDE DEF n, call
  <2>5. CASE Origin(m) # s
    BY <1>h, <1>o, <2>1, <2>5 DEF InHand, Calling
  <2>6. CASE Origin(m) = s
    <3>1. CASE m = n
      <4>1. publishing'[s][w] = call
        BY <1>p, <2>1
      <4> QED
        BY <1>h, <2>3, <2>6, <3>1, <4>1
    <3>2. CASE m \in Range(Broadcast[s])
      BY <1>h, <2>1, <2>6, <3>2
    <3>3. CASE m \in Range(redisPublishJobs[s]) /\ m # n
      BY <1>h, <2>1, <2>6, <3>3
    <3>4. ASSUME NEW v \in 1..RedisWorkerCount[s], publishing[s][v] \in CallsFor(m)
          PROVE  InHand(m)'
      <4>1. v # w
        BY <2>1, <2>4, <3>4
      <4>2. publishing'[s][v] = publishing[s][v]
        BY <1>p, <2>1, <4>1
      <4> QED
        BY <1>h, <2>6, <3>4, <4>2
    <3> QED
      BY <2>6, <3>1, <3>2, <3>3, <3>4 DEF InHand, Calling
  <2> QED
    BY <2>5, <2>6
<1>4. ASSUME NEW s \in Servers, NEW w \in 1..RedisWorkerCount[s], CircuitOpen(s, w)
      PROVE  InHand(m)' \/ m \in degraded'
  <2> DEFINE n == Head(redisPublishJobs[s])
  <2>1. /\ Range(redisPublishJobs[s]) = Range(redisPublishJobs'[s]) \cup {n}
        /\ degraded' = degraded \cup {n}
        /\ \A u \in Servers : u # s => redisPublishJobs'[u] = redisPublishJobs[u]
        /\ UNCHANGED <<Broadcast, publishing>>
    BY <1>4, TakePublishRange, CircuitOpenEffect DEF CircuitOpen, ingress
  <2> HIDE DEF n
  <2>2. CASE Origin(m) # s
    BY <1>h, <1>o, <2>1, <2>2 DEF InHand, Calling
  <2>3. CASE Origin(m) = s
    BY <1>h, <1>o, <2>1, <2>3 DEF InHand, Calling
  <2> QED
    BY <2>2, <2>3
<1>5. ASSUME NEW s \in Servers, NEW w \in 1..RedisWorkerCount[s],
             Published(s, w) \/ PublishFails(s, w)
      PROVE  InHand(m)' \/ m \in degraded' \/ carried'[m] > 0
  <2> DEFINE n == publishing[s][w].message
  <2>1. /\ publishing[s][w] # Idle
        /\ publishing' = [publishing EXCEPT ![s][w] = Idle]
        /\ UNCHANGED <<Broadcast, redisPublishJobs, carried>>
        /\ \/ publishing[s][w].answer
           \/ degraded' = degraded \cup {n}
    BY <1>5 DEF Published, PublishFails, FallBack, ingress, redis
  <2>2. /\ publishing[s][w] \in Call /\ n \in Messages
        /\ publishing'[s] = [publishing[s] EXCEPT ![w] = Idle]
        /\ \A u \in Servers : u # s => publishing'[u] = publishing[u]
    BY <2>1, CallEndsEffect
  <2>3. publishing[s][w] \in CallsFor(n)
    BY <2>2 DEF CallsFor
  <2> HIDE DEF n
  <2>4. publishing[s][w].answer => carried[n] > 0
    BY <2>2, <2>3 DEF Upstream
  <2>5. CASE Origin(m) # s
    BY <1>h, <1>o, <2>1, <2>2, <2>5 DEF InHand, Calling
  <2>6. CASE Origin(m) = s
    <3>1. CASE m = n
      BY <2>1, <2>4, <3>1
    <3>2. CASE m \in Range(Broadcast[s]) \/ m \in Range(redisPublishJobs[s])
      BY <1>h, <2>1, <2>6, <3>2
    <3>3. ASSUME NEW v \in 1..RedisWorkerCount[s], publishing[s][v] \in CallsFor(m),
                 m # n
          PROVE  InHand(m)'
      <4>1. v # w
        BY <2>3, <3>3 DEF CallsFor
      <4>2. publishing'[s][v] = publishing[s][v]
        BY <1>p, <2>2, <4>1
      <4> QED
        BY <1>h, <2>6, <3>3, <4>2
    <3> QED
      BY <2>6, <3>1, <3>2, <3>3 DEF InHand, Calling
  <2> QED
    BY <2>5, <2>6
<1>6. ASSUME NEW n \in Messages, CarryOut(n)
      PROVE  InHand(m)'
  <2>1. \A w \in 1..RedisWorkerCount[Origin(m)] :
          publishing'[Origin(m)][w] \in CallsFor(m)
            <=> publishing[Origin(m)][w] \in CallsFor(m)
    BY <1>6, <1>o, AnswersKeepCalls
  <2>2. UNCHANGED <<Broadcast, redisPublishJobs>>
    BY <1>6 DEF CarryOut, ingress
  <2> QED
    BY <1>h, <2>1, <2>2 DEF InHand, Calling
<1>7. CASE UNCHANGED <<Broadcast, redisPublishJobs, publishing>>
  BY <1>h, <1>7 DEF InHand, Calling
<1> QED
  BY <1>1, <1>2, <1>3, <1>4, <1>5, <1>6, <1>7
  DEF Next, vars, TakeBroadcastJob, BroadcastWorker, Register, Unregister,
      Receive, Subscribe, SubscriptionBreaks, SubscriptionEnds, ingress, publish

LEMMA CarriedGrows ==
  ASSUME Typed, [Next]_vars, NEW m \in Messages
  PROVE  /\ carried[m] \in Nat /\ carried'[m] \in Nat
         /\ carried[m] <= carried'[m]
<1>1. carried[m] \in Nat /\ carried'[m] \in Nat
  BY TypedStep DEF Typed, TypeOK
<1>2. ASSUME NEW n \in Messages, CarryOut(n)
      PROVE  carried[m] <= carried'[m]
  <2>1. carried'[m] = carried[m] \/ carried'[m] = carried[m] + 1
    BY <1>2, CarryOutEffect
  <2> QED
    BY <1>1, <2>1
<1>3. CASE UNCHANGED carried
  BY <1>1, <1>3
<1> QED
  BY <1>1, <1>2, <1>3
  DEF Next, vars, HandleBroadcast, Publish, CircuitOpen, Published,
      PublishFails, TakeBroadcastJob, BroadcastWorker, Register, Unregister,
      Receive, Subscribe, SubscriptionBreaks, SubscriptionEnds, SubmitDanmaku,
      redis

LEMMA ForwardedStep ==
  ASSUME Typed, Upstream, Forwarded, [Next]_vars
  PROVE  Forwarded'
<1> SUFFICES ASSUME NEW m \in Messages, Accepted(m)'
             PROVE  InHand(m)' \/ m \in degraded' \/ carried'[m] > 0
  BY DEF Forwarded
<1>1. CASE Accepted(m)
  <2>1. CASE InHand(m)
    BY <2>1, InHandKept
  <2>2. CASE m \in degraded
    BY <2>2, DegradedGrows
  <2>3. CASE carried[m] > 0
    BY <2>3, CarriedGrows
  <2> QED
    BY <1>1, <2>1, <2>2, <2>3 DEF Forwarded
<1>2. ASSUME NEW n \in Messages, SubmitDanmaku(n), ~Accepted(m)
      PROVE  InHand(m)'
  <2>1. /\ Range(accepted'[Origin(n)]) = Range(accepted[Origin(n)]) \cup {n}
        /\ Range(Broadcast'[Origin(n)]) = Range(Broadcast[Origin(n)]) \cup {n}
        /\ \A s \in Servers : s # Origin(n) => accepted'[s] = accepted[s]
    BY <1>2, SubmitRange, SubmitEffect
  <2>2. Origin(m)' = Origin(m) /\ Origin(m) \in Servers
    BY Constants DEF Origin
  <2>3. m = n
    BY <1>2, <2>1, <2>2 DEF Accepted
  <2> QED
    BY <2>1, <2>2, <2>3 DEF InHand
<1>3. CASE UNCHANGED accepted
  <2>1. Accepted(m)
    BY <1>3 DEF Accepted, Origin
  <2> QED
    BY <1>1, <2>1
<1> QED
  BY <1>1, <1>2, <1>3
  DEF Next, vars, HandleBroadcast, Publish, CircuitOpen, Published,
      PublishFails, TakeBroadcastJob, BroadcastWorker, Register, Unregister,
      Receive, Subscribe, SubscriptionBreaks, SubscriptionEnds, CarryOut,
      ingress

(* A snapshot waits for a worker, and a worker keeps it to the end. *)
LEMMA JobsKept ==
  ASSUME Typed, [Next]_vars, NEW s \in Servers, NEW job \in Job, HasJob(s, job)
  PROVE  \/ HasJob(s, job)'
         \/ \E w \in 1..WorkerCount[s] :
              BroadcastWorker(s, w) /\ broadcasting[s][w] = job
<1>h. \/ job \in Range(broadcastJobs[s])
      \/ \E v \in 1..WorkerCount[s] : broadcasting[s][v] = job
  BY DEF HasJob
<1>j. HasJob(s, job)' <=> \/ job \in Range(broadcastJobs'[s])
                          \/ \E v \in 1..WorkerCount[s] : broadcasting'[s][v] = job
  BY DEF HasJob
<1>p. broadcasting[s] \in [1..WorkerCount[s] -> Job \cup {Idle}]
  BY DEF Typed, TypeOK
<1>e. ASSUME NEW t \in Servers, NEW r, NEW n \in Messages,
             EnqueueLocalBroadcast(t, r, n), UNCHANGED broadcasting
      PROVE  HasJob(s, job)'
  <2>1. Range(broadcastJobs[s]) \subseteq Range(broadcastJobs'[s])
    BY <1>e, EnqueueRange
  <2> QED
    BY <1>e, <1>h, <1>j, <2>1
<1>1. ASSUME NEW t \in Servers, HandleBroadcast(t)
      PROVE  HasJob(s, job)'
  <2> DEFINE n == Head(Broadcast[t])
  <2>1. /\ n \in Messages
        /\ UNCHANGED broadcasting
        /\ UNCHANGED broadcastJobs \/ EnqueueLocalBroadcast(t, Room(n), n)
    BY <1>1, HandleEffect DEF HandleBroadcast, workers
  <2> HIDE DEF n
  <2> QED
    BY <1>e, <1>h, <1>j, <2>1
<1>2. ASSUME NEW t \in Servers, NEW w \in 1..RedisWorkerCount[t], CircuitOpen(t, w)
      PROVE  HasJob(s, job)'
  <2> DEFINE n == Head(redisPublishJobs[t])
  <2>1. /\ n \in Messages
        /\ UNCHANGED broadcasting
        /\ EnqueueLocalBroadcast(t, Room(n), n)
    BY <1>2, CircuitOpenEffect DEF CircuitOpen, workers
  <2> HIDE DEF n
  <2> QED
    BY <1>e, <2>1
<1>3. ASSUME NEW t \in Servers, NEW w \in 1..RedisWorkerCount[t], PublishFails(t, w)
      PROVE  HasJob(s, job)'
  <2> DEFINE n == publishing[t][w].message
  <2>1. /\ n \in Messages
        /\ UNCHANGED broadcasting
        /\ EnqueueLocalBroadcast(t, Room(n), n)
    BY <1>3, PublishFailsEffect DEF PublishFails, workers
  <2> HIDE DEF n
  <2> QED
    BY <1>e, <2>1
<1>4. ASSUME NEW b \in Clients, Receive(b)
      PROVE  HasJob(s, job)'
  <2> DEFINE n == Head(channel[b])
  <2>1. /\ n \in Messages /\ Home[b] \in Servers
        /\ UNCHANGED broadcasting
        /\ EnqueueLocalBroadcast(Home[b], RoomOf[b], n)
    BY <1>4, ReceiveTyped, Constants DEF Receive, workers
  <2> HIDE DEF n
  <2> QED
    BY <1>e, <2>1
<1>5. ASSUME NEW t \in Servers, NEW w \in 1..WorkerCount[t], TakeBroadcastJob(t, w)
      PROVE  HasJob(s, job)'
  <2>1. /\ broadcastJobs[t] \in Seq(Job) /\ broadcastJobs[t] # <<>>
        /\ broadcastJobs'[t] = Tail(broadcastJobs[t])
        /\ broadcasting'[t] = [broadcasting[t] EXCEPT ![w] = Head(broadcastJobs[t])]
        /\ \A u \in Servers : u # t =>
             /\ broadcastJobs'[u] = broadcastJobs[u]
             /\ broadcasting'[u] = broadcasting[u]
        /\ broadcasting[t][w] = Idle
    BY <1>5, TakeJobEffect DEF TakeBroadcastJob
  <2>2. CASE s # t
    BY <1>h, <1>j, <2>1, <2>2
  <2>3. CASE s = t
    <3>1. Range(broadcastJobs[t])
            = Range(broadcastJobs'[t]) \cup {Head(broadcastJobs[t])}
      <4>1. \A q \in Seq(Job) : q # <<>> => Range(q) = Range(Tail(q)) \cup {Head(q)}
        BY TailRange
      <4> QED
        BY <2>1, <4>1
    <3>2. broadcasting'[s][w] = Head(broadcastJobs[s])
      BY <1>p, <2>1, <2>3
    <3>3. ASSUME NEW v \in 1..WorkerCount[s], broadcasting[s][v] = job
          PROVE  broadcasting'[s][v] = job
      <4>1. v # w
        BY <2>1, <2>3, <3>3, IdleAssumption
      <4> QED
        BY <1>p, <2>1, <2>3, <3>3, <4>1
    <3> QED
      BY <1>h, <1>j, <2>3, <3>1, <3>2, <3>3
  <2> QED
    BY <2>2, <2>3
<1>6. ASSUME NEW t \in Servers, NEW w \in 1..WorkerCount[t], BroadcastWorker(t, w)
      PROVE  \/ HasJob(s, job)'
             \/ t = s /\ broadcasting[s][w] = job
  <2>1. /\ broadcasting'[t] = [broadcasting[t] EXCEPT ![w] = Idle]
        /\ \A u \in Servers : u # t => broadcasting'[u] = broadcasting[u]
        /\ UNCHANGED broadcastJobs
    BY <1>6, BroadcastEffect DEF BroadcastWorker
  <2>2. CASE s # t
    BY <1>h, <1>j, <2>1, <2>2
  <2>3. CASE s = t
    <3>1. \A v \in 1..WorkerCount[s] : v # w => broadcasting'[s][v] = broadcasting[s][v]
      BY <1>p, <2>1, <2>3
    <3> QED
      BY <1>h, <1>j, <2>1, <2>3, <3>1
  <2> QED
    BY <2>2, <2>3
<1>7. CASE UNCHANGED <<broadcastJobs, broadcasting>>
  BY <1>7, <1>h, <1>j
<1> QED
  BY <1>1, <1>2, <1>3, <1>4, <1>5, <1>6, <1>7
  DEF Next, vars, Publish, Published, Register, Unregister, Subscribe,
      SubscriptionBreaks, SubscriptionEnds, SubmitDanmaku, CarryOut, locals,
      workers

LEMMA LostGrows ==
  ASSUME [Next]_vars
  PROVE  lost \subseteq lost'
<1>1. ASSUME NEW s, NEW r, NEW m, EnqueueLocalBroadcast(s, r, m)
      PROVE  lost \subseteq lost'
  BY <1>1 DEF EnqueueLocalBroadcast, locals
<1>2. ASSUME NEW s \in Servers, HandleBroadcast(s)
      PROVE  lost \subseteq lost'
  BY <1>1, <1>2 DEF HandleBroadcast, FallBack, locals
<1>3. ASSUME NEW s \in Servers, NEW w \in 1..RedisWorkerCount[s],
             CircuitOpen(s, w) \/ PublishFails(s, w)
      PROVE  lost \subseteq lost'
  BY <1>1, <1>3 DEF CircuitOpen, PublishFails, FallBack
<1>4. ASSUME NEW c \in Clients, Receive(c)
      PROVE  lost \subseteq lost'
  BY <1>1, <1>4 DEF Receive
<1>5. ASSUME NEW s \in Servers, NEW w \in 1..WorkerCount[s], BroadcastWorker(s, w)
      PROVE  lost \subseteq lost'
  BY <1>5 DEF BroadcastWorker
<1>6. CASE UNCHANGED lost
  BY <1>6
<1> QED
  BY <1>2, <1>3, <1>4, <1>5, <1>6
  DEF Next, vars, Publish, Published, TakeBroadcastJob, Register, Unregister,
      Subscribe, SubscriptionBreaks, SubscriptionEnds, SubmitDanmaku, CarryOut,
      locals

LEMMA SeenGrows ==
  ASSUME Typed, [Next]_vars, NEW c \in Clients
  PROVE  Range(seen[c]) \subseteq Range(seen'[c])
<1>1. ASSUME NEW s \in Servers, NEW w \in 1..WorkerCount[s], BroadcastWorker(s, w)
      PROVE  Range(seen[c]) \subseteq Range(seen'[c])
  BY <1>1, BroadcastRange
<1>2. CASE UNCHANGED seen
  BY <1>2
<1> QED
  BY <1>1, <1>2
  DEF Next, vars, HandleBroadcast, Publish, CircuitOpen, Published,
      PublishFails, TakeBroadcastJob, Register, Unregister, Receive,
      Subscribe, SubscriptionBreaks, SubscriptionEnds, SubmitDanmaku,
      CarryOut, workers

(* A client that is covered stays so. *)
LEMMA CoveredKept ==
  ASSUME Typed, [Next]_vars, NEW m \in Messages, NEW c \in Clients, Covered(m, c)
  PROVE  Covered(m, c)'
<1>1. CASE m \in Range(seen[c]) \/ <<m, c>> \in lost \/ <<m, Home[c]>> \in lost
  BY <1>1, SeenGrows, LostGrows DEF Covered
<1>2. ASSUME NEW job \in JobsFor(m, c), HasJob(Home[c], job)
      PROVE  Covered(m, c)'
  <2>1. job \in Job /\ job.message = m /\ c \in job.clients /\ Home[c] \in Servers
    BY Constants DEF JobsFor
  <2>2. CASE HasJob(Home[c], job)'
    BY <2>2 DEF Covered, JobsFor
  <2>3. ASSUME NEW w \in 1..WorkerCount[Home[c]], BroadcastWorker(Home[c], w),
               broadcasting[Home[c]][w] = job
        PROVE  Covered(m, c)'
    <3>1. m \in Range(seen'[c]) \/ <<m, c>> \in lost'
      BY <2>1, <2>3, BroadcastRange
    <3> QED
      BY <3>1 DEF Covered
  <2> QED
    BY <1>2, <2>1, <2>2, <2>3, JobsKept
<1> QED
  BY <1>1, <1>2 DEF Covered

(* A local broadcast covers who is in the room. *)
LEMMA EnqueueCovers ==
  ASSUME Typed, NEW s \in Servers, NEW r, NEW m \in Messages,
         EnqueueLocalBroadcast(s, r, m),
         NEW c \in Clients, phase[c] = "inside", Home[c] = s, RoomOf[c] = r
  PROVE  Covered(m, c)'
<1> DEFINE job == [message |-> m, clients |-> Members(s, r)]
<1>1. c \in Members(s, r)
  BY DEF Members
<1>2. job \in JobsFor(m, c)
  BY <1>1, Snapshot DEF JobsFor
<1>3. job \in Range(broadcastJobs'[s]) \/ <<m, s>> \in lost'
  BY <1>1, EnqueueRange
<1>4. CASE <<m, s>> \in lost'
  BY <1>4 DEF Covered
<1>5. CASE job \in Range(broadcastJobs'[s])
  <2>1. PICK j \in JobsFor(m, c) : j = job
    BY <1>2
  <2>2. HasJob(Home[c], j)'
    BY <1>5, <2>1 DEF HasJob
  <2>3. JobsFor(m, c)' = JobsFor(m, c)
    BY DEF JobsFor
  <2> QED
    BY <2>2, <2>3 DEF Covered
<1> QED
  BY <1>3, <1>4, <1>5

(* Nobody joins the audience of a message after it was accepted. *)
LEMMA AudienceKept ==
  ASSUME Typed, AudiencePlaced, [Next]_vars, NEW m \in Messages,
         ~SubmitDanmaku(m), NEW c \in audience'[m], phase'[c] = "inside"
  PROVE  c \in audience[m] /\ c \in Clients /\ phase[c] = "inside"
<1>t. /\ audience \in [Messages -> SUBSET Clients]
      /\ phase \in [Clients -> {"outside", "inside", "left"}]
  BY DEF Typed, TypeOK
<1>1. CASE UNCHANGED <<phase, audience>>
  BY <1>1, <1>t
<1>2. ASSUME NEW n \in Messages, SubmitDanmaku(n)
      PROVE  c \in audience[m] /\ c \in Clients /\ phase[c] = "inside"
  <2>1. m # n
    BY <1>2
  <2>2. audience'[m] = audience[m] /\ UNCHANGED phase
    BY <1>2, <1>t, <2>1 DEF SubmitDanmaku, members
  <2> QED
    BY <1>t, <2>2
<1>3. ASSUME NEW b \in Clients, Register(b) \/ Unregister(b)
      PROVE  c \in audience[m] /\ c \in Clients /\ phase[c] = "inside"
  <2>1. UNCHANGED audience
    BY <1>3 DEF Register, Unregister, ingress
  <2>2. c \in audience[m] /\ c \in Clients
    BY <1>t, <2>1
  <2>3. phase[c] # "outside"
    BY <2>2 DEF AudiencePlaced
  <2>4. phase'[c] # phase[c] => phase[c] = "outside" \/ phase'[c] = "left"
    BY <1>3, <1>t, <2>2 DEF Register, Unregister
  <2> QED
    BY <2>2, <2>3, <2>4
<1> QED
  BY <1>1, <1>2, <1>3
  DEF Next, vars, HandleBroadcast, Publish, CircuitOpen, Published,
      PublishFails, TakeBroadcastJob, BroadcastWorker, Receive, Subscribe,
      SubscriptionBreaks, SubscriptionEnds, CarryOut, ingress, members

LEMMA FallBackCovers ==
  ASSUME Typed, Upstream, AudiencePlaced, [Next]_vars, NEW m \in Messages,
         m \notin degraded, m \in degraded',
         NEW c \in audience[m], phase[c] = "inside", Home[c] = Origin(m)
  PROVE  Covered(m, c)'
<1>c. c \in Clients /\ RoomOf[c] = Room(m)
  BY DEF AudiencePlaced, Typed, TypeOK
<1>e. ASSUME NEW s \in Servers, Origin(m) = s, EnqueueLocalBroadcast(s, Room(m), m)
      PROVE  Covered(m, c)'
  BY <1>c, <1>e, EnqueueCovers
<1>1. ASSUME NEW s \in Servers, HandleBroadcast(s)
      PROVE  Covered(m, c)'
  <2> DEFINE n == Head(Broadcast[s])
  <2>1. /\ n \in Messages /\ n \in Range(Broadcast[s])
        /\ \/ UNCHANGED degraded
           \/ degraded' = degraded \cup {n} /\ EnqueueLocalBroadcast(s, Room(n), n)
    BY <1>1, HandleEffect, HandleRange
  <2> HIDE DEF n
  <2>2. m = n /\ Origin(m) = s
    BY <2>1 DEF Upstream
  <2> QED
    BY <1>e, <2>1, <2>2
<1>2. ASSUME NEW s \in Servers, NEW w \in 1..RedisWorkerCount[s], CircuitOpen(s, w)
      PROVE  Covered(m, c)'
  <2> DEFINE n == Head(redisPublishJobs[s])
  <2>1. /\ n \in Messages /\ n \in Range(redisPublishJobs[s])
        /\ degraded' = degraded \cup {n} /\ EnqueueLocalBroadcast(s, Room(n), n)
    BY <1>2, CircuitOpenEffect, TakePublishRange DEF CircuitOpen
  <2> HIDE DEF n
  <2>2. m = n /\ Origin(m) = s
    BY <2>1 DEF Upstream
  <2> QED
    BY <1>e, <2>1, <2>2
<1>3. ASSUME NEW s \in Servers, NEW w \in 1..RedisWorkerCount[s], PublishFails(s, w)
      PROVE  Covered(m, c)'
  <2> DEFINE n == publishing[s][w].message
  <2>1. /\ n \in Messages /\ publishing[s][w] \in CallsFor(n)
        /\ degraded' = degraded \cup {n} /\ EnqueueLocalBroadcast(s, Room(n), n)
    BY <1>3, PublishFailsEffect DEF CallsFor
  <2> HIDE DEF n
  <2>2. m = n /\ Origin(m) = s
    BY <2>1 DEF Upstream
  <2> QED
    BY <1>e, <2>1, <2>2
<1>4. CASE UNCHANGED degraded
  BY <1>4
<1> QED
  BY <1>1, <1>2, <1>3, <1>4
  DEF Next, vars, Publish, Published, TakeBroadcastJob, BroadcastWorker,
      Register, Unregister, Receive, Subscribe, SubscriptionBreaks,
      SubscriptionEnds, SubmitDanmaku, CarryOut, publish

LEMMA ArrivalsCover ==
  ASSUME Typed, Upstream, Subscriptions, Delivered, [Next]_vars,
         NEW m \in Messages, NEW c \in audience[m], c \in Clients,
         phase[c] = "inside", phase'[c] = "inside",
         NEW d \in Clients, Current(d, c)', arrivals'[m][d] > 0
  PROVE  m \in Range(channel'[d]) \/ Covered(m, c)'
<1>t. /\ sub \in [Clients -> {"none", "connecting", "active", "cancelled", "ended"}]
      /\ phase \in [Clients -> {"outside", "inside", "left"}]
      /\ channel \in [Clients -> Seq(Messages)]
      /\ arrivals \in [Messages -> [Clients -> Nat]]
  BY DEF Typed, TypeOK
<1>d. ASSUME Current(d, c), arrivals[m][d] > 0
      PROVE  m \in Range(channel[d]) \/ Covered(m, c)'
  BY <1>d, CoveredKept DEF Delivered
<1>c. Current(d, c)' <=> Same(c, d) /\ sub'[d] \in {"connecting", "active"}
  BY DEF Current, Same
<1>1. ASSUME NEW b \in Clients,
             \/ Register(b) \/ Unregister(b) \/ Subscribe(b) \/ SubscriptionBreaks(b)
      PROVE  m \in Range(channel'[d]) \/ Covered(m, c)'
  <2>1. UNCHANGED <<channel, arrivals>>
    BY <1>1 DEF Register, Unregister, Subscribe, SubscriptionBreaks, redis
  <2>2. sub[d] # "none" /\ phase[d] # "outside"
    BY <2>1 DEF Subscriptions
  <2>3. sub[d] \in {"connecting", "active"}
    <3>1. CASE Register(b)
      BY <1>c, <1>t, <2>2, <3>1 DEF Register
    <3>2. CASE Unregister(b)
      BY <1>c, <1>t, <2>2, <3>2 DEF Unregister
    <3>3. CASE Subscribe(b) \/ SubscriptionBreaks(b)
      BY <1>c, <1>t, <2>2, <3>3 DEF Subscribe, SubscriptionBreaks
    <3> QED
      BY <1>1, <3>1, <3>2, <3>3
  <2>4. Current(d, c)
    BY <1>c, <2>3 DEF Current
  <2> QED
    BY <1>d, <2>1, <2>4
<1>2. ASSUME NEW b \in Clients, SubscriptionEnds(b)
      PROVE  m \in Range(channel'[d]) \/ Covered(m, c)'
  <2>1. /\ UNCHANGED arrivals
        /\ sub' = [sub EXCEPT ![b] = "ended"]
        /\ channel' = [channel EXCEPT ![b] = <<>>]
    BY <1>2 DEF SubscriptionEnds
  <2>2. d # b
    BY <1>c, <1>t, <2>1
  <2>3. channel'[d] = channel[d] /\ sub'[d] = sub[d]
    BY <1>t, <2>1, <2>2
  <2>4. Current(d, c)
    BY <1>c, <2>3 DEF Current
  <2> QED
    BY <1>d, <2>1, <2>3, <2>4
<1>3. ASSUME NEW n \in Messages, CarryOut(n)
      PROVE  m \in Range(channel'[d]) \/ Covered(m, c)'
  <2>1. /\ IF Subscribed(d, n)
           THEN channel'[d] = Append(channel[d], n)
           ELSE channel'[d] = channel[d] /\ arrivals'[n][d] = arrivals[n][d]
        /\ m # n => arrivals'[m] = arrivals[m]
    BY <1>3, CarryOutEffect
  <2>2. UNCHANGED sub
    BY <1>3 DEF CarryOut, members
  <2>3. Current(d, c)
    BY <1>c, <2>2 DEF Current
  <2>4. \A q \in Seq(Messages) : Range(Append(q, n)) = Range(q) \cup {n}
    BY AppendRange
  <2>5. Range(channel[d]) \subseteq Range(channel'[d])
        /\ (Subscribed(d, n) => n \in Range(channel'[d]))
    BY <1>t, <2>1, <2>4
  <2>6. CASE m = n /\ Subscribed(d, n)
    BY <2>5, <2>6
  <2>7. CASE ~ (m = n /\ Subscribed(d, n))
    <3>1. arrivals[m][d] > 0
      BY <2>1, <2>7
    <3> QED
      BY <1>d, <2>3, <2>5, <3>1
  <2> QED
    BY <2>6, <2>7
<1>4. ASSUME NEW b \in Clients, Receive(b)
      PROVE  m \in Range(channel'[d]) \/ Covered(m, c)'
  <2>1. /\ channel[b] # <<>> /\ channel[b] \in Seq(Messages)
        /\ Head(channel[b]) \in Messages
        /\ channel' = [channel EXCEPT ![b] = Tail(@)]
        /\ EnqueueLocalBroadcast(Home[b], RoomOf[b], Head(channel[b]))
        /\ UNCHANGED <<sub, arrivals>>
        /\ Home[b] \in Servers
    BY <1>4, ReceiveTyped, Constants DEF Receive, members
  <2>2. Current(d, c) /\ arrivals[m][d] > 0
    BY <1>c, <2>1 DEF Current
  <2>3. CASE d # b
    <3>1. channel'[d] = channel[d]
      BY <1>t, <2>1, <2>3
    <3> QED
      BY <1>d, <2>2, <3>1
  <2>4. CASE d = b /\ m # Head(channel[b])
    <3>1. Range(channel[b]) = Range(Tail(channel[b])) \cup {Head(channel[b])}
      BY <2>1, TailRange
    <3>2. channel'[d] = Tail(channel[b])
      BY <1>t, <2>1, <2>4
    <3> QED
      BY <1>d, <2>2, <2>4, <3>1, <3>2
  <2>5. CASE d = b /\ m = Head(channel[b])
    <3>1. Home[c] = Home[b] /\ RoomOf[c] = RoomOf[b]
      BY <2>2, <2>5 DEF Current, Same
    <3>2. EnqueueLocalBroadcast(Home[b], RoomOf[b], m)
      BY <2>1, <2>5
    <3> QED
      BY <2>1, <3>1, <3>2, EnqueueCovers
  <2> QED
    BY <2>3, <2>4, <2>5
<1>5. CASE UNCHANGED <<sub, channel, arrivals>>
  <2>1. Current(d, c) /\ arrivals[m][d] > 0
    BY <1>5, <1>c DEF Current
  <2> QED
    BY <1>5, <1>d, <2>1
<1> QED
  BY <1>1, <1>2, <1>3, <1>4, <1>5
  DEF Next, vars, HandleBroadcast, Publish, CircuitOpen, Published,
      PublishFails, TakeBroadcastJob, BroadcastWorker, SubmitDanmaku,
      members, redis

LEMMA DeliveredStep ==
  ASSUME Typed, Upstream, Subscriptions, AudiencePlaced, Delivered, [Next]_vars
  PROVE  Delivered'
<1> SUFFICES ASSUME NEW m \in Messages, NEW c \in audience'[m], phase'[c] = "inside"
             PROVE  /\ m \in degraded' /\ Home[c] = Origin(m) => Covered(m, c)'
                    /\ \A d \in Clients : Current(d, c)' /\ arrivals'[m][d] > 0 =>
                         m \in Range(channel'[d]) \/ Covered(m, c)'
  BY DEF Delivered, Origin
<1>1. CASE SubmitDanmaku(m)
  <2>1. ~Accepted(m) /\ UNCHANGED <<degraded, arrivals>>
    BY <1>1, SubmitAccepts DEF SubmitDanmaku, redis, publish
  <2>2. m \notin degraded /\ \A d \in Clients : ~ (arrivals[m][d] > 0)
    BY <2>1 DEF Upstream, Subscriptions
  <2> QED
    BY <2>1, <2>2
<1>2. CASE ~SubmitDanmaku(m)
  <2>1. c \in audience[m] /\ c \in Clients /\ phase[c] = "inside"
    BY <1>2, AudienceKept
  <2>2. ASSUME m \in degraded', Home[c] = Origin(m)
        PROVE  Covered(m, c)'
    <3>1. CASE m \in degraded
      BY <2>1, <2>2, <3>1, CoveredKept DEF Delivered
    <3>2. CASE m \notin degraded
      BY <2>1, <2>2, <3>2, FallBackCovers
    <3> QED
      BY <3>1, <3>2
  <2>3. ASSUME NEW d \in Clients, Current(d, c)', arrivals'[m][d] > 0
        PROVE  m \in Range(channel'[d]) \/ Covered(m, c)'
    BY <2>1, <2>3, ArrivalsCover
  <2> QED
    BY <2>2, <2>3
<1> QED
  BY <1>1, <1>2

Accounted ==
  /\ Typed
  /\ Provenance
  /\ Forwarded
  /\ Delivered

LEMMA AccountedInit == Init => Accounted
<1> SUFFICES ASSUME Init PROVE Accounted
  OBVIOUS
<1>1. Typed /\ Provenance
  BY InitTyped, InitProvenance
<1>2. Forwarded
  BY EmptyRange, Constants DEF Init, Forwarded, Accepted
<1>3. Delivered
  BY DEF Init, Delivered
<1> QED
  BY <1>1, <1>2, <1>3 DEF Accounted

LEMMA AccountedStep ==
  ASSUME Accounted, [Next]_vars
  PROVE  Accounted'
<1>1. Typed' /\ Provenance'
  BY TypedStep, ProvenanceStep DEF Accounted
<1>2. Forwarded' /\ Delivered'
  BY ForwardedStep, DeliveredStep DEF Accounted, Provenance
<1> QED
  BY <1>1, <1>2 DEF Accounted

LEMMA AccountedLosses ==
  ASSUME Accounted
  PROVE  LossIsExplained
<1> SUFFICES ASSUME NEW m \in Messages, ~Pending(m),
                    NEW c \in audience[m], phase[c] = "inside"
             PROVE  \/ m \in Range(seen[c])
                    \/ <<m, c>> \in lost
                    \/ <<m, Home[c]>> \in lost
                    \/ m \in degraded /\ Home[c] # Origin(m)
                    \/ /\ m \notin degraded
                       /\ carried[m] > 0
                       /\ \A d \in Clients : Current(d, c) => arrivals[m][d] = 0
  BY DEF LossIsExplained
<1>t. /\ audience \in [Messages -> SUBSET Clients]
      /\ arrivals \in [Messages -> [Clients -> Nat]]
  BY DEF Accounted, Typed, TypeOK
<1>c. c \in Clients /\ Home[c] \in Servers /\ Origin(m) \in Servers
  BY <1>t, Constants
<1>1. Accepted(m)
  BY DEF Accounted, Provenance, AudiencePlaced
<1>2. ~InHand(m)
  <2>1. m \notin Range(Broadcast[Origin(m)])
        /\ m \notin Range(redisPublishJobs[Origin(m)])
    BY <1>c DEF Pending
  <2>2. ASSUME NEW w \in 1..RedisWorkerCount[Origin(m)],
               publishing[Origin(m)][w] \in CallsFor(m)
        PROVE  FALSE
    <3>1. publishing[Origin(m)][w] # Idle /\ publishing[Origin(m)][w].message = m
      BY <2>2, IdleAssumption DEF CallsFor
    <3> QED
      BY <1>c, <3>1 DEF Pending
  <2> QED
    BY <2>1, <2>2 DEF InHand, Calling
<1>3. m \in degraded \/ carried[m] > 0
  BY <1>1, <1>2 DEF Accounted, Forwarded
<1>4. Covered(m, c) => \/ m \in Range(seen[c])
                       \/ <<m, c>> \in lost
                       \/ <<m, Home[c]>> \in lost
  <2>1. ASSUME NEW job \in JobsFor(m, c), HasJob(Home[c], job)
        PROVE  FALSE
    <3>1. job # Idle /\ job.message = m
      BY IdleAssumption DEF JobsFor
    <3>2. CASE job \in Range(broadcastJobs[Home[c]])
      BY <1>c, <3>1, <3>2 DEF Pending
    <3>3. ASSUME NEW w \in 1..WorkerCount[Home[c]], broadcasting[Home[c]][w] = job
          PROVE  FALSE
      BY <1>c, <3>1, <3>3 DEF Pending
    <3> QED
      BY <2>1, <3>2, <3>3 DEF HasJob
  <2> QED
    BY <2>1 DEF Covered
<1>5. CASE m \in degraded
  <2>1. Home[c] = Origin(m) => Covered(m, c)
    BY <1>5 DEF Accounted, Delivered
  <2> QED
    BY <1>4, <1>5, <2>1
<1>6. CASE m \notin degraded
  <2>1. ASSUME NEW d \in Clients, Current(d, c), arrivals[m][d] # 0
        PROVE  Covered(m, c)
    <3>1. arrivals[m][d] > 0
      BY <1>t, <2>1
    <3>2. m \notin Range(channel[d])
      BY DEF Pending
    <3> QED
      BY <2>1, <3>1, <3>2 DEF Accounted, Delivered
  <2> QED
    BY <1>3, <1>4, <1>6, <2>1
<1> QED
  BY <1>5, <1>6

(* Once nothing of a message is under way, whoever stayed in its room has  *)
(* got it, or a full queue or buffer dropped it (enqueueLocalBroadcast,    *)
(* safeSend), or its sender's server could reach only its own clients      *)
(* (processRedisPublish), or the server had no active subscription when    *)
(* Redis carried it out (subscribeToRoom).  Nothing else loses a message.  *)
THEOREM LossExplained == Spec => []LossIsExplained
BY AccountedInit, AccountedStep, AccountedLosses, PTL DEF Spec
-----------------------------------------------------------------------------

(* In which order *)

(* No entry of G is before one of F. *)
NotBefore(q, G, F) ==
  \A l \in 1..Len(q) : q[l] \in G => \A k \in (l + 1)..Len(q) : q[k] \notin F

LEMMA NotBeforeAppend ==
  ASSUME NEW S, NEW q \in Seq(S), NEW e \in S, NEW G, NEW F,
         NotBefore(q, G, F),
         e \in F => \A l \in 1..Len(q) : q[l] \notin G
  PROVE  NotBefore(Append(q, e), G, F)
<1> DEFINE a == Append(q, e)
<1>1. /\ Len(a) = Len(q) + 1
      /\ \A i \in 1..Len(q) : a[i] = q[i]
      /\ a[Len(q) + 1] = e
      /\ Len(q) \in Nat
  BY AppendProperties, LenProperties
<1> HIDE DEF a
<1>2. ASSUME NEW l \in 1..Len(a), a[l] \in G, NEW k \in (l + 1)..Len(a)
      PROVE  a[k] \notin F
  <2>1. l \in 1..Len(q) /\ q[l] \in G
    BY <1>1, <1>2
  <2>2. CASE k = Len(q) + 1
    BY <1>1, <2>1, <2>2
  <2>3. CASE k # Len(q) + 1
    <3>1. k \in (l + 1)..Len(q) /\ k \in 1..Len(q)
      BY <1>1, <2>1, <2>3
    <3> QED
      BY <1>1, <2>1, <3>1 DEF NotBefore
  <2> QED
    BY <2>2, <2>3
<1> QED
  BY <1>2 DEF NotBefore, a

LEMMA NotBeforeTail ==
  ASSUME NEW S, NEW q \in Seq(S), q # <<>>, NEW G, NEW F, NotBefore(q, G, F)
  PROVE  /\ NotBefore(Tail(q), G, F)
         /\ Head(q) \in G => \A k \in 1..Len(Tail(q)) : Tail(q)[k] \notin F
<1> DEFINE r == Tail(q)
<1>1. /\ Len(r) = Len(q) - 1
      /\ \A i \in 1..Len(r) : r[i] = q[i + 1]
      /\ Len(q) \in Nat \ {0} /\ Head(q) = q[1]
  BY HeadTailProperties, EmptySeq
<1> HIDE DEF r
<1>2. ASSUME NEW l \in 1..Len(r), r[l] \in G, NEW k \in (l + 1)..Len(r)
      PROVE  r[k] \notin F
  <2>1. /\ l + 1 \in 1..Len(q) /\ q[l + 1] \in G
        /\ k + 1 \in ((l + 1) + 1)..Len(q)
        /\ r[k] = q[k + 1]
    BY <1>1, <1>2
  <2> QED
    BY <2>1 DEF NotBefore
<1>3. ASSUME Head(q) \in G, NEW k \in 1..Len(r)
      PROVE  r[k] \notin F
  <2>1. 1 \in 1..Len(q) /\ q[1] \in G /\ k + 1 \in (1 + 1)..Len(q) /\ r[k] = q[k + 1]
    BY <1>1, <1>3
  <2> QED
    BY <2>1 DEF NotBefore
<1> QED
  BY <1>2, <1>3 DEF NotBefore, r

LEMMA NotBeforeWithout ==
  ASSUME NEW S, NEW q \in Seq(S), NEW G, NEW F, \A l \in 1..Len(q) : q[l] \notin G
  PROVE  NotBefore(q, G, F)
BY DEF NotBefore

(* g was accepted after f by the same server. *)
Before(s, f, g) ==
  \E i, j \in 1..Len(accepted[s]) :
    i < j /\ accepted[s][i] = f /\ accepted[s][j] = g

LEMMA BeforeAccepted ==
  ASSUME Typed, AcceptedOnce, NEW s \in Servers, NEW f \in Messages,
         NEW g \in Messages, Before(s, f, g)
  PROVE  /\ f # g
         /\ Origin(f) = s /\ Origin(g) = s
         /\ Accepted(f) /\ Accepted(g)
<1>1. PICK i, j \in 1..Len(accepted[s]) :
        i < j /\ accepted[s][i] = f /\ accepted[s][j] = g
  BY DEF Before
<1>2. accepted[s] \in Seq(Messages)
  BY Sequences
<1>3. Origin(f) = s /\ Origin(g) = s /\ (f = g => i = j)
  BY <1>1 DEF AcceptedOnce
<1>4. f # g
  <2>1. i # j
    BY <1>1
  <2> QED
    BY <1>3, <2>1
<1>5. f \in Range(accepted[s]) /\ g \in Range(accepted[s])
  BY <1>1, <1>2, InRange
<1> QED
  BY <1>3, <1>4, <1>5 DEF Accepted

LEMMA BeforeStep ==
  ASSUME Typed, [Next]_vars, NEW s \in Servers, NEW f \in Messages,
         NEW g \in Messages, Before(s, f, g)'
  PROVE  Before(s, f, g) \/ (SubmitDanmaku(g) /\ Origin(g) = s)
<1>1. CASE UNCHANGED accepted
  BY <1>1 DEF Before
<1>2. ASSUME NEW n \in Messages, SubmitDanmaku(n)
      PROVE  Before(s, f, g) \/ (SubmitDanmaku(g) /\ Origin(g) = s)
  <2>1. /\ accepted'[Origin(n)] = Append(accepted[Origin(n)], n)
        /\ \A t \in Servers : t # Origin(n) => accepted'[t] = accepted[t]
    BY <1>2, SubmitEffect
  <2>2. CASE s # Origin(n)
    BY <2>1, <2>2 DEF Before
  <2>3. CASE s = Origin(n)
    <3>1. /\ Len(accepted'[s]) = Len(accepted[s]) + 1 /\ Len(accepted[s]) \in Nat
          /\ \A i \in 1..Len(accepted[s]) : accepted'[s][i] = accepted[s][i]
          /\ accepted'[s][Len(accepted[s]) + 1] = n
      BY <2>1, <2>3, Sequences, AppendProperties, LenProperties
    <3>2. PICK i, j \in 1..Len(accepted'[s]) :
            i < j /\ accepted'[s][i] = f /\ accepted'[s][j] = g
      BY DEF Before
    <3>3. CASE j = Len(accepted[s]) + 1
      <4>1. g = n
        BY <3>1, <3>2, <3>3
      <4> QED
        BY <1>2, <2>3, <4>1
    <3>4. CASE j # Len(accepted[s]) + 1
      <4>1. i \in 1..Len(accepted[s]) /\ j \in 1..Len(accepted[s])
        BY <3>1, <3>2, <3>4
      <4> QED
        BY <3>1, <3>2, <4>1 DEF Before
    <3> QED
      BY <3>3, <3>4
  <2> QED
    BY <2>2, <2>3
<1> QED
  BY <1>1, <1>2
  DEF Next, vars, HandleBroadcast, Publish, CircuitOpen, Published,
      PublishFails, TakeBroadcastJob, BroadcastWorker, Register, Unregister,
      Receive, Subscribe, SubscriptionBreaks, SubscriptionEnds, CarryOut,
      ingress

(* With one publish worker, messages leave for Redis in the order in which *)
(* they were accepted.                                                     *)
Leaving(s, f, g) ==
  /\ f \in Range(Broadcast[s]) => g \notin Range(redisPublishJobs[s])
  /\ f \in Range(Broadcast[s]) \cup Range(redisPublishJobs[s]) => ~Calling(g)
  /\ (\/ f \in Range(Broadcast[s]) \cup Range(redisPublishJobs[s])
      \/ Calling(f) /\ carried[f] = 0)
       => g \notin wire /\ carried[g] = 0
  /\ NotBefore(Broadcast[s], {g}, {f})
  /\ NotBefore(redisPublishJobs[s], {g}, {f})

UpstreamOrder ==
  \A s \in Servers, f, g \in Messages :
    RedisWorkerCount[s] = 1 /\ Before(s, f, g) => Leaving(s, f, g)

LEMMA MessageOrder ==
  ASSUME NEW q \in Seq(Messages), NEW f, NEW g, NEW n \in Messages
  PROVE  /\ NotBefore(q, {g}, {f}) /\ q # <<>> =>
              /\ NotBefore(Tail(q), {g}, {f})
              /\ Head(q) = g => f \notin Range(Tail(q))
         /\ NotBefore(q, {g}, {f}) /\ (n = f => g \notin Range(q))
              => NotBefore(Append(q, n), {g}, {f})
         /\ g \notin Range(q) => NotBefore(q, {g}, {f})
<1>1. \A m : m \in Range(q) <=> \E i \in 1..Len(q) : q[i] = m
  BY InRange
<1>2. ASSUME NotBefore(q, {g}, {f}), q # <<>>
      PROVE  /\ NotBefore(Tail(q), {g}, {f})
             /\ Head(q) = g => f \notin Range(Tail(q))
  <2>1. /\ NotBefore(Tail(q), {g}, {f})
        /\ Head(q) \in {g} => \A k \in 1..Len(Tail(q)) : Tail(q)[k] \notin {f}
    BY <1>2, NotBeforeTail
  <2>2. Tail(q) \in Seq(Messages)
    BY <1>2, HeadTailProperties
  <2>3. f \in Range(Tail(q)) <=> \E i \in 1..Len(Tail(q)) : Tail(q)[i] = f
    BY <2>2, InRange
  <2> QED
    BY <2>1, <2>3
<1>3. ASSUME NotBefore(q, {g}, {f}), n = f => g \notin Range(q)
      PROVE  NotBefore(Append(q, n), {g}, {f})
  <2>1. n \in {f} => \A l \in 1..Len(q) : q[l] \notin {g}
    BY <1>1, <1>3
  <2> QED
    BY <1>3, <2>1, NotBeforeAppend
<1>4. g \notin Range(q) => NotBefore(q, {g}, {f})
  BY <1>1 DEF NotBefore
<1> QED
  BY <1>2, <1>3, <1>4

LEMMA QueueOrder ==
  ASSUME Typed, NEW s \in Servers, NEW f, NEW g, NEW n \in Messages
  PROVE  /\ NotBefore(Broadcast[s], {g}, {f}) /\ Broadcast[s] # <<>> =>
              /\ NotBefore(Tail(Broadcast[s]), {g}, {f})
              /\ Head(Broadcast[s]) = g => f \notin Range(Tail(Broadcast[s]))
         /\ NotBefore(redisPublishJobs[s], {g}, {f}) /\ redisPublishJobs[s] # <<>> =>
              /\ NotBefore(Tail(redisPublishJobs[s]), {g}, {f})
              /\ Head(redisPublishJobs[s]) = g
                   => f \notin Range(Tail(redisPublishJobs[s]))
         /\ /\ NotBefore(Broadcast[s], {g}, {f})
            /\ n = f => g \notin Range(Broadcast[s])
            => NotBefore(Append(Broadcast[s], n), {g}, {f})
         /\ /\ NotBefore(redisPublishJobs[s], {g}, {f})
            /\ n = f => g \notin Range(redisPublishJobs[s])
            => NotBefore(Append(redisPublishJobs[s], n), {g}, {f})
         /\ g \notin Range(Broadcast[s]) => NotBefore(Broadcast[s], {g}, {f})
         /\ g \notin Range(redisPublishJobs[s])
              => NotBefore(redisPublishJobs[s], {g}, {f})
<1>1. Broadcast[s] \in Seq(Messages) /\ redisPublishJobs[s] \in Seq(Messages)
  BY Sequences
<1>2. /\ NotBefore(Broadcast[s], {g}, {f}) /\ Broadcast[s] # <<>> =>
           /\ NotBefore(Tail(Broadcast[s]), {g}, {f})
           /\ Head(Broadcast[s]) = g => f \notin Range(Tail(Broadcast[s]))
      /\ NotBefore(Broadcast[s], {g}, {f}) /\ (n = f => g \notin Range(Broadcast[s]))
           => NotBefore(Append(Broadcast[s], n), {g}, {f})
      /\ g \notin Range(Broadcast[s]) => NotBefore(Broadcast[s], {g}, {f})
  BY <1>1, MessageOrder
<1>3. /\ NotBefore(redisPublishJobs[s], {g}, {f}) /\ redisPublishJobs[s] # <<>> =>
           /\ NotBefore(Tail(redisPublishJobs[s]), {g}, {f})
           /\ Head(redisPublishJobs[s]) = g
                => f \notin Range(Tail(redisPublishJobs[s]))
      /\ /\ NotBefore(redisPublishJobs[s], {g}, {f})
         /\ n = f => g \notin Range(redisPublishJobs[s])
         => NotBefore(Append(redisPublishJobs[s], n), {g}, {f})
      /\ g \notin Range(redisPublishJobs[s])
           => NotBefore(redisPublishJobs[s], {g}, {f})
  BY <1>1, MessageOrder
<1> QED
  BY <1>2, <1>3

(* Nothing of f or g comes into a queue or a call. *)
LEMMA LeavingKept ==
  ASSUME NEW s \in Servers, NEW f \in Messages, NEW g \in Messages,
         Leaving(s, f, g), Origin(f) = s, Origin(g) = s,
         NotBefore(Broadcast'[s], {g}, {f}),
         NotBefore(redisPublishJobs'[s], {g}, {f}),
         Range(Broadcast'[s]) \cap {f, g} \subseteq Range(Broadcast[s]),
         Range(redisPublishJobs'[s]) \cap {f, g} \subseteq Range(redisPublishJobs[s]),
         \A m \in {f, g} : \A w \in 1..RedisWorkerCount[s] :
           publishing'[s][w] \in CallsFor(m) => publishing[s][w] \in CallsFor(m),
         wire' \cap {g} \subseteq wire,
         carried' = carried
  PROVE  Leaving(s, f, g)'
<1>1. Origin(f)' = s /\ Origin(g)' = s /\ \A m : CallsFor(m)' = CallsFor(m)
  BY DEF Origin, CallsFor
<1>2. \A m \in {f, g} : Calling(m)' => Calling(m)
  BY <1>1 DEF Calling
<1>3. Leaving(s, f, g)' <=>
        /\ f \in Range(Broadcast'[s]) => g \notin Range(redisPublishJobs'[s])
        /\ f \in Range(Broadcast'[s]) \cup Range(redisPublishJobs'[s]) => ~Calling(g)'
        /\ (\/ f \in Range(Broadcast'[s]) \cup Range(redisPublishJobs'[s])
            \/ Calling(f)' /\ carried'[f] = 0)
             => g \notin wire' /\ carried'[g] = 0
        /\ NotBefore(Broadcast'[s], {g}, {f})
        /\ NotBefore(redisPublishJobs'[s], {g}, {f})
  BY DEF Leaving, NotBefore
<1> QED
  BY <1>2, <1>3 DEF Leaving

LEMMA BeforeNext ==
  ASSUME AcceptedOnce', NEW s \in Servers, NEW f \in Messages,
         NEW g \in Messages, Before(s, f, g)'
  PROVE  f # g /\ Origin(f) = s /\ Origin(g) = s
<1>1. PICK i, j \in 1..Len(accepted'[s]) :
        i < j /\ accepted'[s][i] = f /\ accepted'[s][j] = g
  BY DEF Before
<1>2. /\ Origin(f) = s /\ Origin(g) = s
      /\ accepted'[s][i] = accepted'[s][j] => i = j
  BY <1>1 DEF AcceptedOnce, Origin
<1>3. i # j
  BY <1>1
<1> QED
  BY <1>1, <1>2, <1>3

LEMMA CallingAfter ==
  ASSUME NEW s \in Servers, NEW m \in Messages, Origin(m) = s
  PROVE  /\ Calling(m)' <=> \E w \in 1..RedisWorkerCount[s] :
                              publishing'[s][w] \in CallsFor(m)
         /\ Calling(m) <=> \E w \in 1..RedisWorkerCount[s] :
                             publishing[s][w] \in CallsFor(m)
<1>1. Origin(m)' = s /\ CallsFor(m)' = CallsFor(m)
  BY DEF Origin, CallsFor
<1> QED
  BY <1>1 DEF Calling

LEMMA LeavingAfter ==
  ASSUME NEW s \in Servers, NEW f \in Messages, NEW g \in Messages
  PROVE  Leaving(s, f, g)' <=>
           /\ f \in Range(Broadcast'[s]) => g \notin Range(redisPublishJobs'[s])
           /\ f \in Range(Broadcast'[s]) \cup Range(redisPublishJobs'[s])
                => ~Calling(g)'
           /\ (\/ f \in Range(Broadcast'[s]) \cup Range(redisPublishJobs'[s])
               \/ Calling(f)' /\ carried'[f] = 0)
                => g \notin wire' /\ carried'[g] = 0
           /\ NotBefore(Broadcast'[s], {g}, {f})
           /\ NotBefore(redisPublishJobs'[s], {g}, {f})
BY DEF Leaving, NotBefore

(* A message that has just been accepted is behind all others. *)
LEMMA LeavingSubmit ==
  ASSUME Typed, Upstream, NEW s \in Servers, NEW f \in Messages,
         NEW g \in Messages, f # g, Origin(f) = s, Origin(g) = s,
         SubmitDanmaku(g)
  PROVE  Leaving(s, f, g)'
<1>1. /\ ~Accepted(g)
      /\ Broadcast'[s] = Append(Broadcast[s], g)
      /\ UNCHANGED <<redisPublishJobs, publishing, wire, carried>>
  BY SubmitEffect DEF SubmitDanmaku, Accepted, publish, redis
<1>2. /\ g \notin Range(Broadcast[s]) /\ g \notin Range(redisPublishJobs[s])
      /\ \A w \in 1..RedisWorkerCount[s] : publishing[s][w] \notin CallsFor(g)
      /\ g \notin wire
      /\ ~(carried[g] > 0)
  BY <1>1 DEF Upstream
<1>3. carried[g] = 0
  <2>1. carried[g] \in Nat
    BY DEF Typed, TypeOK
  <2> QED
    BY <1>2, <2>1
<1>4. /\ NotBefore(Broadcast'[s], {g}, {f})
      /\ NotBefore(redisPublishJobs'[s], {g}, {f})
  BY <1>1, <1>2, QueueOrder
<1>5. ~Calling(g)'
  BY <1>1, <1>2, CallingAfter
<1> QED
  BY <1>1, <1>2, <1>3, <1>4, <1>5, LeavingAfter

(* A message follows the ones before it into the queue of the publishers. *)
LEMMA LeavingHandle ==
  ASSUME Typed, NEW s \in Servers, NEW f \in Messages, NEW g \in Messages,
         f # g, Origin(f) = s, Origin(g) = s, Leaving(s, f, g),
         HandleBroadcast(s)
  PROVE  Leaving(s, f, g)'
<1> DEFINE n == Head(Broadcast[s])
<1>1. /\ n \in Messages
      /\ Broadcast[s] # <<>> /\ Broadcast'[s] = Tail(Broadcast[s])
      /\ \/ redisPublishJobs'[s] = Append(redisPublishJobs[s], n)
         \/ redisPublishJobs'[s] = redisPublishJobs[s]
      /\ UNCHANGED <<publishing, wire, carried>>
  BY HandleEffect DEF HandleBroadcast, redis
<1>2. /\ Range(Broadcast[s]) = Range(Broadcast'[s]) \cup {n}
      /\ \/ redisPublishJobs'[s] = redisPublishJobs[s]
         \/ Range(redisPublishJobs'[s]) = Range(redisPublishJobs[s]) \cup {n}
  BY HandleRange
<1>3. /\ NotBefore(Broadcast'[s], {g}, {f})
      /\ n = g => f \notin Range(Broadcast'[s])
  BY <1>1, QueueOrder DEF Leaving
<1> HIDE DEF n
<1>4. NotBefore(redisPublishJobs'[s], {g}, {f})
  <2>1. n = f => g \notin Range(redisPublishJobs[s])
    BY <1>2 DEF Leaving
  <2> QED
    BY <1>1, <2>1, QueueOrder DEF Leaving
<1>5. /\ f \in Range(Broadcast'[s]) \cup Range(redisPublishJobs'[s])
           => f \in Range(Broadcast[s]) \cup Range(redisPublishJobs[s])
      /\ f \in Range(Broadcast'[s]) => g \notin Range(redisPublishJobs'[s])
  BY <1>2, <1>3 DEF Leaving
<1>6. /\ Calling(f)' <=> Calling(f)
      /\ Calling(g)' <=> Calling(g)
  BY <1>1, CallingAfter
<1> QED
  BY <1>1, <1>3, <1>4, <1>5, <1>6, LeavingAfter DEF Leaving

(* The only publisher sends the message at the head, with no other call    *)
(* open.                                                                   *)
LEMMA LeavingPublish ==
  ASSUME Typed, NEW s \in Servers, NEW f \in Messages, NEW g \in Messages,
         f # g, Origin(f) = s, Origin(g) = s, Leaving(s, f, g),
         RedisWorkerCount[s] = 1,
         NEW w \in 1..RedisWorkerCount[s], Publish(s, w)
  PROVE  Leaving(s, f, g)'
<1> DEFINE n == Head(redisPublishJobs[s])
           call == [message |-> n, answer |-> FALSE]
<1>1. /\ n \in Messages
      /\ redisPublishJobs[s] # <<>>
      /\ redisPublishJobs'[s] = Tail(redisPublishJobs[s])
      /\ publishing[s][w] = Idle
      /\ publishing'[s] = [publishing[s] EXCEPT ![w] = call]
  BY PublishEffect
<1>2. UNCHANGED <<Broadcast, carried>> /\ wire' = wire \cup {n}
  BY DEF Publish, ingress
<1>3. Range(redisPublishJobs[s]) = Range(redisPublishJobs'[s]) \cup {n}
  BY TakePublishRange DEF Publish
<1>4. /\ NotBefore(redisPublishJobs'[s], {g}, {f})
      /\ NotBefore(Broadcast'[s], {g}, {f})
      /\ n = g => f \notin Range(redisPublishJobs'[s])
  <2>1. NotBefore(redisPublishJobs[s], {g}, {f}) /\ NotBefore(Broadcast[s], {g}, {f})
    BY DEF Leaving
  <2>q. /\ NotBefore(Tail(redisPublishJobs[s]), {g}, {f})
        /\ Head(redisPublishJobs[s]) = g => f \notin Range(Tail(redisPublishJobs[s]))
    <3>1. redisPublishJobs[s] # <<>>
      BY <1>1
    <3> QED
      BY <2>1, <3>1, QueueOrder
  <2>2. /\ NotBefore(redisPublishJobs'[s], {g}, {f})
        /\ n = g => f \notin Range(redisPublishJobs'[s])
    BY <1>1, <2>q
  <2>3. Broadcast'[s] = Broadcast[s]
    BY <1>2
  <2> QED
    BY <2>1, <2>2, <2>3
<1>w. \A v \in 1..RedisWorkerCount[s] : v = w
  OBVIOUS
<1>p. publishing[s] \in [1..RedisWorkerCount[s] -> Call \cup {Idle}]
  BY DEF Typed, TypeOK
<1>5. publishing'[s][w] = call /\ call.message = n
  BY <1>1, <1>p
<1> HIDE DEF n, call
<1>6. ASSUME NEW m \in Messages, Origin(m) = s
      PROVE  ~Calling(m) /\ (Calling(m)' => m = n)
  <2>1. \A k : Idle \notin CallsFor(k)
    BY IdleAssumption DEF CallsFor
  <2>2. \A k : call \in CallsFor(k) => k = n
    BY <1>5 DEF CallsFor
  <2> QED
    BY <1>1, <1>5, <1>6, <1>w, <2>1, <2>2, CallingAfter
<1>7. /\ f \in Range(Broadcast'[s]) \cup Range(redisPublishJobs'[s]) => n # g
      /\ n = f => f \in Range(redisPublishJobs[s]) /\ n # g
  BY <1>2, <1>3, <1>4 DEF Leaving
<1>8. (\/ f \in Range(Broadcast'[s]) \cup Range(redisPublishJobs'[s])
       \/ Calling(f)' /\ carried'[f] = 0)
        => g \notin wire' /\ carried'[g] = 0
  <2>1. ASSUME f \in Range(Broadcast'[s]) \cup Range(redisPublishJobs'[s])
               \/ Calling(f)'
        PROVE  /\ f \in Range(Broadcast[s]) \cup Range(redisPublishJobs[s])
               /\ n # g
    BY <1>2, <1>3, <1>6, <1>7, <2>1
  <2>2. ASSUME f \in Range(Broadcast'[s]) \cup Range(redisPublishJobs'[s])
               \/ Calling(f)'
        PROVE  g \notin wire' /\ carried'[g] = 0
    BY <1>2, <2>1, <2>2 DEF Leaving
  <2> QED
    BY <2>2
<1>9. /\ f \in Range(Broadcast'[s]) => g \notin Range(redisPublishJobs'[s])
      /\ f \in Range(Broadcast'[s]) \cup Range(redisPublishJobs'[s]) => ~Calling(g)'
  BY <1>2, <1>3, <1>6, <1>7 DEF Leaving
<1> QED
  BY <1>4, <1>8, <1>9, LeavingAfter

(* Redis carries out what was sent: nothing of g is, while f has not been. *)
LEMMA LeavingCarryOut ==
  ASSUME Typed, NEW s \in Servers, NEW f \in Messages, NEW g \in Messages,
         f # g, Origin(f) = s, Origin(g) = s, Leaving(s, f, g),
         NEW n \in Messages, CarryOut(n)
  PROVE  Leaving(s, f, g)'
<1>1. /\ n \in wire /\ wire' \subseteq wire
      /\ \A m \in Messages : m # n => carried'[m] = carried[m]
      /\ carried'[n] = carried[n] + 1
  BY CarryOutEffect
<1>2. UNCHANGED <<Broadcast, redisPublishJobs>>
  BY DEF CarryOut, ingress
<1>3. ASSUME NEW m \in Messages, Origin(m) = s
      PROVE  Calling(m)' <=> Calling(m)
  <2>1. \A w \in 1..RedisWorkerCount[s] :
          publishing'[s][w] \in CallsFor(m) <=> publishing[s][w] \in CallsFor(m)
    BY AnswersKeepCalls
  <2> QED
    BY <1>3, <2>1, CallingAfter
<1>4. carried[f] \in Nat
  BY DEF Typed, TypeOK
<1>5. carried'[f] = 0 => carried[f] = 0
  BY <1>1, <1>4
<1>6. (\/ f \in Range(Broadcast'[s]) \cup Range(redisPublishJobs'[s])
       \/ Calling(f)' /\ carried'[f] = 0)
        => g \notin wire' /\ carried'[g] = 0
  BY <1>1, <1>2, <1>3, <1>5 DEF Leaving
<1> QED
  BY <1>2, <1>3, <1>6, LeavingAfter DEF Leaving

LEMMA LeavingStep ==
  ASSUME Typed, AcceptedOnce, Upstream, [Next]_vars, NEW s \in Servers,
         RedisWorkerCount[s] = 1, NEW f \in Messages, NEW g \in Messages,
         Before(s, f, g), Leaving(s, f, g)
  PROVE  Leaving(s, f, g)'
<1>a. /\ f # g
      /\ Origin(f) = s /\ Origin(g) = s
      /\ Accepted(f) /\ Accepted(g)
  BY BeforeAccepted
<1>b. NotBefore(Broadcast[s], {g}, {f}) /\ NotBefore(redisPublishJobs[s], {g}, {f})
  BY DEF Leaving
<1>i. \A m : Idle \notin CallsFor(m)
  BY IdleAssumption DEF CallsFor
<1>p. \A t \in Servers : publishing[t] \in [1..RedisWorkerCount[t] -> Call \cup {Idle}]
  BY DEF Typed, TypeOK
<1>1. ASSUME NEW n \in Messages, SubmitDanmaku(n)
      PROVE  Leaving(s, f, g)'
  <2>1. n # f /\ n # g
    BY <1>1, <1>a DEF SubmitDanmaku, Accepted
  <2>2. /\ Range(Broadcast'[Origin(n)]) = Range(Broadcast[Origin(n)]) \cup {n}
        /\ Broadcast'[Origin(n)] = Append(Broadcast[Origin(n)], n)
        /\ \A t \in Servers : t # Origin(n) => Broadcast'[t] = Broadcast[t]
    BY <1>1, SubmitRange, SubmitEffect
  <2>3. UNCHANGED <<redisPublishJobs, publishing, carried, wire>>
    BY <1>1 DEF SubmitDanmaku, redis, publish
  <2>4. NotBefore(Append(Broadcast[s], n), {g}, {f})
    BY <1>b, <2>1, QueueOrder
  <2>5. NotBefore(Broadcast'[s], {g}, {f})
        /\ Range(Broadcast'[s]) \cap {f, g} \subseteq Range(Broadcast[s])
    BY <1>b, <2>1, <2>2, <2>4
  <2> QED
    BY <1>a, <1>b, <2>3, <2>5, LeavingKept
<1>2. ASSUME NEW t \in Servers, HandleBroadcast(t)
      PROVE  Leaving(s, f, g)'
  <2>1. CASE t = s
    BY <1>a, <1>2, <2>1, LeavingHandle
  <2>2. CASE t # s
    <3>1. /\ Broadcast'[s] = Broadcast[s]
          /\ redisPublishJobs'[s] = redisPublishJobs[s]
      BY <1>2, <2>2, HandleEffect
    <3>2. UNCHANGED <<publishing, carried, wire>>
      BY <1>2 DEF HandleBroadcast, redis
    <3> QED
      BY <1>a, <1>b, <3>1, <3>2, LeavingKept
  <2> QED
    BY <2>1, <2>2
<1>3. ASSUME NEW t \in Servers, NEW w \in 1..RedisWorkerCount[t], Publish(t, w)
      PROVE  Leaving(s, f, g)'
  <2>1. CASE t = s
    BY <1>a, <1>3, <2>1, LeavingPublish
  <2>2. CASE t # s
    <3>1. /\ redisPublishJobs'[s] = redisPublishJobs[s]
          /\ publishing'[s] = publishing[s]
      BY <1>3, <2>2, PublishEffect
    <3>2. UNCHANGED <<Broadcast, carried>>
      BY <1>3 DEF Publish, ingress
    <3>3. wire' \cap {g} \subseteq wire
      <4>1. Head(redisPublishJobs[t]) \in Messages
            /\ Head(redisPublishJobs[t]) \in Range(redisPublishJobs[t])
        BY <1>3, PublishEffect, TakePublishRange DEF Publish
      <4>2. wire' = wire \cup {Head(redisPublishJobs[t])}
        BY <1>3 DEF Publish
      <4>3. Head(redisPublishJobs[t]) # g
        <5>1. Origin(Head(redisPublishJobs[t])) = t
          BY <4>1 DEF Upstream
        <5> QED
          BY <1>a, <2>2, <5>1
      <4> QED
        BY <4>2, <4>3
    <3> QED
      BY <1>a, <1>b, <3>1, <3>2, <3>3, LeavingKept
  <2> QED
    BY <2>1, <2>2
<1>4. ASSUME NEW t \in Servers, NEW w \in 1..RedisWorkerCount[t], CircuitOpen(t, w)
      PROVE  Leaving(s, f, g)'
  <2>1. UNCHANGED <<Broadcast, publishing, carried, wire>>
    BY <1>4 DEF CircuitOpen, ingress, redis
  <2>2. /\ redisPublishJobs[t] # <<>>
        /\ redisPublishJobs'[t] = Tail(redisPublishJobs[t])
        /\ t # s => redisPublishJobs'[s] = redisPublishJobs[s]
    BY <1>4, CircuitOpenEffect
  <2>3. Range(redisPublishJobs'[t]) \subseteq Range(redisPublishJobs[t])
    BY <1>4, TakePublishRange DEF CircuitOpen
  <2>4. NotBefore(redisPublishJobs'[s], {g}, {f})
    <3>1. redisPublishJobs[s] # <<>> => NotBefore(Tail(redisPublishJobs[s]), {g}, {f})
      BY <1>b, QueueOrder
    <3> QED
      BY <1>b, <2>2, <3>1
  <2>5. Range(redisPublishJobs'[s]) \subseteq Range(redisPublishJobs[s])
    BY <2>2, <2>3
  <2> QED
    BY <1>a, <1>b, <2>1, <2>4, <2>5, LeavingKept
<1>5. ASSUME NEW t \in Servers, NEW w \in 1..RedisWorkerCount[t],
             Published(t, w) \/ PublishFails(t, w)
      PROVE  Leaving(s, f, g)'
  <2>1. UNCHANGED <<Broadcast, redisPublishJobs, carried>> /\ wire' \subseteq wire
    <3>1. CASE Published(t, w)
      BY <3>1 DEF Published, ingress, redis
    <3>2. CASE PublishFails(t, w)
      BY <3>2 DEF PublishFails, ingress
    <3> QED
      BY <1>5, <3>1, <3>2
  <2>2. /\ publishing'[t] = [publishing[t] EXCEPT ![w] = Idle]
        /\ t # s => publishing'[s] = publishing[s]
    BY <1>5, CallEndsEffect DEF Published, PublishFails
  <2>3. \A v \in 1..RedisWorkerCount[s] :
          publishing'[s][v] = publishing[s][v] \/ publishing'[s][v] = Idle
    BY <1>p, <2>2
  <2> QED
    BY <1>a, <1>b, <1>i, <2>1, <2>3, LeavingKept
<1>6. ASSUME NEW n \in Messages, CarryOut(n)
      PROVE  Leaving(s, f, g)'
  BY <1>6, <1>a, LeavingCarryOut
<1>7. CASE UNCHANGED <<Broadcast, redisPublishJobs, publishing, carried, wire>>
  BY <1>7, <1>a, <1>b, LeavingKept
<1> QED
  BY <1>1, <1>2, <1>3, <1>4, <1>5, <1>6, <1>7
  DEF Next, vars, TakeBroadcastJob, BroadcastWorker, Register, Unregister,
      Receive, Subscribe, SubscriptionBreaks, SubscriptionEnds, redis, ingress,
      publish

LEMMA UpstreamOrderStep ==
  ASSUME Typed, AcceptedOnce, Upstream, UpstreamOrder, [Next]_vars
  PROVE  UpstreamOrder'
<1>1. ASSUME NEW s \in Servers, NEW f \in Messages, NEW g \in Messages,
             RedisWorkerCount[s] = 1, Before(s, f, g)'
      PROVE  Leaving(s, f, g)'
  <2>1. AcceptedOnce'
    BY AcceptedOnceStep
  <2>2. f # g /\ Origin(f) = s /\ Origin(g) = s
    BY <1>1, <2>1, BeforeNext
  <2>3. CASE Before(s, f, g)
    BY <1>1, <2>3, LeavingStep DEF UpstreamOrder
  <2>4. CASE SubmitDanmaku(g)
    BY <2>2, <2>4, LeavingSubmit
  <2> QED
    BY <1>1, <2>3, <2>4, BeforeStep
<1> QED
  BY <1>1 DEF UpstreamOrder

-----------------------------------------------------------------------------
Queued(m, c) == \E job \in JobsFor(m, c) : job \in Range(broadcastJobs[Home[c]])

Working(m, c) ==
  \E w \in 1..WorkerCount[Home[c]] : broadcasting[Home[c]][w] \in JobsFor(m, c)

InChannel(m, c) == \E d \in Clients : Same(c, d) /\ m \in Range(channel[d])

(* Redis gave f or g to this subscription of c's room on c's server. *)
Serves(d, c, f, g) ==
  Same(c, d) /\ (arrivals[f][d] > 0 \/ arrivals[g][d] > 0)

(* Neither was degraded or sent twice, and both came by one subscription.  *)
Orderly(c, f, g) ==
  /\ f \notin degraded /\ g \notin degraded
  /\ carried[f] <= 1 /\ carried[g] <= 1
  /\ \A d, e \in Clients : Serves(d, c, f, g) /\ Serves(e, c, f, g) => d = e

(* Nothing of g is nearer to the client than something of f. *)
InOrder(c, f, g) ==
  /\ NotBefore(seen[c], {g}, {f})
  /\ g \in Range(seen[c]) => ~Working(f, c)
  /\ g \in Range(seen[c]) \/ Working(g, c) => ~Queued(f, c)
  /\ NotBefore(broadcastJobs[Home[c]], JobsFor(g, c), JobsFor(f, c))
  /\ g \in Range(seen[c]) \/ Working(g, c) \/ Queued(g, c) => ~InChannel(f, c)
  /\ \A d \in Clients : Same(c, d) => NotBefore(channel[d], {g}, {f})

(* With one broadcast worker, messages reach a client in the order in      *)
(* which they left for Redis.                                              *)
DownstreamOrder ==
  \A c \in Clients, s \in Servers, f, g \in Messages :
    /\ RedisWorkerCount[s] = 1 /\ WorkerCount[Home[c]] = 1
    /\ Before(s, f, g)
    /\ Orderly(c, f, g)
    => InOrder(c, f, g)

LEMMA InChannelArrived ==
  ASSUME Typed, Subscriptions, NEW d \in Clients, NEW m \in Messages,
         m \in Range(channel[d])
  PROVE  arrivals[m][d] > 0 /\ carried[m] > 0
<1>1. channel[d] \in Seq(Messages) /\ arrivals[m][d] \in Nat
  BY Sequences DEF Typed, TypeOK
<1>2. Hits(channel[d], {m}) \in Nat /\ Hits(channel[d], {m}) > 0
  <2>1. \E i \in 1..Len(channel[d]) : channel[d][i] \in {m}
    BY <1>1, InRange
  <2> QED
    BY <1>1, <2>1, SequenceHits
<1>3. Hits(channel[d], {m}) <= arrivals[m][d]
  BY DEF Subscriptions
<1>4. arrivals[m][d] > 0
  BY <1>1, <1>2, <1>3
<1> QED
  BY <1>4 DEF Subscriptions

(* What was not degraded has reached a server only through Redis. *)
LEMMA DownstreamCarried ==
  ASSUME Explained, NEW c \in Clients, NEW m \in Messages, m \notin degraded,
         m \in Range(seen[c]) \/ Working(m, c) \/ Queued(m, c)
  PROVE  carried[m] > 0
<1>t. Typed /\ Subscriptions /\ Home[c] \in Servers
  BY Constants DEF Explained, Provenance
<1> DEFINE x == Hits(seen[c], {m})
           y == Hits(broadcastJobs[Home[c]], JobsFor(m, c))
           z == Hits(broadcasting[Home[c]], JobsFor(m, c))
<1>1. x \in Nat
  BY <1>t, HitsAreNatural
<1>2. y \in Nat /\ z \in Nat
  BY <1>t, HitsAreNatural
<1>3. m \in Range(seen[c]) => x > 0
  <2>1. seen[c] \in Seq(Messages)
    BY <1>t, Sequences
  <2>2. m \in Range(seen[c]) => \E i \in 1..Len(seen[c]) : seen[c][i] \in {m}
    BY <2>1, InRange
  <2> QED
    BY <2>1, <2>2, SequenceHits
<1>4. Queued(m, c) => y > 0
  <2>1. broadcastJobs[Home[c]] \in Seq(Job)
    BY <1>t, Sequences
  <2>2. \A job : job \in Range(broadcastJobs[Home[c]]) =>
          \E i \in 1..Len(broadcastJobs[Home[c]]) : broadcastJobs[Home[c]][i] = job
    BY <2>1, InRange
  <2>3. Queued(m, c) => \E i \in 1..Len(broadcastJobs[Home[c]]) :
          broadcastJobs[Home[c]][i] \in JobsFor(m, c)
    BY <2>2 DEF Queued
  <2> QED
    BY <2>1, <2>3, SequenceHits
<1>5. Working(m, c) => z > 0
  <2>1. broadcasting[Home[c]] \in [1..WorkerCount[Home[c]] -> Job \cup {Idle}]
        /\ WorkerCount[Home[c]] \in Nat
    BY <1>t, Constants DEF Typed, TypeOK
  <2> QED
    BY <2>1, WorkerHits DEF Working
<1>6. x + y + z <= Cardinality(Gone(c, m))
  <2>1. Extra(c, m) = 0
    BY DEF Extra
  <2>2. CopiesFor(c, m) <= Cardinality(Gone(c, m)) + Extra(c, m)
    BY DEF Explained, Copies
  <2>3. \A d \in Clients : Left(m)[d] \in Int
    BY <1>t, LeftIsNatural
  <2>4. Cardinality(Gone(c, m)) \in Nat
    BY <2>3, NumberedMembers DEF Gone
  <2>5. CopiesFor(c, m) = x + y + z
    BY DEF CopiesFor
  <2> HIDE DEF x, y, z
  <2> QED
    BY <2>1, <2>2, <2>4, <2>5
<1> HIDE DEF x, y, z
<1>7. x > 0 \/ y > 0 \/ z > 0
  BY <1>3, <1>4, <1>5
<1>l. \A d \in Clients : Left(m)[d] \in Nat /\ Left(m)[d] \in Int
  BY <1>t, LeftIsNatural
<1>n. /\ IsFiniteSet(Gone(c, m)) /\ Cardinality(Gone(c, m)) \in Nat
      /\ \A e : e \in Gone(c, m) <=>
           \E d \in Clients : Same(c, d) /\ \E k \in 1..Left(m)[d] : e = <<d, k>>
  BY <1>l, NumberedMembers DEF Gone
<1>8. Cardinality(Gone(c, m)) # 0
  BY <1>1, <1>2, <1>6, <1>7, <1>n
<1>9. PICK e : e \in Gone(c, m)
  BY <1>8, FS_EmptySet
<1>10. PICK d \in Clients : \E k \in 1..Left(m)[d] : e = <<d, k>>
  BY <1>9, <1>n
<1>11. Left(m)[d] > 0
  BY <1>10, <1>l
<1>12. arrivals[m][d] > 0
  <2>1. arrivals[m][d] \in Nat
    BY <1>t DEF Typed, TypeOK
  <2>2. Hits(channel[d], {m}) \in Nat
    BY <1>t, HitsAreNatural
  <2>3. Left(m)[d] = arrivals[m][d] - Hits(channel[d], {m})
    BY DEF Left
  <2> QED
    BY <1>11, <2>1, <2>2, <2>3
<1> QED
  BY <1>t, <1>12 DEF Subscriptions

LEMMA JobOrder ==
  ASSUME NEW q \in Seq(Job), NEW G, NEW F, NEW job \in Job
  PROVE  /\ NotBefore(q, G, F) /\ q # <<>> =>
              /\ NotBefore(Tail(q), G, F)
              /\ Head(q) \in G => \A j \in F : j \notin Range(Tail(q))
         /\ NotBefore(q, G, F) /\ (job \in F => \A j \in G : j \notin Range(q))
              => NotBefore(Append(q, job), G, F)
         /\ (\A j \in G : j \notin Range(q)) => NotBefore(q, G, F)
<1>1. \A j : j \in Range(q) <=> \E i \in 1..Len(q) : q[i] = j
  BY InRange
<1>2. ASSUME NotBefore(q, G, F), q # <<>>
      PROVE  /\ NotBefore(Tail(q), G, F)
             /\ Head(q) \in G => \A j \in F : j \notin Range(Tail(q))
  <2>1. /\ NotBefore(Tail(q), G, F)
        /\ Head(q) \in G => \A k \in 1..Len(Tail(q)) : Tail(q)[k] \notin F
    BY <1>2, NotBeforeTail
  <2>2. Tail(q) \in Seq(Job)
    BY <1>2, HeadTailProperties
  <2>3. \A j : j \in Range(Tail(q)) <=> \E i \in 1..Len(Tail(q)) : Tail(q)[i] = j
    BY <2>2, InRange
  <2> QED
    BY <2>1, <2>3
<1>3. ASSUME NotBefore(q, G, F), job \in F => \A j \in G : j \notin Range(q)
      PROVE  NotBefore(Append(q, job), G, F)
  <2>1. job \in F => \A l \in 1..Len(q) : q[l] \notin G
    BY <1>1, <1>3
  <2> QED
    BY <1>3, <2>1, NotBeforeAppend
<1>4. (\A j \in G : j \notin Range(q)) => NotBefore(q, G, F)
  BY <1>1 DEF NotBefore
<1> QED
  BY <1>2, <1>3, <1>4

LEMMA DownstreamAfter ==
  /\ \A m, c : Queued(m, c)' <=>
       \E job \in JobsFor(m, c) : job \in Range(broadcastJobs'[Home[c]])
  /\ \A m, c : Working(m, c)' <=>
       \E w \in 1..WorkerCount[Home[c]] : broadcasting'[Home[c]][w] \in JobsFor(m, c)
  /\ \A m, c : InChannel(m, c)' <=>
       \E d \in Clients : Same(c, d) /\ m \in Range(channel'[d])
  /\ \A c, f, g : InOrder(c, f, g)' <=>
       /\ NotBefore(seen'[c], {g}, {f})
       /\ g \in Range(seen'[c]) => ~Working(f, c)'
       /\ g \in Range(seen'[c]) \/ Working(g, c)' => ~Queued(f, c)'
       /\ NotBefore(broadcastJobs'[Home[c]], JobsFor(g, c), JobsFor(f, c))
       /\ g \in Range(seen'[c]) \/ Working(g, c)' \/ Queued(g, c)'
            => ~InChannel(f, c)'
       /\ \A d \in Clients : Same(c, d) => NotBefore(channel'[d], {g}, {f})
<1>1. \A m, c : Queued(m, c)' <=>
        \E job \in JobsFor(m, c) : job \in Range(broadcastJobs'[Home[c]])
  BY DEF Queued, JobsFor, Range
<1>2. \A m, c : Working(m, c)' <=>
        \E w \in 1..WorkerCount[Home[c]] : broadcasting'[Home[c]][w] \in JobsFor(m, c)
  BY DEF Working, JobsFor
<1>3. \A m, c : InChannel(m, c)' <=>
        \E d \in Clients : Same(c, d) /\ m \in Range(channel'[d])
  BY DEF InChannel, Same, Range
<1>4. \A c, f, g : InOrder(c, f, g)' <=>
       /\ NotBefore(seen'[c], {g}, {f})
       /\ g \in Range(seen'[c]) => ~Working(f, c)'
       /\ g \in Range(seen'[c]) \/ Working(g, c)' => ~Queued(f, c)'
       /\ NotBefore(broadcastJobs'[Home[c]], JobsFor(g, c), JobsFor(f, c))
       /\ g \in Range(seen'[c]) \/ Working(g, c)' \/ Queued(g, c)'
            => ~InChannel(f, c)'
       /\ \A d \in Clients : Same(c, d) => NotBefore(channel'[d], {g}, {f})
  BY DEF InOrder, NotBefore, JobsFor, Same, Range
<1> QED
  BY <1>1, <1>2, <1>3, <1>4

(* What is on neither side of the client is in order with everything. *)
LEMMA NowhereInOrder ==
  ASSUME Typed, Provenance, NEW c \in Clients, NEW f \in Messages,
         NEW g \in Messages, ~Accepted(g),
         UNCHANGED <<seen, broadcastJobs, broadcasting, channel>>
  PROVE  InOrder(c, f, g)'
<1>h. Home[c] \in Servers
  BY Constants
<1>1. g \notin Range(seen[c])
  BY DEF Provenance, SeenPlaced
<1>2. \A job \in JobsFor(g, c) : ~HasJob(Home[c], job)
  BY <1>h DEF Provenance, Snapshots, JobsFor
<1>3. ~Working(g, c) /\ ~Queued(g, c)
  BY <1>2 DEF HasJob, Working, Queued
<1>4. \A d \in Clients : g \notin Range(channel[d])
  BY InChannelArrived DEF Provenance, Upstream
<1>5. NotBefore(seen[c], {g}, {f})
      /\ \A d \in Clients : NotBefore(channel[d], {g}, {f})
  <2>1. \A q \in Seq(Messages) : g \notin Range(q) => NotBefore(q, {g}, {f})
    BY MessageOrder
  <2> QED
    BY <1>1, <1>4, <2>1, Sequences
<1>6. NotBefore(broadcastJobs[Home[c]], JobsFor(g, c), JobsFor(f, c))
  <2>1. broadcastJobs[Home[c]] \in Seq(Job)
    BY <1>h, Sequences
  <2>2. \A j \in JobsFor(g, c) : j \notin Range(broadcastJobs[Home[c]])
    BY <1>3 DEF Queued
  <2>3. \A j : j \in Range(broadcastJobs[Home[c]]) <=>
          \E i \in 1..Len(broadcastJobs[Home[c]]) : broadcastJobs[Home[c]][i] = j
    BY <2>1, InRange
  <2> QED
    BY <2>2, <2>3 DEF NotBefore
<1>7. ~Working(g, c)' /\ ~Queued(g, c)'
  BY <1>3, DownstreamAfter DEF Working, Queued
<1> QED
  BY <1>1, <1>5, <1>6, <1>7, DownstreamAfter

LEMMA OrderlyShrinks ==
  ASSUME Typed, [Next]_vars, NEW c \in Clients, NEW f \in Messages,
         NEW g \in Messages, Orderly(c, f, g)'
  PROVE  Orderly(c, f, g)
<1>1. degraded \subseteq degraded'
  BY DegradedGrows
<1>2. /\ \A m \in Messages : carried[m] \in Nat /\ carried'[m] \in Nat
                             /\ carried[m] <= carried'[m]
      /\ \A m \in Messages : \A d \in Clients : arrivals[m][d] > 0 => arrivals'[m][d] > 0
  <2>t. \A m \in Messages : carried[m] \in Nat /\ \A d \in Clients : arrivals[m][d] \in Nat
    BY DEF Typed, TypeOK
  <2>1. CASE UNCHANGED <<carried, arrivals>>
    BY <2>1, <2>t
  <2>2. ASSUME NEW n \in Messages, CarryOut(n)
        PROVE  \A m \in Messages :
                 /\ carried'[m] \in Nat /\ carried[m] <= carried'[m]
                 /\ \A d \in Clients : arrivals[m][d] > 0 => arrivals'[m][d] > 0
    <3>1. /\ \A m \in Messages : m # n => arrivals'[m] = arrivals[m] /\ carried'[m] = carried[m]
          /\ carried'[n] = carried[n] + 1
          /\ \A d \in Clients : arrivals'[n][d] \in {arrivals[n][d], arrivals[n][d] + 1}
      BY <2>2, CarryOutEffect
    <3> QED
      BY <2>t, <3>1
  <2> QED
    BY <2>1, <2>2, <2>t
    DEF Next, vars, HandleBroadcast, Publish, CircuitOpen, Published,
        PublishFails, TakeBroadcastJob, BroadcastWorker, Register, Unregister,
        Receive, Subscribe, SubscriptionBreaks, SubscriptionEnds,
        SubmitDanmaku, redis
<1>3. Orderly(c, f, g)' <=>
        /\ f \notin degraded' /\ g \notin degraded'
        /\ carried'[f] <= 1 /\ carried'[g] <= 1
        /\ \A d, e \in Clients : Serves(d, c, f, g)' /\ Serves(e, c, f, g)' => d = e
  BY DEF Orderly
<1>4. \A d \in Clients : Serves(d, c, f, g) => Serves(d, c, f, g)'
  BY <1>2 DEF Serves, Same
<1>5. carried[f] <= 1 /\ carried[g] <= 1
  BY <1>2, <1>3
<1> QED
  BY <1>1, <1>3, <1>4, <1>5 DEF Orderly

LEMMA InOrderKept ==
  ASSUME NEW c \in Clients, NEW f \in Messages, NEW g \in Messages,
         InOrder(c, f, g),
         seen'[c] = seen[c],
         Working(f, c)' => Working(f, c),
         Working(g, c)' => Working(g, c),
         Queued(f, c)' => Queued(f, c),
         Queued(g, c)' => Queued(g, c),
         InChannel(f, c)' => InChannel(f, c),
         NotBefore(broadcastJobs'[Home[c]], JobsFor(g, c), JobsFor(f, c)),
         \A d \in Clients : Same(c, d) => NotBefore(channel'[d], {g}, {f})
  PROVE  InOrder(c, f, g)'
BY DownstreamAfter DEF InOrder

(* A local broadcast of another message, or for another room. *)
LEMMA EnqueueOthers ==
  ASSUME Typed, NEW s \in Servers, NEW r, NEW n \in Messages,
         EnqueueLocalBroadcast(s, r, n),
         NEW c \in Clients, NEW f \in Messages, NEW g \in Messages,
         s # Home[c] \/ r # RoomOf[c] \/ (n # f /\ n # g),
         NotBefore(broadcastJobs[Home[c]], JobsFor(g, c), JobsFor(f, c))
  PROVE  /\ NotBefore(broadcastJobs'[Home[c]], JobsFor(g, c), JobsFor(f, c))
         /\ Queued(f, c)' => Queued(f, c)
         /\ Queued(g, c)' => Queued(g, c)
<1> DEFINE job == [message |-> n, clients |-> Members(s, r)]
           q == broadcastJobs[Home[c]]
<1>h. Home[c] \in Servers
  BY Constants
<1>1. /\ job \in Job
      /\ \A t \in Servers : t # s => broadcastJobs'[t] = broadcastJobs[t]
      /\ \/ broadcastJobs'[s] = Append(broadcastJobs[s], job)
         \/ broadcastJobs'[s] = broadcastJobs[s]
  BY EnqueueEffect
<1>2. s = Home[c] => job \notin JobsFor(f, c) /\ job \notin JobsFor(g, c)
  BY DEF JobsFor, Members
<1>q. q \in Seq(Job)
  BY <1>h, Sequences
<1> HIDE DEF job
<1>3. CASE broadcastJobs'[Home[c]] = q
  BY <1>3, DownstreamAfter DEF Queued
<1>4. CASE s = Home[c] /\ broadcastJobs'[Home[c]] = Append(q, job)
  <2>1. NotBefore(Append(q, job), JobsFor(g, c), JobsFor(f, c))
    <3>1. job \in JobsFor(f, c) => \A j \in JobsFor(g, c) : j \notin Range(q)
      BY <1>2, <1>4
    <3> HIDE DEF q
    <3>2. NotBefore(q, JobsFor(g, c), JobsFor(f, c))
      BY DEF q
    <3> QED
      BY <1>1, <1>q, <3>1, <3>2, JobOrder
  <2>2. Range(Append(q, job)) = Range(q) \cup {job}
    BY <1>1, <1>q, AppendRange
  <2> QED
    BY <1>2, <1>4, <2>1, <2>2, DownstreamAfter DEF Queued
<1> QED
  BY <1>h, <1>1, <1>3, <1>4

LEMMA InOrderTakeJob ==
  ASSUME Typed, NEW s \in Servers, NEW w \in 1..WorkerCount[s],
         TakeBroadcastJob(s, w),
         NEW c \in Clients, NEW f \in Messages, NEW g \in Messages,
         WorkerCount[Home[c]] = 1, InOrder(c, f, g)
  PROVE  InOrder(c, f, g)'
<1>1. /\ broadcastJobs[s] \in Seq(Job) /\ broadcastJobs[s] # <<>>
      /\ Head(broadcastJobs[s]) \in Job
      /\ broadcastJobs'[s] = Tail(broadcastJobs[s])
      /\ broadcasting'[s] = [broadcasting[s] EXCEPT ![w] = Head(broadcastJobs[s])]
      /\ \A t \in Servers : t # s =>
           /\ broadcastJobs'[t] = broadcastJobs[t]
           /\ broadcasting'[t] = broadcasting[t]
  BY TakeJobEffect
<1>2. UNCHANGED <<seen, channel>> /\ broadcasting[s][w] = Idle
  BY DEF TakeBroadcastJob, redis
<1>3. InChannel(f, c)' <=> InChannel(f, c)
  BY <1>2, DownstreamAfter DEF InChannel
<1>4. \A d \in Clients : Same(c, d) => NotBefore(channel'[d], {g}, {f})
  BY <1>2 DEF InOrder
<1>5. CASE s # Home[c]
  <2>1. /\ broadcastJobs'[Home[c]] = broadcastJobs[Home[c]]
        /\ broadcasting'[Home[c]] = broadcasting[Home[c]]
    BY <1>1, <1>5, Constants
  <2>2. \A m : /\ Queued(m, c)' <=> Queued(m, c)
               /\ Working(m, c)' <=> Working(m, c)
    BY <2>1, DownstreamAfter DEF Queued, Working
  <2>3. NotBefore(broadcastJobs'[Home[c]], JobsFor(g, c), JobsFor(f, c))
    BY <2>1 DEF InOrder
  <2> QED
    BY <1>2, <1>3, <1>4, <2>2, <2>3, InOrderKept
<1>6. CASE s = Home[c]
  <2> DEFINE q == broadcastJobs[s]
             job == Head(q)
  <2>1. /\ NotBefore(Tail(q), JobsFor(g, c), JobsFor(f, c))
        /\ job \in JobsFor(g, c) => \A j \in JobsFor(f, c) : j \notin Range(Tail(q))
    <3>1. NotBefore(q, JobsFor(g, c), JobsFor(f, c))
      BY <1>6 DEF InOrder
    <3> HIDE DEF q
    <3>2. q \in Seq(Job) /\ q # <<>> /\ job \in Job
      BY <1>1 DEF q
    <3> QED
      BY <3>1, <3>2, JobOrder
  <2>2. Range(q) = Range(Tail(q)) \cup {job}
    BY <1>1, TailRange
  <2>3. broadcasting'[s][w] = job
    <3>1. broadcasting[s] \in [1..WorkerCount[s] -> Job \cup {Idle}]
      BY DEF Typed, TypeOK
    <3> QED
      BY <1>1, <3>1
  <2>4. \A v \in 1..WorkerCount[s] : v = w
    BY <1>6
  <2> HIDE DEF job
  <2>5. \A m : Working(m, c)' <=> job \in JobsFor(m, c)
    BY <1>6, <2>3, <2>4, DownstreamAfter
  <2>6. \A m : /\ Queued(m, c)' => Queued(m, c)
               /\ job \in JobsFor(m, c) => Queued(m, c)
    BY <1>1, <1>6, <2>2, DownstreamAfter DEF Queued
  <2>7. job \in JobsFor(g, c) => ~Queued(f, c)'
    BY <1>1, <1>6, <2>1, DownstreamAfter
  <2>8. NotBefore(broadcastJobs'[Home[c]], JobsFor(g, c), JobsFor(f, c))
    BY <1>1, <1>6, <2>1
  <2>9. seen'[c] = seen[c] /\ NotBefore(seen[c], {g}, {f})
    BY <1>2 DEF InOrder
  <2>10. g \in Range(seen'[c]) => ~Working(f, c)' /\ ~Queued(f, c)'
    BY <2>5, <2>6, <2>9 DEF InOrder
  <2>11. g \in Range(seen'[c]) \/ Working(g, c)' \/ Queued(g, c)'
           => ~InChannel(f, c)'
    BY <1>3, <2>5, <2>6, <2>9 DEF InOrder
  <2> QED
    BY <1>4, <2>5, <2>7, <2>8, <2>9, <2>10, <2>11, DownstreamAfter
<1> QED
  BY <1>5, <1>6

LEMMA InOrderBroadcast ==
  ASSUME Typed, Snapshots, NEW s \in Servers, NEW w \in 1..WorkerCount[s],
         BroadcastWorker(s, w),
         NEW c \in Clients, NEW f \in Messages, NEW g \in Messages,
         WorkerCount[Home[c]] = 1, InOrder(c, f, g)
  PROVE  InOrder(c, f, g)'
<1> DEFINE job == broadcasting[s][w]
<1>1. /\ job \in Job
      /\ broadcasting'[s] = [broadcasting[s] EXCEPT ![w] = Idle]
      /\ \A t \in Servers : t # s => broadcasting'[t] = broadcasting[t]
      /\ \/ c \in job.clients /\ seen'[c] = Append(seen[c], job.message)
         \/ seen'[c] = seen[c]
  BY BroadcastEffect
<1>2. UNCHANGED <<channel, broadcastJobs>>
  BY DEF BroadcastWorker, redis
<1>3. JobPlaced(s, job) /\ job.message \in Messages
  <2>1. HasJob(s, job)
    BY DEF HasJob
  <2> QED
    BY <1>1, <2>1 DEF Snapshots, Job
<1>4. /\ InChannel(f, c)' <=> InChannel(f, c)
      /\ \A m : Queued(m, c)' <=> Queued(m, c)
  BY <1>2, DownstreamAfter DEF InChannel, Queued
<1>5. /\ \A d \in Clients : Same(c, d) => NotBefore(channel'[d], {g}, {f})
      /\ NotBefore(broadcastJobs'[Home[c]], JobsFor(g, c), JobsFor(f, c))
  BY <1>2 DEF InOrder
<1>6. CASE s # Home[c]
  <2>1. seen'[c] = seen[c]
    BY <1>1, <1>3, <1>6 DEF JobPlaced
  <2>2. \A m : Working(m, c)' <=> Working(m, c)
    BY <1>1, <1>6, Constants, DownstreamAfter DEF Working
  <2> QED
    BY <1>4, <1>5, <2>1, <2>2, InOrderKept
<1>7. CASE s = Home[c]
  <2>1. \A m : ~Working(m, c)'
    <3>1. broadcasting[s] \in [1..WorkerCount[s] -> Job \cup {Idle}]
      BY DEF Typed, TypeOK
    <3>2. \A v \in 1..WorkerCount[s] : broadcasting'[s][v] = Idle
      BY <1>1, <1>7, <3>1
    <3>3. \A m : Idle \notin JobsFor(m, c)
      BY IdleAssumption DEF JobsFor
    <3> QED
      BY <1>7, <3>2, <3>3, DownstreamAfter
  <2>2. c \in job.clients => Working(job.message, c)
    BY <1>1, <1>7 DEF Working, JobsFor
  <2>s. seen[c] \in Seq(Messages) /\ NotBefore(seen[c], {g}, {f})
    BY Sequences DEF InOrder
  <2> HIDE DEF job
  <2>3. CASE c \in job.clients /\ seen'[c] = Append(seen[c], job.message)
    <3>1. NotBefore(Append(seen[c], job.message), {g}, {f})
      <4>1. job.message = f => g \notin Range(seen[c])
        BY <2>2, <2>3 DEF InOrder
      <4> QED
        BY <1>3, <2>s, <4>1, MessageOrder
    <3>2. Range(seen'[c]) = Range(seen[c]) \cup {job.message}
      BY <1>3, <2>3, <2>s, AppendRange
    <3>3. g \in Range(seen'[c]) => g \in Range(seen[c]) \/ Working(g, c)
      BY <2>2, <2>3, <3>2
    <3>4. /\ g \in Range(seen'[c]) => ~Queued(f, c)'
          /\ g \in Range(seen'[c]) \/ Queued(g, c)' => ~InChannel(f, c)'
      BY <1>4, <3>3 DEF InOrder
    <3>5. NotBefore(seen'[c], {g}, {f})
      BY <2>3, <3>1
    <3> QED
      BY <1>5, <2>1, <3>4, <3>5, DownstreamAfter
  <2>4. CASE seen'[c] = seen[c]
    BY <1>4, <1>5, <2>1, <2>4, InOrderKept
  <2> QED
    BY <1>1, <2>3, <2>4 DEF job
<1> QED
  BY <1>6, <1>7

(* Redis sends f before g has been carried out, so nothing of g is on its  *)
(* way to the client yet.                                                  *)
LEMMA InOrderCarryOut ==
  ASSUME Explained, Forwarded, UpstreamOrder, NEW n \in Messages, CarryOut(n),
         NEW s \in Servers, NEW c \in Clients,
         NEW f \in Messages, NEW g \in Messages,
         RedisWorkerCount[s] = 1, Before(s, f, g),
         Orderly(c, f, g), carried'[f] <= 1, InOrder(c, f, g)
  PROVE  InOrder(c, f, g)'
<1>t. Typed /\ AcceptedOnce /\ Subscriptions
  BY DEF Explained, Provenance
<1>a. f # g /\ Origin(f) = s /\ Accepted(f)
  BY <1>t, BeforeAccepted
<1>1. /\ \A d \in Clients :
           \/ channel'[d] = Append(channel[d], n)
           \/ channel'[d] = channel[d]
      /\ carried'[n] = carried[n] + 1
      /\ carried[n] \in Nat
  <2>1. \A d \in Clients :
          \/ channel'[d] = Append(channel[d], n)
          \/ channel'[d] = channel[d]
    BY <1>t, CarryOutEffect
  <2>2. carried'[n] = carried[n] + 1
    BY <1>t, CarryOutEffect
  <2>3. carried[n] \in Nat
    BY <1>t DEF Typed, TypeOK
  <2> QED
    BY <2>1, <2>2, <2>3
<1>2. UNCHANGED <<seen, broadcastJobs, broadcasting>>
  BY DEF CarryOut, locals, workers
<1>3. \A m : /\ Queued(m, c)' <=> Queued(m, c)
             /\ Working(m, c)' <=> Working(m, c)
  BY <1>2, DownstreamAfter DEF Queued, Working
<1>4. n = f => carried[g] = 0
  <2>1. SUFFICES ASSUME n = f PROVE carried[g] = 0
    OBVIOUS
  <2>2. carried[f] = 0
    BY <1>1, <2>1
  <2>3. InHand(f)
    BY <1>a, <2>2 DEF Forwarded, Orderly
  <2>4. Leaving(s, f, g)
    BY DEF UpstreamOrder
  <2> QED
    BY <1>a, <2>2, <2>3, <2>4 DEF InHand, Leaving
<1>5. n = f => /\ \A d \in Clients : g \notin Range(channel[d])
               /\ ~(g \in Range(seen[c]) \/ Working(g, c) \/ Queued(g, c))
  <2>1. ~(carried[g] > 0) => \A d \in Clients : g \notin Range(channel[d])
    BY <1>t, InChannelArrived
  <2>2. ~(carried[g] > 0) =>
          ~(g \in Range(seen[c]) \/ Working(g, c) \/ Queued(g, c))
    BY DownstreamCarried DEF Orderly
  <2> QED
    BY <1>4, <2>1, <2>2
<1>6. ASSUME NEW d \in Clients, Same(c, d)
      PROVE  NotBefore(channel'[d], {g}, {f})
  <2>1. channel[d] \in Seq(Messages) /\ NotBefore(channel[d], {g}, {f})
    BY <1>t, <1>6, Sequences DEF InOrder
  <2>2. NotBefore(Append(channel[d], n), {g}, {f})
    BY <1>5, <2>1, MessageOrder
  <2> QED
    BY <1>1, <2>1, <2>2
<1>7. n # f => (InChannel(f, c)' => InChannel(f, c))
  <2>1. \A d \in Clients : channel[d] \in Seq(Messages)
    BY <1>t, Sequences
  <2>2. \A d \in Clients : Range(Append(channel[d], n)) = Range(channel[d]) \cup {n}
    BY <2>1, AppendRange
  <2>3. \A d \in Clients : Range(channel'[d]) \subseteq Range(channel[d]) \cup {n}
    BY <1>1, <2>2
  <2> QED
    BY <2>3, DownstreamAfter DEF InChannel
<1>8. g \in Range(seen'[c]) \/ Working(g, c)' \/ Queued(g, c)' => ~InChannel(f, c)'
  BY <1>2, <1>3, <1>5, <1>7 DEF InOrder
<1>9. /\ NotBefore(seen'[c], {g}, {f})
      /\ g \in Range(seen'[c]) => ~Working(f, c)'
      /\ g \in Range(seen'[c]) \/ Working(g, c)' => ~Queued(f, c)'
      /\ NotBefore(broadcastJobs'[Home[c]], JobsFor(g, c), JobsFor(f, c))
  BY <1>2, <1>3 DEF InOrder
<1> QED
  BY <1>6, <1>8, <1>9, DownstreamAfter

(* A subscription delivers what it got in the order in which it got it.    *)
LEMMA InOrderReceive ==
  ASSUME Typed, Upstream, Subscriptions, NEW b \in Clients, Receive(b),
         NEW c \in Clients, NEW f \in Messages, NEW g \in Messages,
         f # g, Orderly(c, f, g), InOrder(c, f, g)
  PROVE  InOrder(c, f, g)'
<1> DEFINE n == Head(channel[b])
<1>1. /\ n \in Messages /\ arrivals[n][b] > 0
      /\ EnqueueLocalBroadcast(Home[b], RoomOf[b], n)
      /\ Home[b] \in Servers
  BY ReceiveArrived
<1>2. /\ channel[b] # <<>> /\ channel[b] \in Seq(Messages)
      /\ channel'[b] = Tail(channel[b])
      /\ \A d \in Clients : d # b => channel'[d] = channel[d]
      /\ UNCHANGED <<seen, broadcasting>>
  BY ReceiveTyped DEF Receive, Typed, TypeOK, workers
<1>3. \A d \in Clients : Same(c, d) => NotBefore(channel'[d], {g}, {f})
  <2>1. NotBefore(channel[b], {g}, {f}) => NotBefore(Tail(channel[b]), {g}, {f})
    BY <1>2, MessageOrder
  <2> QED
    BY <1>2, <2>1 DEF InOrder
<1>4. Range(channel[b]) = Range(channel'[b]) \cup {n}
  BY <1>2, TailRange
<1>5. InChannel(f, c)' => InChannel(f, c)
  BY <1>2, <1>4, DownstreamAfter DEF InChannel
<1>6. \A m : Working(m, c)' <=> Working(m, c)
  BY <1>2, DownstreamAfter DEF Working
<1>h. Home[c] \in Servers
  BY Constants
<1>c. (NotBefore(channel[b], {g}, {f}) /\ n = g) => f \notin Range(channel'[b])
  BY <1>2, MessageOrder
<1> HIDE DEF n
<1>7. CASE ~Same(c, b) \/ (n # f /\ n # g)
  <2>1. Home[b] # Home[c] \/ RoomOf[b] # RoomOf[c] \/ (n # f /\ n # g)
    BY <1>7 DEF Same
  <2>2. /\ NotBefore(broadcastJobs'[Home[c]], JobsFor(g, c), JobsFor(f, c))
        /\ Queued(f, c)' => Queued(f, c)
        /\ Queued(g, c)' => Queued(g, c)
    BY <1>1, <2>1, EnqueueOthers DEF InOrder
  <2>3. seen'[c] = seen[c]
    BY <1>2
  <2> QED
    BY <1>3, <1>5, <1>6, <2>2, <2>3, InOrderKept
<1>8. CASE Same(c, b) /\ (n = f \/ n = g)
  <2> DEFINE job == [message |-> n, clients |-> Members(Home[b], RoomOf[b])]
             q == broadcastJobs[Home[c]]
  <2>1. /\ job \in Job
        /\ \/ broadcastJobs'[Home[c]] = Append(q, job)
           \/ broadcastJobs'[Home[c]] = q
    <3>1. /\ job \in Job
          /\ \/ broadcastJobs'[Home[b]] = Append(broadcastJobs[Home[b]], job)
             \/ broadcastJobs'[Home[b]] = broadcastJobs[Home[b]]
      BY <1>1, EnqueueEffect
    <3>2. Home[b] = Home[c]
      BY <1>8 DEF Same
    <3> QED
      BY <3>1, <3>2
  <2>2. job.message = n
    OBVIOUS
  <2>q. q \in Seq(Job) /\ NotBefore(q, JobsFor(g, c), JobsFor(f, c))
    BY <1>h, Sequences DEF InOrder
  <2> HIDE DEF job
  <2>3. \A m : m # n => (Queued(m, c)' => Queued(m, c))
    <3>1. Range(Append(q, job)) = Range(q) \cup {job}
      BY <2>1, <2>q, AppendRange
    <3>2. Range(broadcastJobs'[Home[c]]) \subseteq Range(q) \cup {job}
      BY <2>1, <3>1
    <3> QED
      BY <2>2, <3>2, DownstreamAfter DEF Queued, JobsFor
  <2>4. n = f => InChannel(f, c)
    BY <1>4, <1>8 DEF InChannel
  <2>5. NotBefore(broadcastJobs'[Home[c]], JobsFor(g, c), JobsFor(f, c))
    <3>1. job \in JobsFor(f, c) => \A j \in JobsFor(g, c) : j \notin Range(q)
      <4>1. job \in JobsFor(f, c) => n = f
        BY <2>2 DEF JobsFor
      <4> QED
        BY <2>4, <4>1 DEF InOrder, Queued
    <3> HIDE DEF q
    <3>2. NotBefore(Append(q, job), JobsFor(g, c), JobsFor(f, c))
      BY <2>1, <2>q, <3>1, JobOrder
    <3> QED
      BY <2>1, <2>q, <3>2
  <2>6. n = g => ~InChannel(f, c)'
    <3>1. SUFFICES ASSUME n = g, NEW d \in Clients, Same(c, d),
                          f \in Range(channel'[d])
                   PROVE  FALSE
      BY DownstreamAfter
    <3>2. f \notin Range(channel'[b])
      BY <1>8, <1>c, <3>1 DEF InOrder
    <3>3. d # b /\ f \in Range(channel[d])
      BY <1>2, <3>1, <3>2
    <3>4. arrivals[f][d] > 0
      BY <3>3, InChannelArrived
    <3>5. Serves(d, c, f, g) /\ Serves(b, c, f, g)
      BY <1>1, <1>8, <3>1, <3>4 DEF Serves
    <3> QED
      BY <3>3, <3>5 DEF Orderly
  <2>7. seen'[c] = seen[c] /\ NotBefore(seen[c], {g}, {f})
    BY <1>2 DEF InOrder
  <2>8. g \in Range(seen'[c]) => ~Working(f, c)'
    BY <1>6, <2>7 DEF InOrder
  <2>9. CASE n = f
    <3>1. ~(g \in Range(seen[c]) \/ Working(g, c) \/ Queued(g, c))
      BY <2>4, <2>9 DEF InOrder
    <3>2. ~(g \in Range(seen'[c]) \/ Working(g, c)' \/ Queued(g, c)')
      BY <1>6, <2>3, <2>7, <2>9, <3>1
    <3> QED
      BY <1>3, <2>5, <2>7, <2>8, <3>2, DownstreamAfter
  <2>10. CASE n = g
    <3>1. g \in Range(seen'[c]) \/ Working(g, c)' => ~Queued(f, c)'
      BY <1>6, <2>3, <2>7, <2>10 DEF InOrder
    <3> QED
      BY <1>3, <2>5, <2>6, <2>7, <2>8, <2>10, <3>1, DownstreamAfter
  <2> QED
    BY <1>8, <2>9, <2>10
<1> QED
  BY <1>7, <1>8

LEMMA InOrderStep ==
  ASSUME Explained, Forwarded, UpstreamOrder, [Next]_vars,
         NEW s \in Servers, NEW c \in Clients,
         NEW f \in Messages, NEW g \in Messages,
         RedisWorkerCount[s] = 1, WorkerCount[Home[c]] = 1,
         Before(s, f, g), Orderly(c, f, g), Orderly(c, f, g)', InOrder(c, f, g)
  PROVE  InOrder(c, f, g)'
<1>t. /\ Typed /\ AcceptedOnce /\ Upstream /\ Subscriptions /\ Snapshots
      /\ f # g
      /\ Home[c] \in Servers
  <2>1. Typed /\ AcceptedOnce /\ Upstream /\ Subscriptions /\ Snapshots
    BY DEF Explained, Provenance
  <2> QED
    BY <2>1, BeforeAccepted, Constants
<1>o. f \notin degraded' /\ g \notin degraded' /\ carried'[f] <= 1
  BY DEF Orderly
<1>b. /\ NotBefore(broadcastJobs[Home[c]], JobsFor(g, c), JobsFor(f, c))
      /\ \A d \in Clients : Same(c, d) => NotBefore(channel[d], {g}, {f})
  BY DEF InOrder
<1>1. ASSUME NEW t \in Servers, NEW n \in Messages,
             EnqueueLocalBroadcast(t, Room(n), n), n \in degraded',
             UNCHANGED <<seen, broadcasting, channel>>
      PROVE  InOrder(c, f, g)'
  <2>1. n # f /\ n # g
    BY <1>1, <1>o
  <2>2. /\ NotBefore(broadcastJobs'[Home[c]], JobsFor(g, c), JobsFor(f, c))
        /\ Queued(f, c)' => Queued(f, c)
        /\ Queued(g, c)' => Queued(g, c)
    BY <1>1, <1>t, <1>b, <2>1, EnqueueOthers
  <2>3. /\ \A m : Working(m, c)' <=> Working(m, c)
        /\ InChannel(f, c)' <=> InChannel(f, c)
    BY <1>1, DownstreamAfter DEF Working, InChannel
  <2>4. /\ seen'[c] = seen[c]
        /\ \A d \in Clients : Same(c, d) => NotBefore(channel'[d], {g}, {f})
    BY <1>1, <1>b
  <2> QED
    BY <2>2, <2>3, <2>4, InOrderKept
<1>2. CASE UNCHANGED <<seen, broadcastJobs, broadcasting, channel>>
  <2>1. \A m : /\ Queued(m, c)' <=> Queued(m, c)
               /\ Working(m, c)' <=> Working(m, c)
               /\ InChannel(m, c)' <=> InChannel(m, c)
    BY <1>2, DownstreamAfter DEF Queued, Working, InChannel
  <2>2. /\ seen'[c] = seen[c]
        /\ NotBefore(broadcastJobs'[Home[c]], JobsFor(g, c), JobsFor(f, c))
        /\ \A d \in Clients : Same(c, d) => NotBefore(channel'[d], {g}, {f})
    BY <1>2, <1>b
  <2> QED
    BY <2>1, <2>2, InOrderKept
<1>3. ASSUME NEW t \in Servers, HandleBroadcast(t)
      PROVE  InOrder(c, f, g)'
  <2> DEFINE n == Head(Broadcast[t])
  <2>1. n \in Messages
        /\ \/ UNCHANGED broadcastJobs
           \/ EnqueueLocalBroadcast(t, Room(n), n) /\ n \in degraded'
    BY <1>3, <1>t, HandleEffect
  <2>2. UNCHANGED <<seen, broadcasting, channel>>
    BY <1>3 DEF HandleBroadcast, workers, redis
  <2> HIDE DEF n
  <2> QED
    BY <1>1, <1>2, <2>1, <2>2
<1>4. ASSUME NEW t \in Servers, NEW w \in 1..RedisWorkerCount[t], CircuitOpen(t, w)
      PROVE  InOrder(c, f, g)'
  <2> DEFINE n == Head(redisPublishJobs[t])
  <2>1. n \in Messages /\ EnqueueLocalBroadcast(t, Room(n), n) /\ n \in degraded'
    BY <1>4, <1>t, CircuitOpenEffect
  <2>2. UNCHANGED <<seen, broadcasting, channel>>
    BY <1>4 DEF CircuitOpen, workers, redis
  <2> HIDE DEF n
  <2> QED
    BY <1>1, <2>1, <2>2
<1>5. ASSUME NEW t \in Servers, NEW w \in 1..RedisWorkerCount[t], PublishFails(t, w)
      PROVE  InOrder(c, f, g)'
  <2> DEFINE n == publishing[t][w].message
  <2>e. /\ n \in Messages
        /\ EnqueueLocalBroadcast(t, Room(n), n)
        /\ degraded' = degraded \cup {n}
    BY <1>5, <1>t, PublishFailsEffect
  <2>1. n \in degraded'
    BY <2>e
  <2>2. UNCHANGED <<seen, broadcasting, channel>>
    BY <1>5 DEF PublishFails, workers
  <2> HIDE DEF n
  <2> QED
    BY <1>1, <2>e, <2>1, <2>2
<1>6. ASSUME NEW t \in Servers, NEW w \in 1..WorkerCount[t], TakeBroadcastJob(t, w)
      PROVE  InOrder(c, f, g)'
  BY <1>6, <1>t, InOrderTakeJob
<1>7. ASSUME NEW t \in Servers, NEW w \in 1..WorkerCount[t], BroadcastWorker(t, w)
      PROVE  InOrder(c, f, g)'
  BY <1>7, <1>t, InOrderBroadcast
<1>8. ASSUME NEW n \in Messages, CarryOut(n)
      PROVE  InOrder(c, f, g)'
  BY <1>8, <1>o, InOrderCarryOut
<1>9. ASSUME NEW b \in Clients, Receive(b)
      PROVE  InOrder(c, f, g)'
  BY <1>9, <1>t, InOrderReceive
<1>10. ASSUME NEW b \in Clients, SubscriptionEnds(b)
       PROVE  InOrder(c, f, g)'
  <2>1. /\ channel' = [channel EXCEPT ![b] = <<>>]
        /\ UNCHANGED <<seen, broadcastJobs, broadcasting>>
    BY <1>10 DEF SubscriptionEnds, locals, workers
  <2>2. \A d \in Clients : channel'[d] = channel[d] \/ channel'[d] = <<>>
    BY <1>t, <2>1 DEF Typed, TypeOK
  <2>3. NotBefore(<<>>, {g}, {f})
    BY DEF NotBefore
  <2>4. \A d \in Clients : Same(c, d) => NotBefore(channel'[d], {g}, {f})
    BY <1>b, <2>2, <2>3
  <2>5. \A m : /\ Queued(m, c)' <=> Queued(m, c)
               /\ Working(m, c)' <=> Working(m, c)
    BY <2>1, DownstreamAfter DEF Queued, Working
  <2>6. InChannel(f, c)' => InChannel(f, c)
    BY <2>2, EmptyRange, DownstreamAfter DEF InChannel
  <2>7. /\ seen'[c] = seen[c]
        /\ NotBefore(broadcastJobs'[Home[c]], JobsFor(g, c), JobsFor(f, c))
    BY <1>b, <2>1
  <2> QED
    BY <2>4, <2>5, <2>6, <2>7, InOrderKept
<1> QED
  BY <1>2, <1>3, <1>4, <1>5, <1>6, <1>7, <1>8, <1>9, <1>10
  DEF Next, vars, Publish, Published, Register, Unregister, Subscribe,
      SubscriptionBreaks, SubmitDanmaku, redis, locals, workers

LEMMA DownstreamOrderStep ==
  ASSUME Explained, Forwarded, UpstreamOrder, DownstreamOrder, [Next]_vars
  PROVE  DownstreamOrder'
<1>t. Typed /\ Provenance
  BY DEF Explained
<1>1. ASSUME NEW c \in Clients, NEW s \in Servers,
             NEW f \in Messages, NEW g \in Messages,
             RedisWorkerCount[s] = 1, WorkerCount[Home[c]] = 1,
             Before(s, f, g)', Orderly(c, f, g)'
      PROVE  InOrder(c, f, g)'
  <2>1. CASE Before(s, f, g)
    <3>1. Orderly(c, f, g)
      BY <1>1, <1>t, OrderlyShrinks
    <3>2. InOrder(c, f, g)
      BY <1>1, <2>1, <3>1 DEF DownstreamOrder
    <3> QED
      BY <1>1, <2>1, <3>1, <3>2, InOrderStep
  <2>2. CASE SubmitDanmaku(g)
    <3>1. /\ ~Accepted(g)
          /\ UNCHANGED <<seen, broadcastJobs, broadcasting, channel>>
      BY <2>2 DEF SubmitDanmaku, Accepted, redis, locals, workers
    <3> QED
      BY <1>t, <3>1, NowhereInOrder
  <2> QED
    BY <1>1, <1>t, <2>1, <2>2, BeforeStep
<1> QED
  BY <1>1 DEF DownstreamOrder

Ordered ==
  /\ Explained
  /\ Forwarded
  /\ UpstreamOrder
  /\ DownstreamOrder

LEMMA OrderedInit == Init => Ordered
<1> SUFFICES ASSUME Init PROVE Ordered
  OBVIOUS
<1>1. Explained
  BY ExplainedInit
<1>2. \A s \in Servers : accepted[s] = <<>>
  BY DEF Init
<1>3. Forwarded
  BY <1>2, EmptyRange, Constants DEF Forwarded, Accepted
<1>4. \A s \in Servers : \A f, g : ~Before(s, f, g)
  BY <1>2 DEF Before
<1> QED
  BY <1>1, <1>3, <1>4 DEF Ordered, UpstreamOrder, DownstreamOrder

LEMMA OrderedStep ==
  ASSUME Ordered, [Next]_vars
  PROVE  Ordered'
<1>1. Explained'
  BY ExplainedStep DEF Ordered
<1>2. Forwarded'
  BY ForwardedStep DEF Ordered, Explained, Provenance
<1>3. UpstreamOrder'
  BY UpstreamOrderStep DEF Ordered, Explained, Provenance
<1>4. DownstreamOrder'
  BY DownstreamOrderStep DEF Ordered
<1> QED
  BY <1>1, <1>2, <1>3, <1>4 DEF Ordered

LEMMA AtMostOne ==
  ASSUME NEW S, IsFiniteSet(S), Cardinality(S) <= 1, NEW d \in S, NEW e \in S
  PROVE  d = e
<1>1. SUFFICES ASSUME d # e PROVE FALSE
  OBVIOUS
<1>2. IsFiniteSet({d}) /\ Cardinality({d}) = 1
  BY FS_Singleton
<1>3. Cardinality({d} \cup {e}) = 2
  <2> DEFINE P == {d}
  <2>1. e \notin P
    BY <1>1
  <2>2. IsFiniteSet(P) /\ Cardinality(P) = 1
    BY <1>2
  <2> HIDE DEF P
  <2>3. Cardinality(P \cup {e}) = Cardinality(P) + 1
    BY <2>1, <2>2, FS_AddElement
  <2>4. Cardinality(P \cup {e}) = 2
    BY <2>2, <2>3
  <2> QED
    BY <2>4 DEF P
<1>4. Cardinality({d} \cup {e}) <= Cardinality(S)
  <2>1. {d} \cup {e} \subseteq S
    OBVIOUS
  <2> QED
    BY <2>1, FS_Subset
<1>5. Cardinality(S) \in Nat
  BY FS_CardinalityType
<1> QED
  BY <1>3, <1>4, <1>5

LEMMA OrderedKeepsOrder ==
  ASSUME Ordered
  PROVE  OrderIsKept
<1> SUFFICES ASSUME NEW c \in Clients, NEW s \in Servers,
                    RedisWorkerCount[s] = 1, WorkerCount[Home[c]] = 1,
                    NEW i \in 1..Len(accepted[s]), NEW j \in 1..Len(accepted[s])
             PROVE  LET first == accepted[s][i]
                        second == accepted[s][j]
                    IN (/\ i < j
                        /\ {first, second} \cap degraded = {}
                        /\ carried[first] <= 1 /\ carried[second] <= 1
                        /\ Cardinality({d \in Clients :
                                /\ Same(c, d)
                                /\ arrivals[first][d] + arrivals[second][d] > 0}) <= 1)
                       => \A l \in 1..Len(seen[c]) :
                            seen[c][l] = second =>
                              \A k \in (l + 1)..Len(seen[c]) : seen[c][k] # first
  BY DEF OrderIsKept
<1> DEFINE f == accepted[s][i]
           g == accepted[s][j]
           D == {d \in Clients :
                   /\ Same(c, d)
                   /\ arrivals[f][d] + arrivals[g][d] > 0}
<1> SUFFICES ASSUME i < j, {f, g} \cap degraded = {},
                    carried[f] <= 1, carried[g] <= 1, Cardinality(D) <= 1,
                    NEW l \in 1..Len(seen[c]), seen[c][l] = g,
                    NEW k \in (l + 1)..Len(seen[c])
             PROVE  seen[c][k] # f
  OBVIOUS
<1>t. Typed
  BY DEF Ordered, Explained
<1>1. f \in Messages /\ g \in Messages
  <2>1. accepted[s] \in Seq(Messages)
    BY <1>t, Sequences
  <2> QED
    BY <2>1
<1>2. Before(s, f, g)
  BY DEF Before
<1>3. IsFiniteSet(D) /\ Cardinality(D) <= 1
  BY Assumptions, FS_Subset
<1>4. f \notin degraded /\ g \notin degraded /\ carried[f] <= 1 /\ carried[g] <= 1
  OBVIOUS
<1>5. seen[c][l] \in {g}
  OBVIOUS
<1> HIDE DEF f, g
<1>6. \A d \in Clients : Serves(d, c, f, g) => d \in D
  <2>1. \A d \in Clients : arrivals[f][d] \in Nat /\ arrivals[g][d] \in Nat
    BY <1>t, <1>1 DEF Typed, TypeOK
  <2> QED
    BY <2>1 DEF Serves
<1> HIDE DEF D
<1>7. \A d, e \in Clients : Serves(d, c, f, g) /\ Serves(e, c, f, g) => d = e
  BY <1>3, <1>6, AtMostOne
<1>8. NotBefore(seen[c], {g}, {f})
  BY <1>1, <1>2, <1>4, <1>7 DEF Orderly, Ordered, DownstreamOrder, InOrder
<1>9. seen[c][k] \notin {f}
  BY <1>5, <1>8 DEF NotBefore
<1> QED
  BY <1>9

(* Two messages of one server are first seen by a client in the order in   *)
(* which they were accepted, as long as that server has one                *)
(* redisPublishWorker, the client's server one broadcastWorker, neither    *)
(* message was degraded or carried out twice, and only one subscription of *)
(* the room received them: every hand-over between (Manager.Broadcast,     *)
(* redisPublishJobs, the channel of the subscription, broadcastJobs,       *)
(* manager.go) is a queue, and the second command is not sent before the   *)
(* first was carried out.                                                  *)
THEOREM OrderKept == Spec => []OrderIsKept
BY OrderedInit, OrderedStep, OrderedKeepsOrder, PTL DEF Spec

=============================================================================
