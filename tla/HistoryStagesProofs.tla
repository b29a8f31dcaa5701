------------------------- MODULE HistoryStagesProofs -------------------------
(***************************************************************************)
(* HistoryStages keeps what the course says of V4, the prototype, V5 and   *)
(* V8.  The inductive invariant has a part for each way of storing: what   *)
(* V4 and the prototype have taken is stored, on its way, or blamed on a   *)
(* known cause (Entrusted); what V5 and V8 have marked is settled, and     *)
(* what they have not is in the batch (StoredFirst, Gap); and a record no  *)
(* lost answer or redelivery has to do with is in one place only (Once).   *)
(***************************************************************************)
EXTENDS HistoryStages, SequenceTheorems, TLAPS

(* The stages with a consumer that inserts before it marks. *)
Consumers == {"V5", "V8"}

(* A flush has a batch to write, and a loop that has ended has none. *)
Batches ==
  /\ attempt > 0 => buffer # <<>>
  /\ attempt = 0 => Len(buffer) < BatchSize
  /\ loop \in {"stopped", "idle", "dead"} => buffer = <<>> /\ attempt = 0

(* Positions do not overtake the records that have come. *)
Ahead ==
  /\ marked <= next
  /\ stage \in Consumers =>
       \A o \in ToSet(buffer) : kind[o] = "valid" /\ o < next

Typed ==
  /\ TypeOK
  /\ Batches
  /\ Ahead
-----------------------------------------------------------------------------
(* Sequences *)

(* A record joins a queue or a batch. *)
LEMMA Appended ==
  ASSUME NEW S, NEW q \in Seq(S), NEW e \in S
  PROVE  /\ Append(q, e) \in Seq(S)
         /\ Append(q, e) # <<>>
         /\ Len(Append(q, e)) = Len(q) + 1
         /\ Last(Append(q, e)) = e
         /\ ToSet(Append(q, e)) = ToSet(q) \cup {e}
<1> DEFINE a == Append(q, e)
<1>1. /\ a \in Seq(S)
      /\ Len(a) = Len(q) + 1
      /\ \A i \in 1..Len(q) : a[i] = q[i]
      /\ a[Len(q) + 1] = e
  BY AppendProperties
<1>2. Len(q) \in Nat
  BY LenProperties
<1>3. DOMAIN a = 1..Len(a) /\ DOMAIN q = 1..Len(q)
  BY <1>1, LenProperties
<1> HIDE DEF a
<1>4. ToSet(a) = ToSet(q) \cup {e}
  BY <1>1, <1>2, <1>3 DEF ToSet
<1>5. a # <<>> /\ Last(a) = e
  BY <1>1, <1>2, EmptySeq DEF Last
<1> QED
  BY <1>1, <1>4, <1>5 DEF a

(* A queue loses its head. *)
LEMMA Dequeued ==
  ASSUME NEW S, NEW q \in Seq(S), q # <<>>
  PROVE  /\ Head(q) \in S
         /\ Tail(q) \in Seq(S)
         /\ Len(Tail(q)) = Len(q) - 1
         /\ ToSet(q) = ToSet(Tail(q)) \cup {Head(q)}
         /\ \A i \in DOMAIN Tail(q) :
              i + 1 \in DOMAIN q /\ Tail(q)[i] = q[i + 1]
         /\ Head(q) = q[1] /\ 1 \in DOMAIN q
<1> DEFINE r == Tail(q)
<1>1. /\ Head(q) \in S
      /\ r \in Seq(S)
      /\ Len(r) = Len(q) - 1
      /\ \A i \in 1..Len(r) : r[i] = q[i + 1]
  BY HeadTailProperties
<1>2. Len(q) \in Nat \ {0} /\ Head(q) = q[1]
  BY EmptySeq
<1>3. DOMAIN r = 1..Len(r) /\ DOMAIN q = 1..Len(q)
  BY <1>1, LenProperties
<1> HIDE DEF r
<1>4. \A i \in 1..Len(r) : i + 1 \in 1..Len(q)
  BY <1>1, <1>2
<1>5. ASSUME NEW i \in 1..Len(q)
      PROVE  q[i] = Head(q) \/ \E j \in 1..Len(r) : q[i] = r[j]
  <2>1. CASE i = 1
    BY <1>2, <2>1
  <2>2. CASE i # 1
    <3>1. i - 1 \in 1..Len(r) /\ (i - 1) + 1 = i
      BY <1>1, <1>2, <2>2
    <3>2. r[i - 1] = q[i]
      BY <1>1, <3>1
    <3> QED
      BY <3>1, <3>2
  <2> QED
    BY <2>1, <2>2
<1>6. 1 \in 1..Len(q)
  BY <1>2
<1>7. /\ ToSet(r) = {r[i] : i \in 1..Len(r)}
      /\ ToSet(q) = {q[i] : i \in 1..Len(q)}
  BY <1>3 DEF ToSet
<1>8. \A j \in 1..Len(r) : \E i \in 1..Len(q) : r[j] = q[i]
  BY <1>1, <1>4
<1>9. ToSet(q) = ToSet(r) \cup {Head(q)}
  BY <1>2, <1>5, <1>6, <1>7, <1>8
<1> QED
  BY <1>1, <1>2, <1>3, <1>4, <1>6, <1>9 DEF r

(* The last record of a batch is in it. *)
LEMMA LastIsIn ==
  ASSUME NEW S, NEW q \in Seq(S), q # <<>>
  PROVE  Last(q) \in ToSet(q) /\ Last(q) \in S
<1>1. Len(q) \in Nat \ {0} /\ DOMAIN q = 1..Len(q)
  BY EmptySeq, LenProperties
<1>2. Len(q) \in 1..Len(q)
  BY <1>1
<1> QED
  BY <1>1, <1>2, ElementOfSeq DEF Last, ToSet

LEMMA SetOfSeq ==
  ASSUME NEW S, NEW q \in Seq(S)
  PROVE  ToSet(q) \subseteq S /\ Len(q) \in Nat /\ (Len(q) = 0 <=> q = <<>>)
<1>1. DOMAIN q = 1..Len(q) /\ Len(q) \in Nat
  BY LenProperties
<1> QED
  BY <1>1, ElementOfSeq, EmptySeq DEF ToSet

LEMMA NothingInEmpty == ToSet(<<>>) = {} /\ Len(<<>>) = 0
BY DEF ToSet

LEMMA MaxOfTwo ==
  ASSUME NEW i \in Nat, NEW j \in Nat
  PROVE  Max({i, j}) = IF i >= j THEN i ELSE j
<1> DEFINE m == IF i >= j THEN i ELSE j
<1>1. m \in {i, j} /\ \A y \in {i, j} : m >= y
  OBVIOUS
<1>2. \A x \in {i, j} : (\A y \in {i, j} : x >= y) => x = m
  OBVIOUS
<1> QED
  BY <1>1, <1>2 DEF Max
-----------------------------------------------------------------------------
(* Types and positions *)

LEMMA Collecting ==
  ASSUME Typed, attempt = 0, NEW o \in Records, Collect(o)
  PROVE  /\ buffer' \in Seq(Records)
         /\ Len(buffer') <= BatchSize
         /\ attempt' \in {0, 1}
         /\ buffer' # <<>>
         /\ attempt' = 0 => Len(buffer') < BatchSize
         /\ ToSet(buffer') = ToSet(buffer) \cup {o}
         /\ Last(buffer') = o
<1>1. buffer \in Seq(Records) /\ Len(buffer) < BatchSize /\ Len(buffer) \in Nat
  BY SetOfSeq DEF Typed, TypeOK, Batches
<1>2. BatchSize \in Nat
  BY Assumptions
<1> QED
  BY <1>1, <1>2, Appended DEF Collect

LEMMA Emptied ==
  ASSUME buffer' = <<>>
  PROVE  /\ buffer' \in Seq(Records)
         /\ ToSet(buffer') = {}
         /\ Len(buffer') <= BatchSize
         /\ Len(buffer') < BatchSize
BY Assumptions, NothingInEmpty, EmptySeq

LEMMA Removed ==
  ASSUME Typed, queue # <<>>, queue' = Tail(queue)
  PROVE  /\ Head(queue) \in Records
         /\ queue' \in Seq(Records)
         /\ Len(queue') <= QueueSize
         /\ ToSet(queue) = ToSet(queue') \cup {Head(queue)}
<1>1. queue \in Seq(Records) /\ Len(queue) <= QueueSize /\ Len(queue) \in Nat
  BY SetOfSeq DEF Typed, TypeOK
<1>2. QueueSize \in Nat
  BY Assumptions
<1> QED
  BY <1>1, <1>2, Dequeued

(* An insert adds a row to records of the batch only. *)
LEMMA Inserted ==
  ASSUME Typed, Insert
  PROVE  /\ rows' \in [Records -> Nat]
         /\ \A o \in Records :
              /\ o \notin ToSet(buffer) => rows'[o] = rows[o]
              /\ o \in ToSet(buffer) => rows'[o] > 0
              /\ rows[o] = 0 => rows'[o] <= 1
              /\ rows'[o] >= rows[o] \/ stage = "V8"
              /\ stage = "V8" => rows'[o] = rows[o] \/ rows'[o] = 1
<1>1. \A o \in Records : rows[o] \in Nat
  BY DEF Typed, TypeOK
<1> QED
  BY <1>1 DEF Insert, CreateIdempotent, CreateInBatches

LEMMA Blamed ==
  ASSUME Typed, NEW c \in Causes, NEW S \in SUBSET Records, Blame(c, S)
  PROVE  /\ causes' \in [Causes -> SUBSET Records]
         /\ \A d \in Causes : causes[d] \subseteq causes'[d]
         /\ S \subseteq causes'[c]
BY DEF Typed, TypeOK, Blame

(* The batch after a loop has returned or begun its last flush. *)
BatchAfter ==
  /\ buffer' \in Seq(Records)
  /\ Len(buffer') <= BatchSize
  /\ ToSet(buffer') \subseteq ToSet(buffer)
  /\ attempt' \in 0..MaxRetries
  /\ loop' \in Loops
  /\ detached' \in BOOLEAN
  /\ Batches'

LEMMA Ending ==
  ASSUME Typed,
         \/ Return
         \/ /\ buffer # <<>> /\ UNCHANGED buffer
            /\ loop' = "last" /\ attempt' = 1
            /\ detached' = TRUE \/ detached' = FALSE \/ UNCHANGED detached
  PROVE  BatchAfter
<1>1. MaxRetries \in Nat \ {0}
  BY Assumptions
<1>2. CASE Return
  <2>1. buffer' = <<>> /\ attempt' = 0 /\ loop' = "stopped"
        /\ detached' = FALSE /\ attempt' \in 0..MaxRetries
    BY <1>1, <1>2 DEF Return
  <2> QED
    <3>1. /\ buffer' \in Seq(Records) /\ Len(buffer') <= BatchSize
          /\ ToSet(buffer') = {} /\ Len(buffer') < BatchSize
      BY <2>1, Emptied
    <3>2. loop' \in Loops
      BY <2>1 DEF Loops
    <3>3. Batches'
      BY <2>1, <3>1 DEF Batches
    <3> QED
      BY <2>1, <3>1, <3>2, <3>3 DEF BatchAfter
<1>3. CASE /\ buffer # <<>> /\ UNCHANGED buffer
           /\ loop' = "last" /\ attempt' = 1
           /\ detached' = TRUE \/ detached' = FALSE \/ UNCHANGED detached
  <2>1. attempt' \in 0..MaxRetries /\ attempt' = 1
    BY <1>1, <1>3
  <2>2. loop' \in Loops /\ loop' = "last"
    BY <1>3 DEF Loops
  <2>3. /\ buffer' \in Seq(Records) /\ Len(buffer') <= BatchSize
        /\ ToSet(buffer') = ToSet(buffer) /\ buffer' # <<>>
    BY <1>3 DEF Typed, TypeOK
  <2>4. detached' \in BOOLEAN
    BY <1>3 DEF Typed, TypeOK
  <2>5. Batches'
    BY <2>1, <2>2, <2>3 DEF Batches
  <2> QED
    BY <2>1, <2>2, <2>3, <2>4, <2>5 DEF BatchAfter
<1> QED
  BY <1>2, <1>3

LEMMA Faulty ==
  ASSUME Typed, Fault
  PROVE  faults' \in 0..MaxFaults
BY Assumptions DEF Typed, TypeOK, Fault

LEMMA InitTyped == Init => Typed
<1> SUFFICES ASSUME Init PROVE Typed
  OBVIOUS
<1>1. N \in Nat /\ QueueSize \in Nat /\ BatchSize \in Nat \ {0}
      /\ MaxRetries \in Nat /\ MaxFaults \in Nat
  BY Assumptions
<1>2. queue \in Seq(Records) /\ Len(queue) = 0
  BY EmptySeq DEF Init
<1>3. buffer \in Seq(Records) /\ Len(buffer) = 0 /\ ToSet(buffer) = {}
  BY EmptySeq, NothingInEmpty DEF Init
<1>4. rows \in [Records -> Nat] /\ causes \in [Causes -> SUBSET Records]
  BY DEF Init
<1>5. next \in 1..(N + 1) /\ marked \in 1..(N + 1) /\ committed \in 1..marked
      /\ attempt \in 0..MaxRetries /\ faults \in 0..MaxFaults
  BY <1>1 DEF Init
<1>6. TypeOK
  <2>1. stage \in Stages /\ kind \in [Records -> Kinds]
    BY DEF Init
  <2>2. /\ loop \in Loops /\ cancelled \in BOOLEAN /\ detached \in BOOLEAN
        /\ channel \in {"open", "closed", "stale"}
    BY DEF Init, Loops
  <2>3. /\ deadLetters \subseteq Records /\ unanswered \subseteq Records
        /\ redelivered \subseteq Records
    BY DEF Init
  <2>4. Len(queue) <= QueueSize /\ Len(buffer) <= BatchSize
    BY <1>1, <1>2, <1>3
  <2> QED
    BY <1>2, <1>3, <1>4, <1>5, <2>1, <2>2, <2>3, <2>4 DEF TypeOK
<1> QED
  BY <1>1, <1>3, <1>6 DEF Init, Typed, Batches, Ahead

LEMMA TypedStep ==
  ASSUME Typed, [Next]_vars
  PROVE  Typed'
<1>a. /\ N \in Nat /\ QueueSize \in Nat \ {0} /\ BatchSize \in Nat \ {0}
      /\ MaxRetries \in Nat \ {0} /\ MaxFaults \in Nat
  BY Assumptions
<1>t. /\ TypeOK /\ Batches /\ Ahead
      /\ Len(queue) \in Nat /\ Len(buffer) \in Nat
  BY SetOfSeq DEF Typed, TypeOK
<1> USE DEF input, batch, marks, store
<1>1. CASE Enqueue
  <2>1. Len(queue) = QueueSize \/ Len(queue) < QueueSize
    BY <1>1 DEF Enqueue
  <2>2. next \in Records
    BY <1>1, <1>a, <1>t DEF Enqueue, TypeOK, Records
  <2>3. queue' \in Seq(Records) /\ Len(queue') <= QueueSize
    <3>1. CASE queue' = Append(queue, next) /\ Len(queue) < QueueSize
      BY <1>a, <1>t, <2>2, <3>1, Appended DEF TypeOK
    <3>2. CASE UNCHANGED queue
      BY <1>t, <3>2 DEF TypeOK
    <3> QED
      BY <1>1, <3>1, <3>2 DEF Enqueue
  <2>4. causes' \in [Causes -> SUBSET Records]
    BY <1>1, <1>t, <2>2, Blamed DEF Enqueue, Typed, TypeOK, Causes
  <2>5. next' \in 1..(N + 1) /\ marked' <= next'
    BY <1>1, <1>a, <1>t DEF Enqueue, TypeOK, Ahead
  <2> QED
    BY <1>1, <1>t, <2>3, <2>4, <2>5
    DEF Enqueue, Typed, TypeOK, Batches, Ahead, Consumers
<1>2. CASE DequeueV4 \/ DequeuePrototype
  <2>1. Head(queue) \in Records /\ queue' \in Seq(Records)
        /\ Len(queue') <= QueueSize
    BY <1>2, Removed DEF DequeueV4, DequeuePrototype
  <2>2. attempt = 0 /\ Collect(Head(queue)) /\ stage \notin Consumers
        /\ loop \in {"running", "draining"}
    BY <1>2 DEF DequeueV4, DequeuePrototype, Consumers
  <2>3. UNCHANGED <<stage, kind, next, channel, loop, detached, cancelled,
                    marks, store, faults, causes>>
    BY <1>2 DEF DequeueV4, DequeuePrototype
  <2>4. /\ buffer' \in Seq(Records) /\ Len(buffer') <= BatchSize
        /\ attempt' \in {0, 1} /\ buffer' # <<>>
        /\ attempt' = 0 => Len(buffer') < BatchSize
    BY <2>1, <2>2, Collecting
  <2>5. attempt' \in 0..MaxRetries
    BY <1>a, <2>4
  <2> QED
    BY <1>t, <2>1, <2>2, <2>3, <2>4, <2>5 DEF Typed, TypeOK, Batches, Ahead
<1>3. CASE SeeDoneV4
  BY <1>3, <1>t DEF SeeDoneV4, Typed, TypeOK, Batches, Ahead, Loops
<1>4. CASE FinishV4
  <2>1. BatchAfter
    BY <1>4, Ending DEF FinishV4
  <2> QED
    BY <1>4, <1>t, <2>1 DEF FinishV4, BatchAfter, Typed, TypeOK, Ahead
<1>5. CASE ReceivePrototype
  <2>1. next \in Records /\ next' \in 1..(N + 1) /\ next' = next + 1
    BY <1>5, <1>a, <1>t DEF ReceivePrototype, TypeOK, Records
  <2>2. queue' \in Seq(Records) /\ Len(queue') <= QueueSize
    <3>1. CASE queue' = Append(queue, next) /\ Len(queue) < QueueSize
      BY <1>a, <1>t, <2>1, <3>1, Appended DEF TypeOK
    <3>2. CASE UNCHANGED queue
      BY <1>t, <3>2 DEF TypeOK
    <3> QED
      BY <1>5, <3>1, <3>2 DEF ReceivePrototype
  <2>3. marked' = next' /\ committed' \in 1..marked'
    BY <1>5, <1>a, <1>t, <2>1 DEF ReceivePrototype, TypeOK, Ahead
  <2> QED
    BY <1>5, <1>t, <2>1, <2>2, <2>3
    DEF ReceivePrototype, Typed, TypeOK, Batches, Ahead, Consumers
<1>6. CASE EndWorker
  <2>1. CASE buffer = <<>>
    BY <1>6, <1>t, <2>1 DEF EndWorker, Typed, TypeOK, Batches, Ahead, Loops
  <2>2. CASE buffer # <<>>
    <3>1. BatchAfter
      BY <1>6, <2>2, Ending DEF EndWorker
    <3> QED
      BY <1>6, <1>t, <3>1 DEF EndWorker, BatchAfter, Typed, TypeOK, Ahead
  <2> QED
    BY <2>1, <2>2
<1>7. CASE CloseChannel
  BY <1>7, <1>t DEF CloseChannel, Typed, TypeOK, Batches, Ahead
<1>8. CASE ReceiveV5 \/ ReceiveV8
  <2>1. next \in Records /\ next' \in 1..(N + 1) /\ next' = next + 1
    BY <1>8, <1>a, <1>t DEF ReceiveV5, ReceiveV8, TypeOK, Records
  <2>2. /\ attempt = 0 /\ loop = "running"
        /\ UNCHANGED <<stage, kind, queue, channel, loop, detached, cancelled,
                       committed, redelivered, store, faults>>
    BY <1>8 DEF ReceiveV5, ReceiveV8
  <2>3. CASE kind[next] # "valid"
    <3>1. /\ marked' = next' /\ Blame("overtaken", ToSet(buffer))
          /\ UNCHANGED <<buffer, attempt>>
      BY <1>8, <2>1, <2>3 DEF ReceiveV5, ReceiveV8
    <3>2. causes' \in [Causes -> SUBSET Records]
      BY <1>t, <3>1, SetOfSeq, Blamed DEF Typed, TypeOK, Causes
    <3>3. committed' \in 1..marked'
      BY <1>a, <1>t, <2>1, <2>2, <3>1 DEF TypeOK, Ahead
    <3>4. \A o \in ToSet(buffer) : o < next => o < next'
      <4>1. ToSet(buffer) \subseteq Records
        BY <1>t, SetOfSeq DEF TypeOK
      <4> QED
        BY <1>a, <2>1, <4>1 DEF Records
    <3> QED
      BY <1>t, <2>1, <2>2, <3>1, <3>2, <3>3, <3>4
      DEF Typed, TypeOK, Batches, Ahead
  <2>4. CASE kind[next] = "valid"
    <3>1. Collect(next) /\ UNCHANGED <<marked, causes>>
      BY <1>8, <2>4 DEF ReceiveV5, ReceiveV8, marks
    <3>2. /\ buffer' \in Seq(Records) /\ Len(buffer') <= BatchSize
          /\ attempt' \in {0, 1} /\ buffer' # <<>>
          /\ attempt' = 0 => Len(buffer') < BatchSize
          /\ ToSet(buffer') = ToSet(buffer) \cup {next}
      BY <2>1, <2>2, <3>1, Collecting
    <3>3. attempt' \in 0..MaxRetries
      BY <1>a, <3>2
    <3>4. \A o \in ToSet(buffer') : o \in Records
      BY <3>2, SetOfSeq
    <3>5. marked' <= next'
      BY <1>a, <1>t, <2>1, <3>1 DEF TypeOK, Ahead
    <3>6. stage \in Consumers =>
            \A o \in ToSet(buffer') : kind[o] = "valid" /\ o < next'
      BY <1>a, <1>t, <2>1, <2>4, <3>2, <3>4 DEF Ahead, Records
    <3> QED
      BY <1>t, <2>1, <2>2, <3>1, <3>2, <3>3, <3>5, <3>6
      DEF Typed, TypeOK, Batches, Ahead
  <2> QED
    BY <2>3, <2>4
<1>9. CASE FlushBefore \/ Tick
  BY <1>9, <1>t, <1>a DEF FlushBefore, Tick, Typed, TypeOK, Batches, Ahead
<1>10. CASE SkipUnsupported
  <2>1. /\ next' \in 1..(N + 1) /\ marked' = next' /\ buffer = <<>>
        /\ committed' \in 1..marked'
    BY <1>10, <1>a, <1>t DEF SkipUnsupported, TypeOK, Ahead
  <2>2. ToSet(buffer') = {}
    BY <1>10, <2>1, NothingInEmpty DEF SkipUnsupported
  <2> QED
    BY <1>10, <1>t, <2>1, <2>2
    DEF SkipUnsupported, Typed, TypeOK, Batches, Ahead
<1>11. CASE PublishDeadLetter
  <2>1. CASE /\ marked' = next + 1 /\ next' = next + 1
             /\ UNCHANGED <<batch, faults>>
    <3>1. /\ next \in Records /\ next' \in 1..(N + 1) /\ marked' = next'
          /\ committed' \in 1..marked'
      BY <1>11, <2>1, <1>a, <1>t DEF PublishDeadLetter, TypeOK, Ahead, Records
    <3>2. buffer' = <<>> /\ ToSet(buffer') = {}
      BY <1>11, <2>1, NothingInEmpty DEF PublishDeadLetter
    <3>3. deadLetters' \subseteq Records
      BY <1>11, <1>t, <3>1 DEF PublishDeadLetter, TypeOK
    <3> QED
      BY <1>11, <1>t, <2>1, <3>1, <3>2, <3>3
      DEF PublishDeadLetter, Typed, TypeOK, Batches, Ahead
  <2>2. CASE Fault /\ Return /\ UNCHANGED <<next, deadLetters, marked>>
    BY <1>11, <1>t, <1>a, <2>2, Emptied, Faulty
    DEF PublishDeadLetter, Return, Typed, TypeOK, Batches, Ahead, Loops
  <2> QED
    BY <1>11, <2>1, <2>2 DEF PublishDeadLetter
<1>12. CASE EndClaim
  <2>1. BatchAfter
    BY <1>12, Ending DEF EndClaim
  <2> QED
    BY <1>12, <1>t, <2>1 DEF EndClaim, BatchAfter, Typed, TypeOK, Ahead
<1>13. CASE FlushSucceeds
  <2>1. rows' \in [Records -> Nat]
    BY <1>13, Inserted DEF FlushSucceeds
  <2>2. marked' \in marked..(N + 1) /\ marked' <= next
    <3>1. CASE stage \in {"V5", "V8"}
      <4>1. buffer # <<>> /\ Last(buffer) \in ToSet(buffer)
            /\ Last(buffer) \in Records
        BY <1>13, <1>t, LastIsIn DEF FlushSucceeds, TypeOK, Batches
      <4>2. Last(buffer) < next /\ Last(buffer) + 1 \in Nat /\ marked \in Nat
            /\ next \in 1..(N + 1)
        BY <1>t, <1>a, <3>1, <4>1 DEF Ahead, Consumers, Records, TypeOK
      <4>3. marked' = IF marked >= Last(buffer) + 1 THEN marked
                                                    ELSE Last(buffer) + 1
        BY <1>13, <3>1, <4>2, MaxOfTwo DEF FlushSucceeds, MarkBatch
      <4> QED
        <5>1. marked <= next
          BY <1>t DEF Ahead
        <5>2. marked \in 1..(N + 1) /\ Last(buffer) \in 1..N
          BY <1>t, <4>1 DEF TypeOK, Records
        <5> QED
          BY <1>a, <4>2, <4>3, <5>1, <5>2
    <3>2. CASE stage \notin {"V5", "V8"}
      BY <1>13, <1>a, <1>t, <3>2 DEF FlushSucceeds, MarkBatch, TypeOK, Ahead
    <3> QED
      BY <3>1, <3>2
  <2>3. marked' \in 1..(N + 1) /\ committed' \in 1..marked'
    BY <1>13, <1>a, <1>t, <2>2 DEF FlushSucceeds, TypeOK
  <2>4. /\ buffer' = <<>> /\ attempt' = 0 /\ loop' \in Loops
        /\ detached' \in BOOLEAN
    BY <1>13, <1>t DEF FlushSucceeds, AfterFlush, TypeOK, Loops
  <2> QED
    BY <1>13, <1>t, <1>a, <2>1, <2>2, <2>3, <2>4, Emptied
    DEF FlushSucceeds, Typed, TypeOK, Batches, Ahead
<1>14. ASSUME CallFails
       PROVE  /\ rows' \in [Records -> Nat] /\ unanswered' \subseteq Records
              /\ faults' \in 0..MaxFaults
  <2>1. ToSet(buffer) \subseteq Records
    BY <1>t, SetOfSeq DEF TypeOK
  <2> QED
    BY <1>14, <1>t, <2>1, Inserted, Faulty DEF CallFails, Typed, TypeOK
<1>15. CASE InsertFails
  <2>1. attempt' \in 1..MaxRetries
    BY <1>15, <1>a, <1>t DEF InsertFails, CallFails, Hopeless, TypeOK
  <2> QED
    BY <1>15, <1>t, <1>a, <1>14, <2>1
    DEF InsertFails, CallFails, Typed, TypeOK, Batches, Ahead
<1>16. CASE DropBatch
  <2>1. causes' \in [Causes -> SUBSET Records]
    BY <1>16, <1>t, SetOfSeq, Blamed DEF DropBatch, Typed, TypeOK, Causes
  <2>2. /\ buffer' = <<>> /\ attempt' = 0 /\ loop' \in Loops
        /\ detached' \in BOOLEAN
    BY <1>16, <1>t DEF DropBatch, AfterFlush, TypeOK, Loops
  <2> QED
    BY <1>16, <1>t, <1>a, <1>14, <2>1, <2>2, Emptied
    DEF DropBatch, Typed, TypeOK, Batches, Ahead
<1>17. CASE FailClaim
  <2>1. BatchAfter
    BY <1>17, Ending DEF FailClaim
  <2> QED
    BY <1>17, <1>t, <1>14, <2>1
    DEF FailClaim, BatchAfter, Typed, TypeOK, Ahead
<1>18. CASE Cancel
  BY <1>18, <1>t, Faulty DEF Cancel, Typed, TypeOK, Batches, Ahead
<1>19. CASE AutoCommit
  BY <1>19, <1>t, <1>a DEF AutoCommit, Typed, TypeOK, Batches, Ahead
<1>20. CASE SessionEnds
  <2>1. committed' \in 1..marked'
    BY <1>20, <1>t, <1>a DEF SessionEnds, TypeOK
  <2>2. Batches'
    BY <1>20, <1>t DEF SessionEnds, Batches
  <2> QED
    BY <1>20, <1>t, <2>1, <2>2
    DEF SessionEnds, Typed, TypeOK, Ahead, Loops
<1>21. CASE SessionStarts
  <2>1. committed..(next - 1) \subseteq Records /\ committed \in 1..(N + 1)
    BY <1>t, <1>a DEF TypeOK, Records
  <2>2. redelivered' \subseteq Records /\ committed' \in 1..marked'
        /\ next' \in 1..(N + 1) /\ marked' = next' /\ marked' \in 1..(N + 1)
    BY <1>21, <1>t, <1>a, <2>1 DEF SessionStarts, TypeOK
  <2>3. buffer' = <<>> /\ attempt' = 0 /\ ToSet(buffer') = {}
    BY <1>21, <1>t, NothingInEmpty DEF SessionStarts, Batches
  <2> QED
    BY <1>21, <1>t, <1>a, <2>2, <2>3, Emptied
    DEF SessionStarts, Typed, TypeOK, Batches, Ahead, Loops
<1>22. CASE ProcessEnds
  <2>1. causes' \in [Causes -> SUBSET Records]
    BY <1>22, <1>t, SetOfSeq, Blamed DEF ProcessEnds, Typed, TypeOK, Causes
  <2>2. queue' \in Seq(Records) /\ Len(queue') <= QueueSize
    BY <1>22, <1>a, EmptySeq DEF ProcessEnds
  <2>3. marked' \in 1..(N + 1) /\ committed' \in 1..marked' /\ marked' <= next'
    BY <1>22, <1>a, <1>t DEF ProcessEnds, TypeOK, Ahead
  <2>4. faults' \in 0..MaxFaults /\ loop' \in Loops
    BY <1>22, Faulty DEF ProcessEnds, Loops
  <2>5. buffer' = <<>> /\ attempt' = 0 /\ ToSet(buffer') = {}
        /\ attempt' \in 0..MaxRetries
    BY <1>22, <1>a, Emptied DEF ProcessEnds
  <2>6. Batches' /\ Ahead'
    BY <1>22, <2>3, <2>5, Emptied DEF Batches, Ahead
  <2>7. TypeOK'
    BY <1>22, <1>t, <2>1, <2>2, <2>3, <2>4, <2>5, Emptied
    DEF ProcessEnds, TypeOK
  <2> QED
    BY <2>6, <2>7 DEF Typed
<1>23. CASE UNCHANGED vars
  BY <1>23, <1>t DEF vars, Typed, TypeOK, Batches, Ahead
<1> QED
  BY <1>1, <1>2, <1>3, <1>4, <1>5, <1>6, <1>7, <1>8, <1>9, <1>10, <1>11,
     <1>12, <1>13, <1>15, <1>16, <1>17, <1>18, <1>19, <1>20, <1>21, <1>22,
     <1>23 DEF Next
-----------------------------------------------------------------------------
(* What stays *)

(* Nothing that is stored, dead, blamed or told is taken back. *)
Lasting ==
  /\ stage' = stage /\ kind' = kind
  /\ \A c \in Causes : causes[c] \subseteq causes'[c]
  /\ \A o \in Records : rows[o] > 0 => rows'[o] > 0
  /\ deadLetters \subseteq deadLetters'
  /\ unanswered \subseteq unanswered'
  /\ redelivered \subseteq redelivered'

LEMMA Lasts ==
  ASSUME Typed, [Next]_vars
  PROVE  Lasting
<1>t. /\ ToSet(queue) \subseteq Records /\ ToSet(buffer) \subseteq Records
      /\ \A o \in Records : rows[o] \in Nat
  BY SetOfSeq DEF Typed, TypeOK
<1> USE DEF input, batch, marks, store
<1>a. ASSUME Insert
      PROVE  \A o \in Records : rows[o] > 0 => rows'[o] > 0
  BY <1>a, <1>t, Inserted
<1>b. ASSUME CallFails
      PROVE  /\ \A o \in Records : rows[o] > 0 => rows'[o] > 0
             /\ unanswered \subseteq unanswered'
  BY <1>a, <1>b DEF CallFails
<1>1. CASE Enqueue
  <2>1. CASE UNCHANGED causes
    BY <1>1, <2>1 DEF Enqueue, Lasting
  <2>2. CASE Blame("full", {next})
    <3>1. next \in Records
      BY <1>1, Assumptions DEF Enqueue, Typed, TypeOK, Records
    <3>2. \A c \in Causes : causes[c] \subseteq causes'[c]
      BY <2>2, <3>1, Blamed DEF Causes
    <3> QED
      BY <1>1, <3>2 DEF Enqueue, Lasting
  <2> QED
    BY <1>1, <2>1, <2>2 DEF Enqueue
<1>2. CASE DequeueV4 \/ SeeDoneV4 \/ FinishV4
  BY <1>2 DEF DequeueV4, SeeDoneV4, FinishV4, Lasting
<1>3. CASE ReceivePrototype \/ DequeuePrototype \/ EndWorker \/ CloseChannel
  BY <1>3
  DEF ReceivePrototype, DequeuePrototype, EndWorker, CloseChannel, Lasting
<1>4. CASE ReceiveV5
  <2>1. CASE UNCHANGED causes
    BY <1>4, <2>1 DEF ReceiveV5, Lasting
  <2>2. CASE Blame("overtaken", ToSet(buffer))
    <3>1. \A c \in Causes : causes[c] \subseteq causes'[c]
      BY <1>t, <2>2, Blamed DEF Causes
    <3> QED
      BY <1>4, <3>1 DEF ReceiveV5, Lasting
  <2> QED
    BY <1>4, <2>1, <2>2 DEF ReceiveV5
<1>5. CASE ReceiveV8 \/ FlushBefore \/ SkipUnsupported \/ PublishDeadLetter
  BY <1>5
  DEF ReceiveV8, FlushBefore, SkipUnsupported, PublishDeadLetter, Lasting
<1>6. CASE Tick \/ EndClaim
  BY <1>6 DEF Tick, EndClaim, Lasting
<1>7. CASE FlushSucceeds
  BY <1>7, <1>a DEF FlushSucceeds, Lasting
<1>8. CASE InsertFails \/ FailClaim
  BY <1>8, <1>b DEF InsertFails, FailClaim, Lasting
<1>9. CASE DropBatch
  <2>1. \A c \in Causes : causes[c] \subseteq causes'[c]
    BY <1>9, <1>t, Blamed DEF DropBatch, Causes
  <2> QED
    BY <1>9, <1>b, <2>1 DEF DropBatch, Lasting
<1>10. CASE Cancel \/ AutoCommit \/ SessionEnds
  BY <1>10 DEF Cancel, AutoCommit, SessionEnds, Lasting
<1>11. CASE SessionStarts
  BY <1>11 DEF SessionStarts, Lasting
<1>12. CASE ProcessEnds
  <2>1. \A c \in Causes : causes[c] \subseteq causes'[c]
    BY <1>12, <1>t, Blamed DEF ProcessEnds, Causes
  <2> QED
    BY <1>12, <2>1 DEF ProcessEnds, Lasting
<1>13. CASE UNCHANGED vars
  BY <1>13 DEF vars, Lasting
<1> QED
  BY <1>1, <1>2, <1>3, <1>4, <1>5, <1>6, <1>7, <1>8, <1>9, <1>10, <1>11,
     <1>12, <1>13 DEF Next
-----------------------------------------------------------------------------
(* V4 and the prototype: a record is counted on before it is stored *)

Waiting == ToSet(queue) \cup ToSet(buffer)

Accounted ==
  {o \in Records : \/ rows[o] > 0
                  \/ o \in Waiting
                  \/ \E c \in LossesOf[stage] : o \in causes[c]}

(* What will not come again: V4 has no offsets. *)
Taken == IF stage = "V4" THEN next ELSE marked

Entrusted ==
  stage \in {"V4", "prototype"} =>
    /\ stage = "V4" => \A o \in Records : kind[o] = "valid"
    /\ stage = "prototype" /\ loop # "idle" => marked = next
    /\ \A o \in 1..(Taken - 1) : kind[o] = "valid" => o \in Accounted

LEMMA Losses ==
  /\ LossesOf["V4"] = {"full", "gaveUp", "forgotten"}
  /\ LossesOf["prototype"] = {"gaveUp", "spoilt", "forgotten"}
  /\ LossesOf["V5"] = {"overtaken"}
  /\ LossesOf["V8"] = {}
BY DEF LossesOf

(* A record stays accounted for if it does not leave the queue and the      *)
(* batch unnoticed.                                                        *)
LEMMA StaysAccounted ==
  ASSUME Lasting, stage \in {"V4", "prototype"},
         \A o \in Waiting : \/ o \in Waiting' \/ rows'[o] > 0
                            \/ \E c \in LossesOf[stage] : o \in causes'[c]
  PROVE  Accounted \subseteq Accounted'
<1>1. LossesOf[stage] \subseteq Causes
  BY Losses DEF Causes
<1>2. ASSUME NEW o \in Accounted
      PROVE  o \in Accounted'
  <2>1. CASE rows[o] > 0
    BY <2>1 DEF Lasting, Accounted
  <2>2. CASE o \in Waiting
    BY <1>1, <2>2 DEF Lasting, Accounted
  <2>3. CASE \E c \in LossesOf[stage] : o \in causes[c]
    BY <1>1, <2>3 DEF Lasting, Accounted
  <2> QED
    BY <2>1, <2>2, <2>3 DEF Accounted
<1> QED
  BY <1>2

LEMMA EntrustedStep ==
  ASSUME Typed, Typed', Entrusted, [Next]_vars
  PROVE  Entrusted'
<1> SUFFICES ASSUME stage \in {"V4", "prototype"}
             PROVE  /\ stage = "prototype" /\ loop' # "idle" => marked' = next'
                    /\ \A o \in 1..(Taken' - 1) :
                         kind[o] = "valid" => o \in Accounted'
  <2>1. stage' = stage /\ kind' = kind
    BY Lasts DEF Lasting
  <2> QED
    BY <2>1 DEF Entrusted
<1>a. N \in Nat
  BY Assumptions
<1>t. /\ next \in 1..(N + 1) /\ marked \in 1..(N + 1)
      /\ committed \in 1..marked
      /\ marked <= next /\ stage' = stage
      /\ next' \in 1..(N + 1) /\ marked' \in 1..(N + 1)
  BY Lasts DEF Typed, TypeOK, Ahead, Lasting
<1>k. queue \in Seq(Records)
  BY DEF Typed, TypeOK
<1>l. Lasting /\ stage \notin {"V5", "V8"}
  BY Lasts
<1> USE DEF input, batch, marks, store
(* Enough: nothing more is taken, and nothing leaves unnoticed. *)
<1>e. ASSUME Taken' <= Taken,
             \A o \in Waiting :
               \/ o \in Waiting' \/ rows'[o] > 0
               \/ \E c \in LossesOf[stage] : o \in causes'[c]
      PROVE  \A o \in 1..(Taken' - 1) : kind[o] = "valid" => o \in Accounted'
  <2>0. Taken \in 1..(N + 1) /\ Taken' \in 1..(N + 1)
    BY <1>t DEF Taken
  <2>1. \A o \in 1..(Taken' - 1) : o \in Records /\ o \in 1..(Taken - 1)
    <3>1. Taken' <= Taken
      BY <1>e
    <3>2. \A s, t \in 1..(N + 1) :
            t <= s => 1..(t - 1) \subseteq Records \cap 1..(s - 1)
      BY <1>a DEF Records
    <3> QED
      BY <2>0, <3>1, <3>2
  <2>2. Accounted \subseteq Accounted'
    BY <1>l, <1>e, StaysAccounted
  <2>3. \A o \in 1..(Taken - 1) : kind[o] = "valid" => o \in Accounted
    BY DEF Entrusted
  <2> QED
    BY <2>1, <2>2, <2>3
(* One more is taken, and accounted for. *)
<1>f. ASSUME Taken = next, Taken' = next + 1, next \in Records,
             Waiting \subseteq Waiting',
             kind[next] = "valid" => next \in Accounted'
      PROVE  \A o \in 1..(Taken' - 1) : kind[o] = "valid" => o \in Accounted'
  <2>1. \A o \in 1..(Taken' - 1) :
          o \in Records /\ (o \in 1..(Taken - 1) \/ o = next)
    BY <1>a, <1>t, <1>f DEF Records
  <2> QED
    BY <1>l, <1>f, <2>1, StaysAccounted DEF Entrusted
<1>1. CASE Enqueue
  <2>1. next \in Records /\ Taken = next /\ Taken' = next + 1 /\ stage = "V4"
    BY <1>1, <1>a, <1>t DEF Enqueue, Records, Taken
  <2>2. CASE queue' = Append(queue, next)
    <3>1. ToSet(queue') = ToSet(queue) \cup {next}
      BY <2>1, <2>2, <1>k, Appended
    <3> QED
      BY <1>1, <1>f, <2>1, <3>1 DEF Enqueue, Waiting, Accounted
  <2>3. CASE Blame("full", {next}) /\ UNCHANGED queue
    <3>1. next \in causes'["full"]
      BY <2>1, <2>3, Blamed DEF Causes
    <3>2. next \in Accounted'
      BY <1>t, <2>1, <3>1, Losses DEF Accounted
    <3> QED
      BY <1>1, <1>f, <2>1, <2>3, <3>2 DEF Enqueue, Waiting
  <2> QED
    BY <1>1, <2>2, <2>3 DEF Enqueue
<1>2. CASE DequeueV4 \/ DequeuePrototype
  <2>1. Head(queue) \in Records
        /\ ToSet(queue) = ToSet(queue') \cup {Head(queue)}
    BY <1>2, Removed DEF DequeueV4, DequeuePrototype
  <2>2. ToSet(buffer') = ToSet(buffer) \cup {Head(queue)}
    BY <1>2, <2>1, Collecting DEF DequeueV4, DequeuePrototype
  <2>3. Taken' = Taken /\ UNCHANGED <<loop, marked, next>>
    BY <1>2, <1>t DEF DequeueV4, DequeuePrototype, Taken
  <2> QED
    BY <1>e, <1>t, <2>1, <2>2, <2>3 DEF Waiting, Entrusted, Taken
<1>3. CASE ReceivePrototype
  <2>1. next \in Records /\ Taken = next /\ Taken' = next + 1
        /\ marked' = next'
    BY <1>3, <1>a, <1>t DEF ReceivePrototype, Records, Taken, Entrusted
  <2>2. CASE kind[next] = "malformed" /\ UNCHANGED queue
    BY <1>3, <1>f, <2>1, <2>2 DEF ReceivePrototype, Waiting
  <2>3. CASE queue' = Append(queue, next)
    <3>1. ToSet(queue') = ToSet(queue) \cup {next}
      BY <2>1, <2>3, <1>k, Appended
    <3> QED
      BY <1>3, <1>f, <2>1, <3>1 DEF ReceivePrototype, Waiting, Accounted
  <2> QED
    BY <1>3, <2>2, <2>3 DEF ReceivePrototype
(* Neither the queue nor the batch nor a position changes. *)
<1>4. CASE /\ UNCHANGED <<next, queue, buffer, marked>>
           /\ loop' = loop \/ loop # "idle"
  <2>1. Waiting' = Waiting /\ Taken' = Taken
    BY <1>4, <1>t DEF Waiting, Taken
  <2> QED
    BY <1>4, <1>e, <1>t, <2>1 DEF Entrusted, Taken
<1>5. CASE \/ SeeDoneV4 \/ EndWorker \/ CloseChannel \/ Tick \/ InsertFails
           \/ Cancel \/ AutoCommit \/ SessionEnds \/ UNCHANGED vars
  <2>1. /\ UNCHANGED <<next, queue, buffer, marked>>
        /\ loop' = loop \/ loop # "idle"
    BY <1>5
    DEF SeeDoneV4, EndWorker, CloseChannel, Tick, InsertFails, Cancel,
        AutoCommit, SessionEnds, vars
  <2> QED
    BY <1>4, <2>1
<1>6. CASE FinishV4
  <2>1. UNCHANGED <<next, queue, buffer, marked>> /\ loop # "idle"
    BY <1>6 DEF FinishV4, Return
  <2> QED
    BY <1>4, <2>1
<1>7. CASE FlushSucceeds
  <2>1. \A o \in ToSet(buffer) : rows'[o] > 0
    <3>1. ToSet(buffer) \subseteq Records
      BY SetOfSeq DEF Typed, TypeOK
    <3> QED
      BY <1>7, <3>1, Inserted DEF FlushSucceeds
  <2>2. UNCHANGED <<next, queue, marked>> /\ (loop' = loop \/ loop # "idle")
    BY <1>7, <1>l DEF FlushSucceeds, AfterFlush, MarkBatch
  <2>3. Taken' <= Taken
    BY <1>t, <2>2 DEF Taken
  <2> QED
    BY <1>e, <2>1, <2>2, <2>3 DEF Waiting, Entrusted
<1>8. CASE DropBatch
  <2>1. PICK c \in LossesOf[stage] : ToSet(buffer) \subseteq causes'[c]
    <3>1. ToSet(buffer) \subseteq Records
      BY SetOfSeq DEF Typed, TypeOK
    <3>2. CASE Storable
      <4>1. ToSet(buffer) \subseteq causes'["gaveUp"]
        BY <1>8, <3>1, <3>2, Blamed DEF DropBatch, Causes
      <4> QED
        BY <4>1, Losses
    <3>3. CASE ~Storable
      <4>1. stage = "prototype"
        BY <3>1, <3>3 DEF Storable, Entrusted
      <4>2. ToSet(buffer) \subseteq causes'["spoilt"]
        BY <1>8, <3>1, <3>3, Blamed DEF DropBatch, Causes
      <4> QED
        BY <4>1, <4>2, Losses
    <3> QED
      BY <3>2, <3>3
  <2>2. UNCHANGED <<next, queue, marked>> /\ (loop' = loop \/ loop # "idle")
    BY <1>8 DEF DropBatch, AfterFlush
  <2>3. Taken' <= Taken
    BY <1>t, <2>2 DEF Taken
  <2> QED
    BY <1>e, <2>1, <2>2, <2>3 DEF Waiting, Entrusted
<1>9. CASE SessionStarts
  <2>1. Waiting' = Waiting /\ marked' = committed /\ next' = committed
    BY <1>9 DEF SessionStarts, Waiting
  <2>2. Taken' <= Taken
    BY <1>9, <1>t, <2>1 DEF Taken, SessionStarts
  <2> QED
    BY <1>e, <2>1, <2>2
<1>10. CASE ProcessEnds
  <2>1. Waiting \subseteq causes'["forgotten"]
    <3>1. Waiting \subseteq Records
      BY SetOfSeq DEF Typed, TypeOK, Waiting
    <3> QED
      BY <1>10, <3>1, Blamed DEF ProcessEnds, Causes, Waiting
  <2>2. stage = "prototype" => loop' = "idle"
    BY <1>10 DEF ProcessEnds
  <2>3. Taken' <= Taken
    BY <1>10, <1>t DEF Taken, ProcessEnds
  <2> QED
    BY <1>e, <2>1, <2>2, <2>3, Losses
<1>11. CASE \/ ReceiveV5 \/ ReceiveV8 \/ FlushBefore \/ SkipUnsupported
            \/ PublishDeadLetter \/ EndClaim \/ FailClaim
  BY <1>11, <1>l
  DEF ReceiveV5, ReceiveV8, FlushBefore, SkipUnsupported, PublishDeadLetter,
      EndClaim, FailClaim
<1> QED
  BY <1>1, <1>2, <1>3, <1>5, <1>6, <1>7, <1>8, <1>9, <1>10, <1>11 DEF Next
-----------------------------------------------------------------------------
(* V5 and V8: a record is stored before it is marked *)

(* While the claim runs, what is not marked is in the batch. *)
Gap ==
  stage \in Consumers =>
    /\ loop # "draining"
    /\ loop \in {"running", "last"} =>
         /\ marked..(next - 1) \subseteq ToSet(buffer)
         /\ marked = next \/ (buffer # <<>> /\ Last(buffer) = next - 1)

Settled ==
  {o \in Records :
     /\ kind[o] = "valid" =>
          rows[o] > 0 \/ (stage = "V5" /\ o \in causes["overtaken"])
     /\ stage = "V8" /\ kind[o] = "malformed" => o \in deadLetters}

StoredFirst == stage \in Consumers => 1..(marked - 1) \subseteq Settled

LEMMA Shorter ==
  ASSUME NEW i \in Nat, NEW j \in Nat, i <= j
  PROVE  1..(i - 1) \subseteq 1..(j - 1)
OBVIOUS

LEMMA StaysSettled ==
  ASSUME Lasting
  PROVE  Settled \subseteq Settled'
BY DEF Lasting, Settled, Causes

LEMMA StoredFirstStep ==
  ASSUME Typed, Typed', Gap, StoredFirst, [Next]_vars
  PROVE  Gap' /\ StoredFirst'
<1> DEFINE Open == loop' \in {"running", "last"}
<1>d. stage \in Consumers => loop' # "draining"
  <2> USE DEF input, batch, marks, store, Consumers
  <2>1. stage \in Consumers => loop' = loop \/ loop' # "draining"
    BY DEF Next, Enqueue, DequeueV4, SeeDoneV4, FinishV4, ReceivePrototype,
           DequeuePrototype, EndWorker, CloseChannel, ReceiveV5, ReceiveV8,
           FlushBefore, SkipUnsupported, PublishDeadLetter, Tick, EndClaim,
           FlushSucceeds, InsertFails, DropBatch, FailClaim, Cancel,
           AutoCommit, SessionEnds, SessionStarts, ProcessEnds, AfterFlush,
           Return, vars
  <2> QED
    BY <2>1 DEF Gap
<1> SUFFICES ASSUME stage \in Consumers
             PROVE  /\ Open => /\ marked'..(next' - 1) \subseteq ToSet(buffer')
                               /\ \/ marked' = next'
                                  \/ /\ buffer' # <<>>
                                     /\ Last(buffer') = next' - 1
                    /\ 1..(marked' - 1) \subseteq Settled'
  <2>1. stage' = stage
    BY Lasts DEF Lasting
  <2> QED
    BY <1>d, <2>1 DEF Gap, StoredFirst
<1>a. N \in Nat
  BY Assumptions
<1>t. /\ next \in 1..(N + 1) /\ marked \in 1..(N + 1)
      /\ committed \in 1..marked
      /\ marked <= next
      /\ ToSet(buffer) \subseteq Records
      /\ \A o \in ToSet(buffer) : kind[o] = "valid" /\ o < next
  BY SetOfSeq DEF Typed, TypeOK, Ahead
<1>l. Lasting /\ stage \notin {"V4", "prototype"} /\ Settled \subseteq Settled'
  BY Lasts, StaysSettled DEF Consumers
<1>s. 1..(marked - 1) \subseteq Settled
  BY DEF StoredFirst
<1>g. loop = "running" /\ buffer = <<>> => marked = next
  BY DEF Gap
<1> USE DEF input, batch, marks, store
(* The position goes back, or stays, and no claim is running. *)
<1>c. ASSUME marked' \in Nat, marked' <= marked
      PROVE  1..(marked' - 1) \subseteq Settled'
  <2>0. marked \in Nat /\ marked' \in Nat /\ marked' <= marked
    BY <1>a, <1>c, <1>t
  <2>1. 1..(marked' - 1) \subseteq 1..(marked - 1)
    BY <2>0, Shorter
  <2> QED
    BY <1>l, <1>s, <2>1
(* Neither the positions nor the batch change while the claim runs. *)
<1>u. CASE /\ UNCHANGED <<next, marked>>
           /\ \/ ~Open
              \/ UNCHANGED buffer /\ loop \in {"running", "last"}
              \/ UNCHANGED <<buffer, loop>>
  <2>1. 1..(marked' - 1) \subseteq Settled'
    BY <1>u, <1>c, <1>t
  <2>2. CASE ~Open
    BY <2>1, <2>2
  <2>3. CASE Open /\ UNCHANGED buffer /\ loop \in {"running", "last"}
    BY <1>u, <2>1, <2>3 DEF Gap
  <2> QED
    BY <1>u, <2>2, <2>3
(* The record that comes is marked with an empty batch. *)
<1>p. CASE /\ next \in Records /\ next' = next + 1 /\ marked' = next + 1
           /\ marked..(next - 1) \subseteq Settled' /\ next \in Settled'
  <2>1. marked'..(next' - 1) = {}
    BY <1>p, <1>t
  <2>2. 1..(marked' - 1) =
          (1..(marked - 1)) \cup (marked..(next - 1)) \cup {next}
    BY <1>p, <1>t
  <2> QED
    BY <1>p, <1>l, <1>s, <2>1, <2>2
(* The record that comes joins the batch. *)
<1>b. CASE /\ loop = "running" /\ attempt = 0 /\ next \in Records
           /\ next' = next + 1 /\ Collect(next) /\ marked' = marked
  <2>1. /\ buffer' # <<>> /\ Last(buffer') = next
        /\ ToSet(buffer') = ToSet(buffer) \cup {next}
    BY <1>b, Collecting
  <2>2. marked..(next - 1) \subseteq ToSet(buffer)
    BY <1>b DEF Gap
  <2>3. marked'..(next' - 1) \subseteq ToSet(buffer')
    BY <1>b, <1>t, <2>1, <2>2
  <2>4. next' - 1 = next
    BY <1>b, <1>t
  <2> QED
    BY <1>b, <1>c, <1>t, <2>1, <2>3, <2>4
<1>1. CASE ReceiveV5
  <2>1. next \in Records
    BY <1>1, <1>a, <1>t DEF ReceiveV5, Records
  <2>2. CASE /\ kind[next] # "valid" /\ marked' = next + 1
             /\ Blame("overtaken", ToSet(buffer))
    <3>1. ToSet(buffer) \subseteq causes'["overtaken"]
      BY <1>t, <2>2, Blamed DEF Causes
    <3>2. stage' = "V5" /\ kind' = kind
      BY <1>1 DEF ReceiveV5
    <3>3. ToSet(buffer) \subseteq Settled' /\ next \in Settled'
      BY <1>t, <2>1, <2>2, <3>1, <3>2 DEF Settled
    <3>4. marked..(next - 1) \subseteq ToSet(buffer)
      BY <1>1 DEF ReceiveV5, Gap
    <3> QED
      BY <1>1, <1>p, <2>1, <2>2, <3>3, <3>4 DEF ReceiveV5
  <2>3. CASE Collect(next) /\ UNCHANGED marked
    BY <1>1, <1>b, <2>1, <2>3 DEF ReceiveV5
  <2> QED
    BY <1>1, <2>2, <2>3 DEF ReceiveV5
<1>2. CASE ReceiveV8
  <2>1. next \in Records
    BY <1>2, <1>a, <1>t DEF ReceiveV8, Records
  <2> QED
    BY <1>2, <1>b, <2>1 DEF ReceiveV8
<1>3. CASE SkipUnsupported
  <2>1. next \in Records /\ marked = next
    BY <1>3, <1>a, <1>t, <1>g DEF SkipUnsupported, Records
  <2>2. next \in Settled'
    BY <1>3, <2>1 DEF SkipUnsupported, Settled
  <2>3. marked..(next - 1) \subseteq Settled'
    BY <1>t, <2>1
  <2> QED
    BY <1>3, <1>p, <2>1, <2>2, <2>3 DEF SkipUnsupported
<1>4. CASE PublishDeadLetter
  <2>1. next \in Records /\ marked = next
    BY <1>4, <1>a, <1>t, <1>g DEF PublishDeadLetter, Records
  <2>2. CASE /\ next' = next + 1 /\ marked' = next + 1
             /\ deadLetters' = deadLetters \cup {next}
    <3>1. next \in Settled'
      BY <1>4, <2>1, <2>2 DEF PublishDeadLetter, Settled
    <3>2. marked..(next - 1) \subseteq Settled'
      BY <1>t, <2>1
    <3> QED
      BY <1>p, <2>1, <2>2, <3>1, <3>2
  <2>3. CASE Return /\ UNCHANGED <<next, marked>>
    BY <1>u, <2>3 DEF Return
  <2> QED
    BY <1>4, <2>2, <2>3 DEF PublishDeadLetter
<1>5. CASE FlushBefore \/ Tick \/ InsertFails
  <2>1. UNCHANGED <<next, marked, buffer, loop>>
    BY <1>5 DEF FlushBefore, Tick, InsertFails
  <2> QED
    BY <1>u, <2>1
<1>6. CASE EndClaim
  BY <1>6, <1>u DEF EndClaim, Return
<1>7. CASE FlushSucceeds
  <2>1. /\ buffer # <<>> /\ Last(buffer) \in ToSet(buffer)
        /\ Last(buffer) \in Records
    BY <1>7, LastIsIn DEF FlushSucceeds, Typed, TypeOK, Batches
  <2>2. Last(buffer) < next /\ Last(buffer) + 1 \in Nat /\ marked \in Nat
        /\ Last(buffer) \in Nat
    BY <1>a, <1>t, <2>1 DEF Records
  <2>3. marked' = IF marked >= Last(buffer) + 1 THEN marked
                                                ELSE Last(buffer) + 1
    BY <1>7, <2>2, MaxOfTwo DEF FlushSucceeds, MarkBatch, Consumers
  <2>4. loop \in {"running", "last"}
    BY <1>7 DEF FlushSucceeds, Typed, TypeOK, Batches, Loops, Gap
  <2>5. marked' = next /\ next' = next
    BY <1>7, <1>t, <2>2, <2>3, <2>4 DEF Gap, FlushSucceeds
  <2>6. marked..(next - 1) \subseteq Settled'
    <3>1. \A o \in ToSet(buffer) : o \in Records /\ rows'[o] > 0
      BY <1>7, <1>t, Inserted DEF FlushSucceeds
    <3>2. \A o \in ToSet(buffer) : o \in Settled'
      BY <1>7, <1>t, <3>1 DEF FlushSucceeds, Settled
    <3> QED
      BY <2>4, <3>2 DEF Gap
  <2>7. /\ marked'..(next' - 1) = {}
        /\ 1..(marked' - 1) = (1..(marked - 1)) \cup (marked..(next - 1))
    BY <1>t, <2>5
  <2> QED
    BY <1>l, <1>s, <2>5, <2>6, <2>7
<1>8. CASE FailClaim
  BY <1>8, <1>u DEF FailClaim, Return
<1>9. CASE Cancel \/ AutoCommit
  <2>1. UNCHANGED <<next, marked, buffer, loop>>
    BY <1>9 DEF Cancel, AutoCommit
  <2> QED
    BY <1>u, <2>1
<1>10. CASE SessionEnds
  BY <1>10, <1>u DEF SessionEnds
<1>11. CASE SessionStarts
  <2>1. marked' = committed /\ next' = committed
    BY <1>11 DEF SessionStarts
  <2>2. marked' \in Nat /\ marked' <= marked /\ marked'..(next' - 1) = {}
    BY <1>t, <2>1
  <2> QED
    BY <1>c, <2>1, <2>2
<1>12. CASE ProcessEnds
  <2>1. marked' = committed /\ ~Open
    BY <1>12 DEF ProcessEnds, Consumers
  <2>2. marked' \in Nat /\ marked' <= marked
    BY <1>t, <2>1
  <2> QED
    BY <1>c, <2>1, <2>2
<1>13. CASE UNCHANGED vars
  BY <1>13, <1>u DEF vars
<1>14. CASE \/ Enqueue \/ DequeueV4 \/ SeeDoneV4 \/ FinishV4
            \/ ReceivePrototype \/ DequeuePrototype \/ EndWorker
            \/ CloseChannel \/ DropBatch
  BY <1>14, <1>l
  DEF Enqueue, DequeueV4, SeeDoneV4, FinishV4, ReceivePrototype,
      DequeuePrototype, EndWorker, CloseChannel, DropBatch
<1> QED
  BY <1>1, <1>2, <1>3, <1>4, <1>5, <1>6, <1>7, <1>8, <1>9, <1>10, <1>11,
     <1>12, <1>13, <1>14 DEF Next
-----------------------------------------------------------------------------
(* No record is stored twice for no reason *)

OnceIn(o, q) == \A i, j \in DOMAIN q : q[i] = o /\ q[j] = o => i = j

LEMMA AppendedOnce ==
  ASSUME NEW S, NEW q \in Seq(S), NEW e \in S, NEW o, OnceIn(o, q),
         o = e => o \notin ToSet(q)
  PROVE  OnceIn(o, Append(q, e))
<1> DEFINE a == Append(q, e)
<1>1. /\ a \in Seq(S)
      /\ Len(a) = Len(q) + 1
      /\ \A i \in 1..Len(q) : a[i] = q[i]
      /\ a[Len(q) + 1] = e
  BY AppendProperties
<1>2. Len(q) \in Nat
  BY LenProperties
<1>3. DOMAIN a = 1..Len(a) /\ DOMAIN q = 1..Len(q)
  BY <1>1, LenProperties
<1>4. o = e => \A i \in 1..Len(q) : q[i] # o
  BY <1>3 DEF ToSet
<1> HIDE DEF a
<1>5. SUFFICES ASSUME NEW i \in 1..Len(a), NEW j \in 1..Len(a),
                      a[i] = o, a[j] = o
               PROVE  i = j
  BY <1>3 DEF OnceIn, a
<1>6. CASE o = e
  <2>1. i = Len(q) + 1 /\ j = Len(q) + 1
    BY <1>1, <1>2, <1>4, <1>5, <1>6
  <2> QED
    BY <2>1
<1>7. CASE o # e
  <2>1. i \in 1..Len(q) /\ j \in 1..Len(q)
    BY <1>1, <1>2, <1>5, <1>7
  <2> QED
    BY <1>1, <1>3, <1>5, <2>1 DEF OnceIn
<1> QED
  BY <1>6, <1>7

LEMMA DequeuedOnce ==
  ASSUME NEW S, NEW q \in Seq(S), q # <<>>, NEW o, OnceIn(o, q)
  PROVE  OnceIn(o, Tail(q)) /\ (o = Head(q) => o \notin ToSet(Tail(q)))
<1> DEFINE r == Tail(q)
<1>1. /\ \A i \in DOMAIN r : i + 1 \in DOMAIN q /\ r[i] = q[i + 1]
      /\ Head(q) = q[1] /\ 1 \in DOMAIN q
      /\ r \in Seq(S)
  BY Dequeued
<1>2. DOMAIN r = 1..Len(r) /\ Len(r) \in Nat
  BY <1>1, LenProperties
<1> HIDE DEF r
<1>3. ASSUME NEW i \in DOMAIN r, NEW j \in DOMAIN r, r[i] = o, r[j] = o
      PROVE  i = j
  <2>1. i + 1 = j + 1
    BY <1>1, <1>3 DEF OnceIn
  <2> QED
    BY <1>2, <2>1
<1>4. ASSUME o = Head(q), NEW i \in DOMAIN r
      PROVE  r[i] # o
  <2>1. i + 1 # 1
    BY <1>2
  <2> QED
    BY <1>1, <1>4, <2>1 DEF OnceIn
<1>5. o = Head(q) => o \notin ToSet(r)
  BY <1>1, <1>2, <1>4 DEF ToSet
<1> QED
  BY <1>3, <1>5 DEF OnceIn, r

(* No lost answer and no redelivery has to do with these. *)
Fresh == Records \ (unanswered \cup redelivered)

(* On the way once, and not stored yet, or stored once. *)
Single ==
  {o \in Records :
     /\ o >= next => rows[o] = 0 /\ o \notin Waiting
     /\ o \in Waiting => rows[o] = 0
     /\ o \in ToSet(queue) => o \notin ToSet(buffer)
     /\ OnceIn(o, queue)
     /\ rows[o] <= 1}

Once ==
  /\ Fresh \subseteq Single
  /\ stage = "V8" => \A o \in Records : rows[o] <= 1

LEMMA OnceStep ==
  ASSUME Typed, Typed', Once, [Next]_vars
  PROVE  Once'
<1>a. N \in Nat
  BY Assumptions
<1>t. /\ next \in 1..(N + 1) /\ marked \in 1..(N + 1)
      /\ committed \in 1..marked
      /\ marked <= next
      /\ queue \in Seq(Records) /\ buffer \in Seq(Records)
      /\ ToSet(queue) \subseteq Records /\ ToSet(buffer) \subseteq Records
      /\ \A p \in Records : rows[p] \in Nat
  BY SetOfSeq DEF Typed, TypeOK, Ahead
<1>l. Lasting
  BY Lasts
<1> USE DEF input, batch, marks, store
<1>v. stage' = "V8" => \A p \in Records : rows'[p] <= 1
  <2>1. Insert \/ UNCHANGED rows
    BY DEF Next, Enqueue, DequeueV4, SeeDoneV4, FinishV4, ReceivePrototype,
           DequeuePrototype, EndWorker, CloseChannel, ReceiveV5, ReceiveV8,
           FlushBefore, SkipUnsupported, PublishDeadLetter, Tick, EndClaim,
           FlushSucceeds, InsertFails, DropBatch, FailClaim, CallFails, Cancel,
           AutoCommit, SessionEnds, SessionStarts, ProcessEnds, vars
  <2>2. CASE Insert
    BY <1>l, <1>t, <2>2, Inserted DEF Once, Lasting
  <2>3. CASE UNCHANGED rows
    BY <1>l, <2>3 DEF Once, Lasting
  <2> QED
    BY <2>1, <2>2, <2>3
<1> SUFFICES ASSUME NEW o \in Fresh'
             PROVE  o \in Single'
  BY <1>v DEF Once
<1>f. /\ o \in Records /\ o \notin unanswered' /\ o \notin redelivered'
      /\ o \in Single
  BY <1>l DEF Lasting, Fresh, Once
<1>s. /\ o >= next => rows[o] = 0 /\ o \notin Waiting
      /\ o \in Waiting => rows[o] = 0
      /\ o \in ToSet(queue) => o \notin ToSet(buffer)
      /\ OnceIn(o, queue)
      /\ rows[o] <= 1
  BY <1>f DEF Single
(* No record comes, and none is stored. *)
<1>q. CASE /\ UNCHANGED <<queue, rows>>
           /\ UNCHANGED buffer \/ buffer' = <<>>
           /\ o >= next' => o >= next
  <2>1. ToSet(buffer') \subseteq ToSet(buffer)
    BY <1>q, NothingInEmpty
  <2> QED
    BY <1>f, <1>q, <1>s, <2>1 DEF Single, Waiting
(* The next record joins the queue. *)
<1>e. CASE /\ next \in Records /\ next' = next + 1
           /\ queue' = Append(queue, next) /\ UNCHANGED <<buffer, rows>>
  <2>1. ToSet(queue') = ToSet(queue) \cup {next}
    BY <1>e, <1>t, Appended
  <2>2. OnceIn(o, queue')
    <3>1. o = next => o \notin ToSet(queue)
      BY <1>s, <1>f DEF Waiting, Records
    <3> QED
      BY <1>e, <1>s, <1>t, <3>1, AppendedOnce
  <2>3. o >= next' => o >= next /\ o # next
    BY <1>e, <1>f, <1>t DEF Records
  <2>4. o = next => rows[o] = 0 /\ o \notin Waiting
    BY <1>s, <1>f DEF Records
  <2> QED
    BY <1>e, <1>f, <1>s, <2>1, <2>2, <2>3, <2>4 DEF Single, Waiting
(* The next record joins the batch. *)
<1>b. CASE /\ next \in Records /\ next' = next + 1 /\ attempt = 0
           /\ Collect(next) /\ UNCHANGED <<queue, rows>>
  <2>1. ToSet(buffer') = ToSet(buffer) \cup {next}
    BY <1>b, Collecting
  <2>2. o >= next' => o >= next /\ o # next
    BY <1>b, <1>f, <1>t DEF Records
  <2>3. o = next => rows[o] = 0 /\ o \notin Waiting
    BY <1>s, <1>f DEF Records
  <2> QED
    BY <1>b, <1>f, <1>s, <2>1, <2>2, <2>3 DEF Single, Waiting
<1>1. CASE Enqueue
  <2>1. next \in Records
    BY <1>1, <1>a, <1>t DEF Enqueue, Records
  <2>2. o >= next' => o >= next
    BY <1>1, <1>f, <1>t DEF Enqueue, Records
  <2>3. CASE queue' = Append(queue, next)
    BY <1>1, <1>e, <2>1, <2>3 DEF Enqueue
  <2>4. CASE UNCHANGED queue
    BY <1>1, <1>q, <2>2, <2>4 DEF Enqueue
  <2> QED
    BY <1>1, <2>3, <2>4 DEF Enqueue
<1>2. CASE DequeueV4 \/ DequeuePrototype
  <2>1. /\ attempt = 0 /\ queue # <<>> /\ queue' = Tail(queue)
        /\ Collect(Head(queue)) /\ UNCHANGED <<next, rows>>
    BY <1>2 DEF DequeueV4, DequeuePrototype
  <2>2. Head(queue) \in Records
        /\ ToSet(queue) = ToSet(queue') \cup {Head(queue)}
    BY <2>1, Removed
  <2>3. ToSet(buffer') = ToSet(buffer) \cup {Head(queue)}
    BY <2>1, <2>2, Collecting
  <2>4. OnceIn(o, queue') /\ (o = Head(queue) => o \notin ToSet(queue'))
    BY <1>s, <1>t, <2>1, DequeuedOnce
  <2> QED
    BY <1>f, <1>s, <2>1, <2>2, <2>3, <2>4 DEF Single, Waiting
<1>3. CASE ReceivePrototype
  <2>1. next \in Records
    BY <1>3, <1>a, <1>t DEF ReceivePrototype, Records
  <2>2. o >= next' => o >= next
    BY <1>3, <1>f, <1>t DEF ReceivePrototype, Records
  <2>3. CASE queue' = Append(queue, next)
    BY <1>3, <1>e, <2>1, <2>3 DEF ReceivePrototype
  <2>4. CASE UNCHANGED queue
    BY <1>3, <1>q, <2>2, <2>4 DEF ReceivePrototype
  <2> QED
    BY <1>3, <2>3, <2>4 DEF ReceivePrototype
<1>4. CASE ReceiveV5 \/ ReceiveV8
  <2>1. next \in Records
    BY <1>4, <1>a, <1>t DEF ReceiveV5, ReceiveV8, Records
  <2>2. o >= next' => o >= next
    BY <1>4, <1>f, <1>t DEF ReceiveV5, ReceiveV8, Records
  <2>3. CASE Collect(next)
    BY <1>4, <1>b, <2>1, <2>3 DEF ReceiveV5, ReceiveV8
  <2>4. CASE UNCHANGED buffer
    BY <1>4, <1>q, <2>2, <2>4 DEF ReceiveV5, ReceiveV8
  <2> QED
    BY <1>4, <2>3, <2>4 DEF ReceiveV5, ReceiveV8
<1>5. CASE SkipUnsupported \/ PublishDeadLetter
  <2>1. UNCHANGED <<queue, rows>> /\ (UNCHANGED buffer \/ buffer' = <<>>)
        /\ (next' = next + 1 \/ next' = next)
    BY <1>5 DEF SkipUnsupported, PublishDeadLetter, Return
  <2>2. o >= next' => o >= next
    BY <1>f, <1>t, <2>1 DEF Records
  <2> QED
    BY <1>q, <2>1, <2>2
<1>6. CASE \/ SeeDoneV4 \/ FinishV4 \/ EndWorker \/ CloseChannel
           \/ FlushBefore \/ Tick \/ EndClaim \/ Cancel \/ AutoCommit
           \/ SessionEnds \/ UNCHANGED vars
  <2>1. UNCHANGED <<queue, rows, next>> /\ (UNCHANGED buffer \/ buffer' = <<>>)
    BY <1>6
    DEF SeeDoneV4, FinishV4, EndWorker, CloseChannel, FlushBefore, Tick,
        EndClaim, Cancel, AutoCommit, SessionEnds, Return, vars
  <2> QED
    BY <1>q, <2>1
<1>7. CASE FlushSucceeds
  <2>1. buffer' = <<>> /\ Insert /\ UNCHANGED <<queue, next>>
    BY <1>7 DEF FlushSucceeds, AfterFlush
  <2>2. ToSet(buffer') = {}
    BY <2>1, NothingInEmpty
  <2>3. CASE o \notin ToSet(buffer)
    <3>1. rows'[o] = rows[o]
      BY <1>f, <2>1, <2>3, Inserted
    <3> QED
      BY <1>f, <1>s, <2>1, <2>2, <3>1 DEF Single, Waiting
  <2>4. CASE o \in ToSet(buffer)
    <3>1. rows'[o] <= 1
      BY <1>f, <1>s, <2>1, <2>4, Inserted DEF Waiting
    <3>2. o \notin ToSet(queue') /\ ~(o >= next')
      BY <1>s, <2>1, <2>4 DEF Waiting
    <3> QED
      BY <1>f, <1>s, <2>1, <2>2, <3>1, <3>2 DEF Single, Waiting
  <2> QED
    BY <2>3, <2>4
<1>8. CASE InsertFails \/ DropBatch \/ FailClaim
  <2>1. CallFails /\ UNCHANGED <<queue, next>>
        /\ (UNCHANGED buffer \/ buffer' = <<>>)
    BY <1>8 DEF InsertFails, DropBatch, FailClaim, AfterFlush, Return
  <2>2. CASE UNCHANGED rows
    BY <1>q, <2>1, <2>2
  <2>3. CASE Insert /\ unanswered' = unanswered \cup ToSet(buffer)
    <3>1. o \notin ToSet(buffer)
      BY <1>f, <2>3
    <3>2. rows'[o] = rows[o]
      BY <1>f, <2>3, <3>1, Inserted
    <3>3. ToSet(buffer') \subseteq ToSet(buffer)
      BY <2>1, NothingInEmpty
    <3> QED
      BY <1>f, <1>s, <2>1, <3>2, <3>3 DEF Single, Waiting
  <2> QED
    BY <2>1, <2>2, <2>3 DEF CallFails
<1>9. CASE SessionStarts
  <2>1. /\ UNCHANGED <<queue, rows, buffer>> /\ next' = committed
        /\ redelivered' = redelivered \cup committed..(next - 1)
    BY <1>9 DEF SessionStarts
  <2>2. o >= next' => o >= next
    BY <1>a, <1>f, <1>t, <2>1 DEF Records
  <2> QED
    BY <1>q, <2>1, <2>2
<1>10. CASE ProcessEnds
  <2>1. queue' = <<>> /\ buffer' = <<>> /\ UNCHANGED <<rows, next>>
    BY <1>10 DEF ProcessEnds
  <2>2. ToSet(queue') = {} /\ ToSet(buffer') = {} /\ OnceIn(o, queue')
    BY <2>1, NothingInEmpty DEF OnceIn
  <2> QED
    BY <1>f, <1>s, <2>1, <2>2 DEF Single, Waiting
<1> QED
  BY <1>1, <1>2, <1>3, <1>4, <1>5, <1>6, <1>7, <1>8, <1>9, <1>10 DEF Next
-----------------------------------------------------------------------------
(* The inductive invariant *)

IInv ==
  /\ Typed
  /\ Entrusted
  /\ Gap
  /\ StoredFirst
  /\ Once

LEMMA InitIInv == Init => IInv
<1> SUFFICES ASSUME Init PROVE IInv
  OBVIOUS
<1>1. Typed
  BY InitTyped
<1>2. /\ next = 1 /\ marked = 1 /\ loop = "running"
      /\ queue = <<>> /\ buffer = <<>>
      /\ \A o \in Records : rows[o] = 0
  BY DEF Init
<1>3. Waiting = {} /\ ToSet(buffer) = {} /\ ToSet(queue) = {}
  BY <1>2, NothingInEmpty DEF Waiting
<1>4. 1..(next - 1) = {} /\ 1..(marked - 1) = {} /\ marked..(next - 1) = {}
  BY <1>2
<1>5. Entrusted
  BY <1>2, <1>4 DEF Init, Entrusted, Taken
<1>6. Gap /\ StoredFirst
  BY <1>2, <1>4 DEF Gap, StoredFirst
<1>7. \A o \in Records : OnceIn(o, queue)
  BY <1>2 DEF OnceIn
<1>8. Once
  BY <1>2, <1>3, <1>7 DEF Once, Fresh, Single
<1> QED
  BY <1>1, <1>5, <1>6, <1>8 DEF IInv

LEMMA IInvStep == IInv /\ [Next]_vars => IInv'
<1> SUFFICES ASSUME IInv, [Next]_vars PROVE IInv'
  OBVIOUS
<1>1. Typed'
  BY TypedStep DEF IInv
<1>2. Entrusted'
  BY <1>1, EntrustedStep DEF IInv
<1>3. Gap' /\ StoredFirst'
  BY <1>1, StoredFirstStep DEF IInv
<1>4. Once'
  BY <1>1, OnceStep DEF IInv
<1> QED
  BY <1>1, <1>2, <1>3, <1>4 DEF IInv

LEMMA Invariance == Spec => []IInv
BY InitIInv, IInvStep, PTL DEF Spec

LEMMA Explains == IInv => HistoryIsExplained
<1> SUFFICES ASSUME IInv PROVE HistoryIsExplained
  OBVIOUS
<1>a. N \in Nat
  BY Assumptions
<1>t. /\ next \in 1..(N + 1) /\ marked \in 1..(N + 1)
      /\ committed \in 1..marked
      /\ \A o \in Records : rows[o] \in Nat
      /\ stage \in AllStages
  BY Assumptions DEF IInv, Typed, TypeOK
<1>c. \A o \in Records : o < committed => o \in 1..(marked - 1)
  BY <1>a, <1>t DEF Records
<1>s. ASSUME stage \in Consumers, NEW o \in Records, o < committed
      PROVE  o \in Settled
  BY <1>c, <1>s DEF IInv, StoredFirst
<1>1. NoOtherLoss
  <2> SUFFICES ASSUME NEW o \in Records, Lost(o)
               PROVE  \E c \in LossesOf[stage] : o \in causes[c]
    BY DEF NoOtherLoss
  <2>1. CASE stage \in Consumers
    <3>1. o < committed /\ kind[o] = "valid" /\ ~(rows[o] > 0)
      BY <1>t, <2>1 DEF Lost, Consumers
    <3>2. stage = "V5" /\ o \in causes["overtaken"]
      BY <1>s, <2>1, <3>1 DEF Settled
    <3> QED
      BY <3>2, Losses
  <2>2. CASE stage \in {"V4", "prototype"}
    <3>1. o \in 1..(Taken - 1)
      BY <1>a, <1>c, <1>t, <2>2 DEF Lost, Taken, Records
    <3>2. kind[o] = "valid" /\ ~(rows[o] > 0) /\ o \notin Waiting
      BY <1>t DEF Lost, Waiting
    <3>3. o \in Accounted
      BY <2>2, <3>1, <3>2 DEF IInv, Entrusted
    <3> QED
      BY <3>2, <3>3 DEF Accounted
  <2> QED
    BY <1>t, <2>1, <2>2 DEF AllStages, Consumers
<1>2. NoOtherDuplicate
  <2> SUFFICES ASSUME NEW o \in Records, rows[o] > 1
               PROVE  stage # "V8" /\ o \in unanswered \cup redelivered
    BY DEF NoOtherDuplicate
  <2>1. ~(rows[o] <= 1)
    BY <1>t
  <2> QED
    BY <2>1 DEF IInv, Once, Fresh, Single
<1>3. NothingElseSkipped
  <2> SUFFICES ASSUME NEW o \in 1..(committed - 1),
                      stage = "V8", kind[o] = "malformed"
               PROVE  o \in deadLetters
    BY DEF NothingElseSkipped
  <2>1. o \in Records /\ o < committed
    BY <1>a, <1>t DEF Records
  <2> QED
    BY <1>s, <2>1 DEF Settled, Consumers
<1> QED
  BY <1>1, <1>2, <1>3 DEF HistoryIsExplained

(***************************************************************************)
(* The types and bounds of every stage: the batch never outgrows its size, *)
(* a flush never exceeds its attempts, and the committed offset never      *)
(* passes the marked one.                                                  *)
(***************************************************************************)
THEOREM TypeCorrect == Spec => []TypeOK
<1>1. IInv => TypeOK
  BY DEF IInv, Typed
<1> QED
  BY <1>1, Invariance, PTL

(***************************************************************************)
(* Each stage loses only what the course says it loses, stores a row twice *)
(* only after a lost answer or a redelivery, and V8 neither loses, doubles *)
(* nor forgets to keep a malformed record.                                 *)
(***************************************************************************)
THEOREM HistoryExplained == Spec => []HistoryIsExplained
BY Explains, Invariance, PTL

(***************************************************************************)
(* What HistoryStagesV5 shows V5 to break, V8 keeps: what the group has    *)
(* committed is in the database, because what is pending is flushed before *)
(* a skipped record is marked (Handler.ConsumeClaim of V8).                *)
(***************************************************************************)
THEOREM V8StoresFirst == Spec => [](stage = "V8" => CommittedIsStored)
<1>1. IInv => (stage = "V8" => CommittedIsStored)
  <2> SUFFICES ASSUME IInv, stage = "V8", NEW o \in 1..(committed - 1),
                      kind[o] = "valid"
               PROVE  rows[o] > 0
    BY DEF CommittedIsStored
  <2>1. /\ committed \in 1..marked /\ marked \in 1..(N + 1) /\ N \in Nat
    BY Assumptions DEF IInv, Typed, TypeOK
  <2>2. o \in 1..(marked - 1)
    BY <2>1
  <2> QED
    BY <2>2 DEF IInv, StoredFirst, Settled, Consumers
<1> QED
  BY <1>1, Invariance, PTL
-----------------------------------------------------------------------------
(* V8 as a durable log *)

Log == INSTANCE DurableLog WITH safe <- Settled, position <- committed

LEMMA LogStep ==
  ASSUME IInv, IInv', [Next]_vars, stage = "V8"
  PROVE  [Log!Next]_Log!vars
<1>1. Settled \subseteq Settled' /\ Settled' \in SUBSET Log!Offsets
  BY Lasts, StaysSettled DEF IInv, Settled, Log!Offsets, Records
<1>2. CASE UNCHANGED committed
  BY <1>1, <1>2 DEF Log!Next, Log!MakeSafe
<1>3. CASE AutoCommit \/ SessionEnds
  <2>1. committed' = marked /\ Settled' = Settled
    BY <1>3 DEF AutoCommit, SessionEnds, Settled, input, store
  <2>2. committed \in 1..marked /\ marked \in 1..(N + 1) /\ N \in Nat
    BY Assumptions DEF IInv, Typed, TypeOK
  <2>3. 1..(marked - 1) \subseteq Settled
    BY DEF IInv, StoredFirst, Consumers
  <2>4. CASE committed = marked
    BY <1>2, <2>1, <2>4
  <2>5. CASE committed # marked
    <3>1. committed' \in (committed + 1)..(N + 1)
      BY <2>1, <2>2, <2>5
    <3> QED
      BY <2>1, <2>3, <3>1 DEF Log!Next, Log!Advance
  <2> QED
    BY <2>4, <2>5
<1>4. UNCHANGED committed \/ AutoCommit \/ SessionEnds
  BY DEF Next, Enqueue, DequeueV4, SeeDoneV4, FinishV4, ReceivePrototype,
         DequeuePrototype, EndWorker, CloseChannel, ReceiveV5, ReceiveV8,
         FlushBefore, SkipUnsupported, PublishDeadLetter, Tick, EndClaim,
         FlushSucceeds, InsertFails, DropBatch, FailClaim, Cancel,
         SessionStarts, ProcessEnds, vars, marks
<1> QED
  BY <1>2, <1>3, <1>4

(***************************************************************************)
(* V8 already is the durable log that PartitionConsumer implements for the *)
(* last stage: whatever crashes, retries and rebalances do, a record once  *)
(* settled stays so, and the group commits only over settled records.      *)
(***************************************************************************)
THEOREM V8RefinesDurableLog == Spec /\ stage = "V8" => Log!Spec
<1>1. Init => Log!Init
  BY DEF Init, Log!Init, Log!Offsets, Settled, Records
<1>2. IInv /\ [Next]_vars /\ stage = "V8" => (stage = "V8")'
  BY Lasts DEF IInv, Lasting
<1>3. IInv /\ IInv' /\ [Next]_vars /\ stage = "V8" => [Log!Next]_Log!vars
  BY LogStep
<1> QED
  BY <1>1, <1>2, <1>3, Invariance, PTL DEF Spec, Log!Spec
=============================================================================
