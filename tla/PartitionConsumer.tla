-------------------------- MODULE PartitionConsumer --------------------------
(***************************************************************************)
(* The V10 history consumer on one Kafka partition: ConsumeClaim and the   *)
(* functions it calls (src/v10/internal/consumer/handler.go), the MySQL    *)
(* table behind CreateIdempotent, the dead letter topic, and the consumer  *)
(* group that gives the partition to one member at a time.                 *)
(*                                                                         *)
(* Several members run the same handler.  A member can be cancelled by a   *)
(* rebalance, evicted by the broker without noticing (it then runs on as   *)
(* a zombie next to its successor) and can crash between any two steps.    *)
(* A call to MySQL or to the dead letter topic can fail, and can fail      *)
(* after having taken effect.                                              *)
(*                                                                         *)
(* A batch is the set of the offsets in it: records are received in offset *)
(* order, so the set determines the slice.  The length of a wait and the   *)
(* metrics are left out; that a wait can end, and how, is kept.            *)
(***************************************************************************)
EXTENDS Naturals, FiniteSets

CONSTANTS
  Members,              \* consumer processes in the group
  NoMember,             \* the partition is assigned to nobody
  N,                    \* the partition holds the offsets 1..N
  MessageID,            \* values of message_id
  BatchSize,            \* Config.BatchSize
  MaxRetries,           \* Config.MaxRetries
  MaxFaults             \* bound on rebalances, evictions and crashes

ASSUME Assumptions ==
  /\ NoMember \notin Members
  /\ N \in Nat
  /\ BatchSize \in Nat \ {0}
  /\ MaxRetries \in Nat \ {0}
  /\ MaxFaults \in Nat

Offsets == 1..N

NoRow == 0              \* MySQL holds no row for a message_id

(* parseMessage sorts records into three kinds; only the message_id of a   *)
(* valid one is ever looked at.                                            *)
Record == [kind : {"valid"}, id : MessageID]
            \cup [kind : {"unsupported", "poison"}]

VARIABLES
  (* Kafka *)
  topic,                \* the records of the partition, written before
  committed,            \* the group's committed position
  holder,               \* the member the broker has the partition assigned to
  dlq,                  \* source offsets acknowledged by the dead letter topic
  (* MySQL: the offset each message_id's row was written from *)
  table,
  (* one ConsumeClaim per member *)
  pc,                   \* where it is
  cancelled,            \* session.Context() is done
  cursor,               \* the next offset claim.Messages() delivers
  pending,              \* the batch
  marked,               \* the session's position, set by MarkMessage
  attempt,              \* flushPending's loop variable
  reason,               \* which of its callers flushPending returns to
  faults                \* faults so far

kafka   == <<topic, committed, holder, dlq>>
claim   == <<pc, cancelled, cursor, pending, marked, attempt, reason>>
vars    == <<kafka, table, claim, faults>>

(***************************************************************************)
(* Control points of ConsumeClaim.  "insert" and "reply" are the two       *)
(* halves of CreateIdempotent; "backoff" is the wait in flushPending,      *)
(* "paused" the wait in flushWithRecovery, "left" the return.              *)
(***************************************************************************)
Flushing == {"insert", "reply", "backoff", "paused"}
Control  == {"idle", "select", "deadletter", "left"} \cup Flushing

(* A full batch and a tick both clear the batch and go on. *)
Reasons  == {"batch", "before_record", "claim_ends"}

Running(m) == pc[m] # "idle"

TypeOK ==
  /\ topic \in [Offsets -> Record]
  /\ committed \in 1..(N + 1)
  /\ holder \in Members \cup {NoMember}
  /\ dlq \subseteq Offsets
  /\ table \in [MessageID -> Offsets \cup {NoRow}]
  /\ pc \in [Members -> Control]
  /\ cancelled \in [Members -> BOOLEAN]
  /\ cursor \in [Members -> 1..(N + 1)]
  /\ pending \in [Members -> SUBSET Offsets]
  /\ marked \in [Members -> 1..(N + 1)]
  /\ attempt \in [Members -> 1..MaxRetries]
  /\ reason \in [Members -> Reasons]
  /\ faults \in 0..MaxFaults

Init ==
  /\ topic \in [Offsets -> Record]
  /\ committed = 1
  /\ holder = NoMember
  /\ dlq = {}
  /\ table = [id \in MessageID |-> NoRow]
  /\ pc = [m \in Members |-> "idle"]
  /\ cancelled = [m \in Members |-> FALSE]
  /\ cursor = [m \in Members |-> 1]
  /\ pending = [m \in Members |-> {}]
  /\ marked = [m \in Members |-> 1]
  /\ attempt = [m \in Members |-> 1]
  /\ reason = [m \in Members |-> "batch"]
  /\ faults = 0

-----------------------------------------------------------------------------
(* Operators the handlers share *)

(* Variant: the last record of a message_id wins. *)
UniqueBatchKeepsLast(batch) ==
  {i \in batch : \A j \in batch : topic[j].id = topic[i].id => j <= i}

(* uniqueBatch: the first record of each message_id in the batch. *)
UniqueBatch(batch) ==
  {i \in batch : \A j \in batch : topic[j].id = topic[i].id => i <= j}

(* INSERT ... ON CONFLICT (message_id) DO NOTHING of the batch. *)
CreateIdempotent(batch) ==
  [id \in MessageID |->
     IF table[id] = NoRow /\ \E i \in batch : topic[i].id = id
     THEN CHOOSE i \in batch : topic[i].id = id
     ELSE table[id]]

(* The session's position once every record of a batch has been marked:    *)
(* MarkMessage never moves it back.                                        *)
MarkAll(m, batch) ==
  CHOOSE p \in {marked[m]} \cup {i + 1 : i \in batch} :
    \A q \in {marked[m]} \cup {i + 1 : i \in batch} : q <= p

(* The record ConsumeClaim received last. *)
Current(m) == cursor[m] - 1

(* A flush entered from ConsumeClaim: attempt 1 of CreateIdempotent. *)
StartFlush(m, batch, why) ==
  /\ pending' = [pending EXCEPT ![m] = batch]
  /\ attempt' = [attempt EXCEPT ![m] = 1]
  /\ reason' = [reason EXCEPT ![m] = why]
  /\ pc' = [pc EXCEPT ![m] = "insert"]

(* The locals of a flush, or of a whole claim, are gone. *)
EndFlush(m) ==
  /\ pending' = [pending EXCEPT ![m] = {}]
  /\ attempt' = [attempt EXCEPT ![m] = 1]
  /\ reason' = [reason EXCEPT ![m] = "batch"]

Forget(m) ==
  /\ EndFlush(m)
  /\ pc' = [pc EXCEPT ![m] = "idle"]
  /\ cancelled' = [cancelled EXCEPT ![m] = FALSE]
  /\ cursor' = [cursor EXCEPT ![m] = 1]
  /\ marked' = [marked EXCEPT ![m] = 1]

(* ConsumeClaim returns; sarama cancels the session of a claim that ends. *)
Return(m) ==
  /\ pc' = [pc EXCEPT ![m] = "left"]
  /\ cancelled' = [cancelled EXCEPT ![m] = TRUE]

(* The switch on parseMessage's error, reached with an empty batch, for    *)
(* the record at offset i; p is the session's position at that moment.     *)
(* KafkaDeadLetterPublisher.Publish gives up at once on a done context.    *)
HandleRejected(m, i, p) ==
  \/ /\ topic[i].kind = "unsupported"
     /\ marked' = [marked EXCEPT ![m] = IF i + 1 > p THEN i + 1 ELSE p]
     /\ pc' = [pc EXCEPT ![m] = "select"]
     /\ UNCHANGED cancelled
  \/ /\ topic[i].kind = "poison"
     /\ marked' = [marked EXCEPT ![m] = p]
     /\ IF cancelled[m]
          THEN Return(m)
          ELSE /\ pc' = [pc EXCEPT ![m] = "deadletter"]
               /\ UNCHANGED cancelled
-----------------------------------------------------------------------------
(* The select of ConsumeClaim.  Go picks any ready case, so a cancelled    *)
(* session may still receive a buffered record or a tick first.            *)

ReceiveValid(m) ==
  /\ pc[m] = "select"
  /\ cursor[m] <= N
  /\ topic[cursor[m]].kind = "valid"
  /\ cursor' = [cursor EXCEPT ![m] = @ + 1]
  /\ LET batch == pending[m] \cup {cursor[m]} IN
       IF Cardinality(batch) >= BatchSize
       THEN StartFlush(m, batch, "batch")
       ELSE /\ pending' = [pending EXCEPT ![m] = batch]
            /\ UNCHANGED <<pc, attempt, reason>>
  /\ UNCHANGED <<kafka, table, cancelled, marked, faults>>

(* Variant: a rejected record is marked with earlier ones still in memory. *)
ReceiveRejectedUnflushed(m) ==
  /\ pc[m] = "select"
  /\ cursor[m] <= N
  /\ topic[cursor[m]].kind # "valid"
  /\ cursor' = [cursor EXCEPT ![m] = @ + 1]
  /\ HandleRejected(m, cursor[m], marked[m])
  /\ UNCHANGED <<kafka, table, pending, attempt, reason, faults>>

(* Offsets are contiguous: earlier valid records are stored before a later *)
(* rejected one is marked.                                                 *)
ReceiveRejected(m) ==
  /\ pc[m] = "select"
  /\ cursor[m] <= N
  /\ topic[cursor[m]].kind # "valid"
  /\ cursor' = [cursor EXCEPT ![m] = @ + 1]
  /\ IF pending[m] # {}
       THEN /\ StartFlush(m, pending[m], "before_record")
            /\ UNCHANGED <<cancelled, marked>>
       ELSE /\ HandleRejected(m, cursor[m], marked[m])
            /\ UNCHANGED <<pending, attempt, reason>>
  /\ UNCHANGED <<kafka, table, faults>>

Tick(m) ==
  /\ pc[m] = "select"
  /\ pending[m] # {}
  /\ StartFlush(m, pending[m], "batch")
  /\ UNCHANGED <<kafka, table, cancelled, cursor, marked, faults>>

(* session.Context().Done(), or Messages() closed, which sarama does when  *)
(* that same context is done: flushBeforeClaimEnds.                        *)
ClaimEnds(m) ==
  /\ pc[m] = "select"
  /\ cancelled[m]
  /\ IF pending[m] # {}
       THEN StartFlush(m, pending[m], "claim_ends")
       ELSE /\ pc' = [pc EXCEPT ![m] = "left"]
            /\ UNCHANGED <<pending, attempt, reason>>
  /\ UNCHANGED <<kafka, table, cancelled, cursor, marked, faults>>
-----------------------------------------------------------------------------
(* flushPending *)

(* MySQL commits the batch; the answer is still on its way. *)
Insert(m) ==
  /\ pc[m] = "insert"
  /\ table' = CreateIdempotent(UniqueBatch(pending[m]))
  /\ pc' = [pc EXCEPT ![m] = "reply"]
  /\ UNCHANGED <<kafka, cancelled, cursor, pending, marked, attempt, reason,
                 faults>>

(* The answer arrives: every record of the batch is marked and the caller  *)
(* of flushPending goes on.                                                *)
InsertSucceeds(m) ==
  /\ pc[m] = "reply"
  /\ EndFlush(m)
  /\ CASE reason[m] = "batch" ->
            /\ marked' = [marked EXCEPT ![m] = MarkAll(m, pending[m])]
            /\ pc' = [pc EXCEPT ![m] = "select"]
            /\ UNCHANGED cancelled
       [] reason[m] = "before_record" ->
            HandleRejected(m, Current(m), MarkAll(m, pending[m]))
       [] reason[m] = "claim_ends" ->
            /\ marked' = [marked EXCEPT ![m] = MarkAll(m, pending[m])]
            /\ Return(m)
  /\ UNCHANGED <<kafka, table, cursor, faults>>

(* Variant: a batch is dropped once its retries are exhausted. *)
InsertFailsDropping(m) ==
  /\ pc[m] \in {"insert", "reply"}
  /\ IF attempt[m] = MaxRetries
       THEN EndFlush(m) /\ pc' = [pc EXCEPT ![m] = "select"]
       ELSE /\ pc' = [pc EXCEPT ![m] = "backoff"]
            /\ UNCHANGED <<pending, attempt, reason>>
  /\ UNCHANGED <<kafka, table, cancelled, cursor, marked, faults>>

(* Variant: flushPending does not stop after the last attempt. *)
InsertFailsUnbounded(m) ==
  /\ pc[m] \in {"insert", "reply"}
  /\ pc' = [pc EXCEPT ![m] = "backoff"]
  /\ UNCHANGED <<kafka, table, cancelled, cursor, pending, marked, attempt,
                 reason, faults>>

(* Variant: flushWithRecovery runs on a context nobody cancels. *)
InsertFailsUncancelled(m) ==
  /\ pc[m] \in {"insert", "reply"}
  /\ LET exhausted == attempt[m] = MaxRetries IN
       IF reason[m] = "claim_ends" /\ exhausted
       THEN Return(m)
       ELSE /\ pc' = [pc EXCEPT ![m] =
                        IF exhausted THEN "paused" ELSE "backoff"]
            /\ UNCHANGED cancelled
  /\ UNCHANGED <<kafka, table, cursor, pending, marked, attempt, reason,
                 faults>>

(* CreateIdempotent reports an error: at "insert" nothing was written, at  *)
(* "reply" the batch was written and the answer lost, or its row count was *)
(* rejected.  A wait is not entered on a context that is already done; the *)
(* last flush of a claim runs on a context of its own and is not retried   *)
(* after flushPending gives up.                                            *)
InsertFails(m) ==
  /\ pc[m] \in {"insert", "reply"}
  /\ LET lastFlush == reason[m] = "claim_ends"
         exhausted == attempt[m] = MaxRetries
     IN  IF (lastFlush /\ exhausted) \/ (~lastFlush /\ cancelled[m])
         THEN Return(m)
         ELSE /\ pc' = [pc EXCEPT ![m] =
                          IF exhausted THEN "paused" ELSE "backoff"]
              /\ UNCHANGED cancelled
  /\ UNCHANGED <<kafka, table, cursor, pending, marked, attempt, reason,
                 faults>>

RetryTimer(m) ==
  /\ pc[m] = "backoff"
  /\ attempt' = [attempt EXCEPT ![m] = @ + 1]
  /\ pc' = [pc EXCEPT ![m] = "insert"]
  /\ UNCHANGED <<kafka, table, cancelled, cursor, pending, marked, reason,
                 faults>>

(* flushWithRecovery: the timer fires and flushPending starts over. *)
RecoveryTimer(m) ==
  /\ pc[m] = "paused"
  /\ StartFlush(m, pending[m], reason[m])
  /\ UNCHANGED <<kafka, table, cancelled, cursor, marked, faults>>

(* ctx.Done() ends a wait: the session's context, or the flush timeout of  *)
(* the last flush.                                                         *)
WaitInterrupted(m) ==
  /\ pc[m] \in {"backoff", "paused"}
  /\ cancelled[m] \/ reason[m] = "claim_ends"
  /\ Return(m)
  /\ UNCHANGED <<kafka, table, cursor, pending, marked, attempt, reason,
                 faults>>
-----------------------------------------------------------------------------
(* publishDeadLetter *)

(* Variant: the stored record is not marked. *)
DeadLetterUnmarked(m) ==
  /\ pc[m] = "deadletter"
  /\ dlq' = dlq \cup {Current(m)}
  /\ pc' = [pc EXCEPT ![m] = "select"]
  /\ UNCHANGED <<topic, committed, holder, table, cancelled, cursor, pending,
                 marked, attempt, reason, faults>>

DeadLetterSucceeds(m) ==
  /\ pc[m] = "deadletter"
  /\ dlq' = dlq \cup {Current(m)}
  /\ marked' = [marked EXCEPT ![m] = MarkAll(m, {Current(m)})]
  /\ pc' = [pc EXCEPT ![m] = "select"]
  /\ UNCHANGED <<topic, committed, holder, table, cancelled, cursor, pending,
                 attempt, reason, faults>>

(* Variant: the error is logged, the record marked, and the claim goes on. *)
DeadLetterErrorIgnored(m) ==
  /\ pc[m] = "deadletter"
  /\ dlq' \in {dlq, dlq \cup {Current(m)}}
  /\ marked' = [marked EXCEPT ![m] = MarkAll(m, {Current(m)})]
  /\ pc' = [pc EXCEPT ![m] = "select"]
  /\ UNCHANGED <<topic, committed, holder, table, cancelled, cursor, pending,
                 attempt, reason, faults>>

(* SendMessage reports an error; the record may be in the topic all the    *)
(* same.  The error ends the claim without marking.                        *)
DeadLetterFails(m) ==
  /\ pc[m] = "deadletter"
  /\ dlq' \in {dlq, dlq \cup {Current(m)}}
  /\ Return(m)
  /\ UNCHANGED <<topic, committed, holder, table, cursor, pending, marked,
                 attempt, reason, faults>>
-----------------------------------------------------------------------------
(* The consumer group around the handler: the loop in cmd/consumer/main.go *)
(* and sarama's session.                                                   *)

(* group.Consume joins, is given the partition and reads from the          *)
(* committed position.                                                     *)
Join(m) ==
  /\ pc[m] = "idle"
  /\ holder = NoMember
  /\ holder' = m
  /\ pc' = [pc EXCEPT ![m] = "select"]
  /\ cursor' = [cursor EXCEPT ![m] = committed]
  /\ marked' = [marked EXCEPT ![m] = committed]
  /\ pending' = [pending EXCEPT ![m] = {}]
  /\ UNCHANGED <<topic, committed, dlq, table, cancelled, attempt, reason,
                 faults>>

(* The broker refuses the commit of a member it has evicted. *)
Commit(m) ==
  /\ Running(m)
  /\ holder = m
  /\ marked[m] # committed
  /\ committed' = marked[m]
  /\ UNCHANGED <<topic, holder, dlq, table, claim, faults>>

(* The session ends; what was marked and not committed yet is forgotten    *)
(* (a commit that succeeds on the way out is a Commit step before this).   *)
Leave(m) ==
  /\ pc[m] = "left"
  /\ Forget(m)
  /\ holder' = IF holder = m THEN NoMember ELSE holder
  /\ UNCHANGED <<topic, committed, dlq, table, faults>>

(* A rebalance or SIGTERM cancels the session of the holder. *)
Cancel(m) ==
  /\ Running(m)
  /\ holder = m
  /\ ~cancelled[m]
  /\ faults < MaxFaults
  /\ faults' = faults + 1
  /\ cancelled' = [cancelled EXCEPT ![m] = TRUE]
  /\ UNCHANGED <<kafka, table, pc, cursor, pending, marked, attempt, reason>>

(* An evicted member learns of it from the answer to a heartbeat. *)
Fenced(m) ==
  /\ Running(m)
  /\ holder # m
  /\ ~cancelled[m]
  /\ cancelled' = [cancelled EXCEPT ![m] = TRUE]
  /\ UNCHANGED <<kafka, table, pc, cursor, pending, marked, attempt, reason,
                 faults>>

(* The broker misses the heartbeats of a member that is alive. *)
Evict(m) ==
  /\ Running(m)
  /\ holder = m
  /\ faults < MaxFaults
  /\ faults' = faults + 1
  /\ holder' = NoMember
  /\ UNCHANGED <<topic, committed, dlq, table, claim>>

(* The process dies: everything it held in memory is gone. *)
Crash(m) ==
  /\ Running(m)
  /\ faults < MaxFaults
  /\ faults' = faults + 1
  /\ Forget(m)
  /\ UNCHANGED <<kafka, table>>

(* The session timeout of a member that died. *)
SessionExpires(m) ==
  /\ holder = m
  /\ ~Running(m)
  /\ holder' = NoMember
  /\ UNCHANGED <<topic, committed, dlq, table, claim, faults>>
-----------------------------------------------------------------------------
(* Steps the handler takes by itself once they are possible. *)
HandlerStep(m) ==
  \/ ReceiveValid(m)
  \/ ReceiveRejected(m)
  \/ Tick(m)
  \/ ClaimEnds(m)
  \/ Insert(m)
  \/ InsertSucceeds(m)
  \/ InsertFails(m)
  \/ RetryTimer(m)
  \/ RecoveryTimer(m)
  \/ WaitInterrupted(m)
  \/ DeadLetterSucceeds(m)
  \/ DeadLetterFails(m)

GroupStep(m) ==
  \/ Join(m)
  \/ Commit(m)
  \/ Leave(m)
  \/ Fenced(m)
  \/ SessionExpires(m)

Fault(m) ==
  \/ Cancel(m)
  \/ Evict(m)
  \/ Crash(m)

Next == \E m \in Members : HandlerStep(m) \/ GroupStep(m) \/ Fault(m)

Spec == Init /\ [][Next]_vars
-----------------------------------------------------------------------------
(* Fairness.  A handler that can take a step takes one, and the group      *)
(* around it does: goroutines are scheduled, timers fire, heartbeats and   *)
(* session timeouts happen.  A call to MySQL or to the dead letter topic   *)
(* ends, one way or the other.                                             *)
LiveSpec ==
  /\ Spec
  /\ \A m \in Members :
       /\ WF_vars(HandlerStep(m))
       /\ WF_vars(Leave(m))
       /\ WF_vars(Fenced(m))
       /\ WF_vars(SessionExpires(m))

(* An outage ends: of unboundedly many inserts, dead letters and commits   *)
(* (the auto-commit of a session and the one on its way out) one is        *)
(* acknowledged, and the partition is not left unassigned.                 *)
OutagesEnd ==
  /\ WF_vars(\E m \in Members : Join(m))
  /\ \A m \in Members :
       /\ SF_vars(Commit(m))
       /\ SF_vars(Insert(m))
       /\ SF_vars(InsertSucceeds(m))
       /\ SF_vars(DeadLetterSucceeds(m))
-----------------------------------------------------------------------------
(* Properties *)

(* The record at offset i can no longer be lost: its message has a row, it *)
(* is in the dead letter topic, or it is of a kind nobody stores.          *)
Durable(i) ==
  \/ topic[i].kind = "unsupported"
  \/ topic[i].kind = "valid" /\ table[topic[i].id] # NoRow
  \/ topic[i].kind = "poison" /\ i \in dlq

(* "MySQL idempotent commit succeeds first, then Kafka offsets are marked" *)
(* (handler.go): whatever a live, cancelled or zombie session has marked,  *)
(* and whatever the group has committed, is durable, with no gap below.    *)
NoLoss ==
  /\ \A i \in 1..(committed - 1) : Durable(i)
  /\ \A m \in Members : Running(m) =>
       \A i \in 1..(marked[m] - 1) : Durable(i)

(* uniqueBatch keeps the first record of a message_id and the index keeps  *)
(* the first row: however often records are delivered again and whoever    *)
(* writes them, the row of a message is the one its earliest valid record  *)
(* in the partition asked for.                                             *)
RowIsFirstRecord ==
  \A id \in MessageID : table[id] # NoRow =>
    /\ topic[table[id]].kind = "valid"
    /\ topic[table[id]].id = id
    /\ \A i \in 1..(table[id] - 1) :
         ~(topic[i].kind = "valid" /\ topic[i].id = id)

(* A member reads every record below its cursor: it is durable, in the     *)
(* batch, or the rejected record in hand.                                  *)
InHand(m) ==
  \/ pc[m] = "deadletter"
  \/ pc[m] \in Flushing /\ reason[m] = "before_record"

NothingSkipped ==
  \A m \in Members : Running(m) /\ pc[m] # "left" =>
    \A i \in 1..(cursor[m] - 1) :
      \/ Durable(i)
      \/ i \in pending[m]
      \/ InHand(m) /\ i = Current(m)

(* Refinement: the chain is a durable log.                                 *)
Log == INSTANCE DurableLog
         WITH safe <- {i \in Offsets : Durable(i)}, position <- committed

ImplementsDurableLog == Log!Spec

(* README 10.4: cancelling a session stops the wait.  A rebalance is never *)
(* held up by a MySQL or dead letter outage, however long it lasts.        *)
CancelledClaimEnds ==
  \A m \in Members : (Running(m) /\ cancelled[m]) ~> ~Running(m)

(* README 13: after an outage, a rebalance or a crash the backlog is       *)
(* worked off: in the end everything in the partition has been committed.  *)
BacklogDrains == OutagesEnd => <>[](committed = N + 1)
=============================================================================
