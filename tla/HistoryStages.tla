---------------------------- MODULE HistoryStages ----------------------------
(***************************************************************************)
(* How the stages of the course before V9 store the history of a room:     *)
(*                                                                         *)
(*   V4         an in-process queue and a writer                           *)
(*              (src/v4/internal/store/db_writer.go)                       *)
(*   prototype  a Kafka consumer that acknowledges what it has queued      *)
(*              (src/internal/consumer/handler.go)                         *)
(*   V5         a consumer that inserts first (src/v5/internal/consumer;   *)
(*              V6 and V7 repeat it)                                       *)
(*   V8         idempotent inserts and a dead letter topic                 *)
(*              (src/v8/internal/consumer)                                 *)
(*                                                                         *)
(* One stage is picked at the start and receives the records 1..N, some of *)
(* them of another type or malformed; only V4 is called with messages      *)
(* alone.  Databases fail with or without effect, sessions are cancelled,  *)
(* processes end.  The stages differ in what they lose and what they store *)
(* twice; PartitionConsumer models the last stage in full.                 *)
(***************************************************************************)
EXTENDS Naturals, FiniteSets, Sequences, SequencesExt, FiniteSetsExt

CONSTANTS
  Stages,                   \* the stages under comparison
  N,                        \* offsets of the partition, or messages of V4
  QueueSize,                \* DBWriter.input, DanmakuHandler.msgChan
  BatchSize,
  MaxRetries,
  MaxFaults                 \* bounds failures, cancellations and restarts

AllStages == {"V4", "prototype", "V5", "V8"}

ASSUME Assumptions ==
  /\ Stages \subseteq AllStages
  /\ N \in Nat
  /\ QueueSize \in Nat \ {0}
  /\ BatchSize \in Nat \ {0}
  /\ MaxRetries \in Nat \ {0}
  /\ MaxFaults \in Nat

Records == 1..N

VARIABLES
  stage, kind,              \* fixed by Init
  next,                     \* the record that arrives next
  queue,                    \* the channel in front of the loop
  buffer,                   \* the batch: buffer or pending
  attempt,                  \* of the flush under way, 0 if there is none
  loop,                     \* see Loops
  cancelled,                \* the context of the session or of the server
  detached,                 \* the flush under way does not heed it
  channel,                  \* msgChan: open, closed by the Cleanup of this
                            \* session, or of one before ("stale")
  marked, committed,        \* the offset after the last one
  rows,                     \* how many rows each record has
  deadLetters,
  faults,
  (* history *)
  causes,                   \* why a record may be missing
  unanswered,               \* inserted by a call that reported an error
  redelivered

input == <<stage, kind, next, queue, channel>>
batch == <<buffer, attempt, loop, detached>>
marks == <<marked, committed, redelivered>>
store == <<rows, deadLetters, unanswered>>
vars == <<input, batch, cancelled, marks, store, faults, causes>>

Kinds == {"valid", "unsupported", "malformed"}

(* Draining is the last loop of V4, "last" a flush the loop ends with,     *)
(* idle a process between two sessions.                                    *)
Loops == {"running", "draining", "last", "stopped", "idle", "dead"}

Causes == {"full", "gaveUp", "spoilt", "forgotten", "overtaken"}

TypeOK ==
  /\ stage \in Stages
  /\ kind \in [Records -> Kinds]
  /\ next \in 1..(N + 1)
  /\ queue \in Seq(Records)
  /\ Len(queue) <= QueueSize
  /\ buffer \in Seq(Records)
  /\ Len(buffer) <= BatchSize
  /\ attempt \in 0..MaxRetries
  /\ loop \in Loops
  /\ cancelled \in BOOLEAN
  /\ detached \in BOOLEAN
  /\ channel \in {"open", "closed", "stale"}
  /\ marked \in 1..(N + 1)
  /\ committed \in 1..marked
  /\ rows \in [Records -> Nat]
  /\ deadLetters \subseteq Records
  /\ faults \in 0..MaxFaults
  /\ causes \in [Causes -> SUBSET Records]
  /\ unanswered \subseteq Records
  /\ redelivered \subseteq Records

Init ==
  /\ stage \in Stages
  /\ kind \in [Records -> Kinds]
  /\ stage = "V4" => \A o \in Records : kind[o] = "valid"
  /\ next = 1
  /\ queue = <<>>
  /\ buffer = <<>>
  /\ attempt = 0
  /\ loop = "running"
  /\ cancelled = FALSE
  /\ detached = FALSE
  /\ channel = "open"
  /\ marked = 1
  /\ committed = 1
  /\ rows = [o \in Records |-> 0]
  /\ deadLetters = {}
  /\ faults = 0
  /\ causes = [c \in Causes |-> {}]
  /\ unanswered = {}
  /\ redelivered = {}

Fault ==
  /\ faults < MaxFaults
  /\ faults' = faults + 1

Blame(c, S) == causes' = [causes EXCEPT ![c] = @ \cup S]

(* A record joins the batch, which is flushed when it is full. *)
Collect(o) ==
  /\ buffer' = Append(buffer, o)
  /\ attempt' = IF Len(buffer) + 1 >= BatchSize THEN 1 ELSE 0

(* The loop returns, or the claim ends with an error. *)
Return ==
  /\ buffer' = <<>>
  /\ attempt' = 0
  /\ loop' = "stopped"
  /\ detached' = FALSE

----------------------------------------------------------------------------
(* V4: DBWriter *)

(* Variant: the queue grows instead. *)
EnqueueUnbounded ==
  /\ stage = "V4"
  /\ loop # "dead"
  /\ next <= N
  /\ next' = next + 1
  /\ queue' = Append(queue, next)
  /\ UNCHANGED <<stage, kind, channel, batch, cancelled, marks, store, faults,
                 causes>>

(* The readers of connections outlive the writer at a shutdown. *)
Enqueue ==
  /\ stage = "V4"
  /\ loop # "dead"
  /\ next <= N
  /\ next' = next + 1
  /\ \/ /\ Len(queue) < QueueSize
        /\ queue' = Append(queue, next)
        /\ UNCHANGED causes
     \/ /\ Len(queue) = QueueSize
        /\ Blame("full", {next})
        /\ UNCHANGED queue
  /\ UNCHANGED <<stage, kind, channel, batch, cancelled, marks, store, faults>>

(* A cancelled loop may still choose a message or a tick before it sees    *)
(* the cancellation; after that it drains the queue.                       *)
DequeueV4 ==
  /\ stage = "V4"
  /\ loop \in {"running", "draining"}
  /\ attempt = 0
  /\ queue # <<>>
  /\ queue' = Tail(queue)
  /\ Collect(Head(queue))
  /\ UNCHANGED <<stage, kind, next, channel, loop, detached, cancelled, marks,
                 store, faults, causes>>

SeeDoneV4 ==
  /\ stage = "V4"
  /\ loop = "running"
  /\ attempt = 0
  /\ cancelled
  /\ loop' = "draining"
  /\ detached' = TRUE
  /\ UNCHANGED <<input, buffer, attempt, cancelled, marks, store, faults,
                 causes>>

FinishV4 ==
  /\ stage = "V4"
  /\ loop = "draining"
  /\ attempt = 0
  /\ queue = <<>>
  /\ IF buffer = <<>> THEN Return
       ELSE loop' = "last" /\ attempt' = 1 /\ UNCHANGED <<buffer, detached>>
  /\ UNCHANGED <<input, cancelled, marks, store, faults, causes>>

----------------------------------------------------------------------------
(* The prototype: DanmakuHandler with its dbWorker *)

(* A record is marked as soon as it is in the channel, and one of another  *)
(* type is put there as nil: parseMessage reports it without an error.  No *)
(* claim is left when Cleanup closes the channel; the send of a later      *)
(* session panics (ProcessEnds).                                           *)
ReceivePrototype ==
  /\ stage = "prototype"
  /\ loop # "idle"
  /\ channel # "closed"
  /\ next <= N
  /\ next' = next + 1
  /\ marked' = next + 1
  /\ \/ kind[next] = "malformed" /\ UNCHANGED queue
     \/ /\ kind[next] # "malformed"
        /\ channel = "open"
        /\ Len(queue) < QueueSize
        /\ queue' = Append(queue, next)
  /\ UNCHANGED <<stage, kind, channel, batch, cancelled, committed,
                 redelivered, store, faults, causes>>

DequeuePrototype ==
  /\ stage = "prototype"
  /\ loop = "running"
  /\ attempt = 0
  /\ queue # <<>>
  /\ queue' = Tail(queue)
  /\ Collect(Head(queue))
  /\ UNCHANGED <<stage, kind, next, channel, loop, detached, cancelled, marks,
                 store, faults, causes>>

(* The worker sees the end of the session, or an empty closed channel. It  *)
(* flushes its buffer and returns; in the first case what is still in the  *)
(* channel stays there.                                                    *)
EndWorker ==
  /\ stage = "prototype"
  /\ loop = "running"
  /\ attempt = 0
  /\ \/ cancelled /\ detached' = TRUE
     \/ channel # "open" /\ queue = <<>> /\ detached' = FALSE
  /\ IF buffer = <<>>
       THEN loop' = "stopped" /\ UNCHANGED attempt
       ELSE loop' = "last" /\ attempt' = 1
  /\ UNCHANGED <<input, buffer, cancelled, marks, store, faults, causes>>

(* Cleanup, once the claims have ended; closing it again panics. *)
CloseChannel ==
  /\ stage = "prototype"
  /\ loop # "idle"
  /\ cancelled
  /\ channel = "open"
  /\ channel' = "closed"
  /\ UNCHANGED <<stage, kind, next, queue, batch, cancelled, marks, store,
                 faults, causes>>

----------------------------------------------------------------------------
(* V5: Handler.ConsumeClaim *)

(* A skipped record is marked although earlier ones are still pending. *)
ReceiveV5 ==
  /\ stage = "V5"
  /\ loop = "running"
  /\ attempt = 0
  /\ next <= N
  /\ next' = next + 1
  /\ \/ /\ kind[next] # "valid"
        /\ marked' = next + 1
        /\ Blame("overtaken", ToSet(buffer))
        /\ UNCHANGED <<buffer, attempt>>
     \/ /\ kind[next] = "valid"
        /\ Collect(next)
        /\ UNCHANGED <<marked, causes>>
  /\ UNCHANGED <<stage, kind, queue, channel, loop, detached, cancelled,
                 committed, redelivered, store, faults>>

----------------------------------------------------------------------------
(* V8: Handler.ConsumeClaim *)

ReceiveV8 ==
  /\ stage = "V8"
  /\ loop = "running"
  /\ attempt = 0
  /\ next <= N
  /\ kind[next] = "valid"
  /\ next' = next + 1
  /\ Collect(next)
  /\ UNCHANGED <<stage, kind, queue, channel, loop, detached, cancelled, marks,
                 store, faults, causes>>

(* What is pending is flushed before another record is marked. *)
FlushBefore ==
  /\ stage = "V8"
  /\ loop = "running"
  /\ attempt = 0
  /\ next <= N
  /\ kind[next] # "valid"
  /\ buffer # <<>>
  /\ attempt' = 1
  /\ UNCHANGED <<input, buffer, loop, detached, cancelled, marks, store,
                 faults, causes>>

SkipUnsupported ==
  /\ stage = "V8"
  /\ loop = "running"
  /\ attempt = 0
  /\ next <= N
  /\ kind[next] = "unsupported"
  /\ buffer = <<>>
  /\ next' = next + 1
  /\ marked' = next + 1
  /\ UNCHANGED <<stage, kind, queue, channel, batch, cancelled, committed,
                 redelivered, store, faults, causes>>

(* Variant: without that flush. *)
PublishDeadLetterUnflushed ==
  /\ stage = "V8"
  /\ loop = "running"
  /\ attempt = 0
  /\ next <= N
  /\ kind[next] = "malformed"
  /\ \/ /\ next' = next + 1
        /\ deadLetters' = deadLetters \cup {next}
        /\ marked' = next + 1
        /\ UNCHANGED <<batch, faults>>
     \/ /\ Fault
        /\ Return
        /\ UNCHANGED <<next, deadLetters, marked>>
  /\ UNCHANGED <<stage, kind, queue, channel, cancelled, committed,
                 redelivered, rows, unanswered, causes>>

PublishDeadLetter ==
  /\ stage = "V8"
  /\ loop = "running"
  /\ attempt = 0
  /\ next <= N
  /\ kind[next] = "malformed"
  /\ buffer = <<>>
  /\ \/ /\ next' = next + 1
        /\ deadLetters' = deadLetters \cup {next}
        /\ marked' = next + 1
        /\ UNCHANGED <<batch, faults>>
     \/ /\ Fault
        /\ Return
        /\ UNCHANGED <<next, deadLetters, marked>>
  /\ UNCHANGED <<stage, kind, queue, channel, cancelled, committed,
                 redelivered, rows, unanswered, causes>>

----------------------------------------------------------------------------
(* Flushing *)

(* The ticker of every loop. *)
Tick ==
  /\ loop = "running"
  /\ attempt = 0
  /\ buffer # <<>>
  /\ attempt' = 1
  /\ UNCHANGED <<input, buffer, loop, detached, cancelled, marks, store,
                 faults, causes>>

(* V5 and V8: the claim is over; one last flush under a context of its own *)
EndClaim ==
  /\ stage \in {"V5", "V8"}
  /\ loop = "running"
  /\ attempt = 0
  /\ cancelled
  /\ IF buffer = <<>> THEN Return
       ELSE /\ loop' = "last"
            /\ detached' = TRUE
            /\ attempt' = 1
            /\ UNCHANGED buffer
  /\ UNCHANGED <<input, cancelled, marks, store, faults, causes>>

(* CreateInBatches inserts every message, CreateIdempotent only new ones. *)
CreateInBatches ==
  [o \in Records |-> IF o \in ToSet(buffer) THEN rows[o] + 1 ELSE rows[o]]

CreateIdempotent ==
  [o \in Records |-> IF o \in ToSet(buffer) THEN 1 ELSE rows[o]]

Insert ==
  rows' = IF stage = "V8" THEN CreateIdempotent ELSE CreateInBatches

(* V5 and V8 mark the batch once it is in the database. *)
MarkBatch ==
  marked' = IF stage \in {"V5", "V8"}
              THEN Max({marked, Last(buffer) + 1}) ELSE marked

AfterFlush ==
  /\ buffer' = <<>>
  /\ attempt' = 0
  /\ IF loop = "last"
       THEN loop' = "stopped" /\ detached' = FALSE
       ELSE UNCHANGED <<loop, detached>>

(* GORM refuses the whole batch for a nil among its messages.              *)
Storable == \A o \in ToSet(buffer) : kind[o] = "valid"

FlushSucceeds ==
  /\ attempt > 0
  /\ Storable
  /\ Insert
  /\ MarkBatch
  /\ AfterFlush
  /\ UNCHANGED <<input, cancelled, committed, redelivered, deadLetters,
                 unanswered, faults, causes>>

(* A call to the database fails, perhaps after the commit; for a batch     *)
(* with a nil every call does.  A cancellation during the backoff counts   *)
(* as one more call that failed.                                           *)
CallFails ==
  /\ attempt > 0
  /\ IF Storable THEN Fault ELSE UNCHANGED faults
  /\ \/ UNCHANGED <<rows, unanswered>>
     \/ Storable /\ Insert /\ unanswered' = unanswered \cup ToSet(buffer)

Hopeless == attempt = MaxRetries \/ (cancelled /\ ~detached)

InsertFails ==
  /\ ~Hopeless
  /\ CallFails
  /\ attempt' = attempt + 1
  /\ UNCHANGED <<input, buffer, loop, detached, cancelled, marks, deadLetters,
                 causes>>

(* V4 and the prototype drop the batch, and the valid messages next to a   *)
(* nil with it.                                                            *)
DropBatch ==
  /\ stage \in {"V4", "prototype"}
  /\ Hopeless
  /\ CallFails
  /\ Blame(IF Storable THEN "gaveUp" ELSE "spoilt", ToSet(buffer))
  /\ AfterFlush
  /\ UNCHANGED <<input, cancelled, marks, deadLetters>>

(* V5 and V8 end the claim with an error and mark nothing.  The last flush *)
(* of V8 may also run out of its time.                                     *)
FailClaim ==
  /\ stage \in {"V5", "V8"}
  /\ Hopeless \/ (stage = "V8" /\ detached)
  /\ CallFails
  /\ Return
  /\ UNCHANGED <<input, cancelled, marks, deadLetters, causes>>

----------------------------------------------------------------------------
(* Sessions and processes *)

(* A rebalance or a signal. *)
Cancel ==
  /\ loop \in {"running", "draining", "last", "stopped"}
  /\ ~cancelled
  /\ Fault
  /\ cancelled' = TRUE
  /\ UNCHANGED <<input, batch, marks, store, causes>>

AutoCommit ==
  /\ stage # "V4"
  /\ committed < marked
  /\ committed' = marked
  /\ UNCHANGED <<input, batch, cancelled, marked, redelivered, store, faults,
                 causes>>

SessionEnds ==
  /\ stage # "V4"
  /\ loop = "stopped"
  /\ stage = "prototype" => channel = "closed"
  /\ loop' = "idle"
  /\ cancelled' = FALSE
  /\ committed' = marked
  /\ UNCHANGED <<input, buffer, attempt, detached, marked, redelivered, store,
                 faults, causes>>

(* The prototype starts with a channel that is closed already if the       *)
(* process has had a session before.                                       *)
SessionStarts ==
  /\ stage # "V4"
  /\ loop = "idle"
  /\ loop' = "running"
  /\ channel' = IF channel = "closed" THEN "stale" ELSE channel
  /\ next' = committed
  /\ marked' = committed
  /\ redelivered' = redelivered \cup committed..(next - 1)
  /\ UNCHANGED <<stage, kind, queue, buffer, attempt, detached, cancelled,
                 committed, store, faults, causes>>

(* The process crashes, panics or exits.  The prototype panics when it     *)
(* sends on its closed channel.                                            *)
ProcessEnds ==
  /\ loop # "dead"
  /\ Fault
  /\ Blame("forgotten", ToSet(queue) \cup ToSet(buffer))
  /\ queue' = <<>>
  /\ buffer' = <<>>
  /\ attempt' = 0
  /\ detached' = FALSE
  /\ cancelled' = FALSE
  /\ channel' = "open"
  /\ marked' = committed
  /\ loop' = IF stage = "V4" THEN "dead" ELSE "idle"
  /\ UNCHANGED <<stage, kind, next, committed, redelivered, store>>

Next ==
  \/ Enqueue \/ DequeueV4 \/ SeeDoneV4 \/ FinishV4
  \/ ReceivePrototype \/ DequeuePrototype \/ EndWorker \/ CloseChannel
  \/ ReceiveV5 \/ ReceiveV8 \/ FlushBefore \/ SkipUnsupported
  \/ PublishDeadLetter
  \/ Tick \/ EndClaim \/ FlushSucceeds \/ InsertFails \/ DropBatch
  \/ FailClaim
  \/ Cancel \/ AutoCommit \/ SessionEnds \/ SessionStarts \/ ProcessEnds

Spec == Init /\ [][Next]_vars

----------------------------------------------------------------------------

(* Valid, not in the database, and on no way into it any more. *)
Lost(o) ==
  /\ kind[o] = "valid"
  /\ rows[o] = 0
  /\ o \notin ToSet(queue) \cup ToSet(buffer)
  /\ o < IF stage = "V4" THEN next ELSE committed

(* What a record of each stage can be lost to. *)
LossesOf ==
  [V4 |-> {"full", "gaveUp", "forgotten"},
   prototype |-> {"gaveUp", "spoilt", "forgotten"},
   V5 |-> {"overtaken"},
   V8 |-> {}]

NoOtherLoss ==
  \A o \in Records :
    Lost(o) => \E c \in LossesOf[stage] : o \in causes[c]

NoOtherDuplicate ==
  \A o \in Records : rows[o] > 1 =>
    stage # "V8" /\ o \in unanswered \cup redelivered

NothingElseSkipped ==
  \A o \in 1..(committed - 1) :
    stage = "V8" /\ kind[o] = "malformed" => o \in deadLetters

(***************************************************************************)
(* What the course says each stage gains over the one before: V4 loses     *)
(* what a full queue, an exhausted retry or the end of the process takes,  *)
(* the prototype what the last two take and what shares a batch with a     *)
(* record of another type; V5 loses only a pending record that a skipped   *)
(* one has overtaken; V8 loses nothing, and keeps the malformed ones.  A   *)
(* row is stored twice only after a redelivery or a lost answer, and in V8 *)
(* never.                                                                  *)
(***************************************************************************)
HistoryIsExplained == NoOtherLoss /\ NoOtherDuplicate /\ NothingElseSkipped

(***************************************************************************)
(* "Write to the database first and acknowledge when that has succeeded,   *)
(* do not acknowledge otherwise" (the comment in flushPending of V5): what *)
(* a group has committed is in the database.                               *)
(***************************************************************************)
CommittedIsStored ==
  \A o \in 1..(committed - 1) : kind[o] = "valid" => rows[o] > 0
=============================================================================
