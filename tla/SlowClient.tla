----------------------------- MODULE SlowClient -----------------------------
(***************************************************************************)
(* One WebSocket connection of a V10 server from the time its client is in *)
(* its room: the broadcast workers that call safeSend on it, its WritePump *)
(* and ReadPump, and the manager goroutine, which unregisters it           *)
(* (src/v10/internal/ws/client.go, manager.go).  Each of them may call     *)
(* Client.Close, whose sync.Once makes the later callers wait for the      *)
(* first.                                                                  *)
(*                                                                         *)
(* Messages are counted, not told apart.  safeSend is two steps, the       *)
(* channel operation and what is done to slowDrops, and other workers may  *)
(* come between them.                                                      *)
(***************************************************************************)
EXTENDS Naturals

CONSTANTS
  Workers,              \* the broadcastWorker goroutines
  Writer,               \* the goroutine of WritePump
  Reader,               \* the goroutine of ReadPump
  Manager,              \* the goroutine of Manager.Run
  SendBufferSize,
  SlowClientDisconnectThreshold,
  Modulus,              \* 2^32 in the code: slowDrops is a Uint32
  MaxJobs               \* bound: jobs with this client not yet taken

Pumps  == {Writer, Reader}
Actors == Workers \cup Pumps \cup {Manager}

ASSUME Assumptions ==
  /\ Writer # Reader /\ Writer # Manager /\ Reader # Manager
  /\ {Writer, Reader, Manager} \cap Workers = {}
  /\ SendBufferSize \in Nat
  /\ SlowClientDisconnectThreshold \in Nat \ {0}
  /\ Modulus \in Nat
  /\ SlowClientDisconnectThreshold < Modulus
  /\ MaxJobs \in Nat

VARIABLES
  pc,                   \* where each goroutine is
  send,                 \* len(Client.Send)
  slowDrops,
  once,                 \* Client.once: done closed, then Conn closed
  broken,               \* the peer is gone, or reading failed
  member,               \* the client is in Manager.rooms
  jobs                  \* queued broadcast jobs whose snapshot has the client

vars == <<pc, send, slowDrops, once, broken, member, jobs>>

Threshold == SlowClientDisconnectThreshold

ClosePlaces   == {"closing", "inside"}
WorkerPlaces  == {"idle", "sent", "dropped"} \cup ClosePlaces
WriterPlaces  == {"select", "writing", "ended"} \cup ClosePlaces
ReaderPlaces  == {"reading", "unregistering", "ended"} \cup ClosePlaces
ManagerPlaces == {"idle", "unregister"} \cup ClosePlaces

TypeOK ==
  /\ pc \in [Actors -> WorkerPlaces \cup WriterPlaces \cup ReaderPlaces
                         \cup ManagerPlaces]
  /\ \A w \in Workers : pc[w] \in WorkerPlaces
  /\ pc[Writer] \in WriterPlaces
  /\ pc[Reader] \in ReaderPlaces
  /\ pc[Manager] \in ManagerPlaces
  /\ send \in 0..SendBufferSize
  /\ slowDrops \in 0..(Modulus - 1)
  /\ once \in {"open", "done", "closed"}
  /\ broken \in BOOLEAN
  /\ member \in BOOLEAN
  /\ jobs \in 0..MaxJobs

Init ==
  /\ pc = [a \in Actors |-> CASE a = Writer -> "select"
                              [] a = Reader -> "reading"
                              [] OTHER      -> "idle"]
  /\ send = 0
  /\ slowDrops = 0
  /\ once = "open"
  /\ broken = FALSE
  /\ member = TRUE
  /\ jobs = 0

Go(a, from, to) ==
  /\ pc[a] = from
  /\ pc' = [pc EXCEPT ![a] = to]

ConnectionFails == broken \/ once = "closed"
-----------------------------------------------------------------------------
(* Client.Close *)

(* once.Do lets the first caller in, which closes done. *)
BeginClose(a) ==
  /\ once = "open"
  /\ Go(a, "closing", "inside")
  /\ once' = "done"
  /\ UNCHANGED <<send, slowDrops, broken, member, jobs>>

AfterClose(a) == IF a \in Pumps THEN "ended" ELSE "idle"

(* Conn.Close, and the call returns. *)
FinishClose(a) ==
  /\ Go(a, "inside", AfterClose(a))
  /\ once' = "closed"
  /\ UNCHANGED <<send, slowDrops, broken, member, jobs>>

(* Any later call returns once the first one has. *)
AlreadyClosed(a) ==
  /\ once = "closed"
  /\ Go(a, "closing", AfterClose(a))
  /\ UNCHANGED <<send, slowDrops, once, broken, member, jobs>>

Close(a) == BeginClose(a) \/ FinishClose(a) \/ AlreadyClosed(a)
-----------------------------------------------------------------------------
(* Broadcast workers *)

(* A job for the room of the client is queued: a message, or one of the    *)
(* statistics the ticker broadcasts to every room with clients.            *)
Broadcast ==
  /\ member
  /\ jobs < MaxJobs
  /\ jobs' = jobs + 1
  /\ UNCHANGED <<pc, send, slowDrops, once, broken, member>>

Accept(w) ==
  /\ jobs > 0
  /\ send < SendBufferSize
  /\ Go(w, "idle", "sent")
  /\ jobs' = jobs - 1
  /\ send' = send + 1
  /\ UNCHANGED <<slowDrops, once, broken, member>>

Reset(w) ==
  /\ Go(w, "sent", "idle")
  /\ slowDrops' = 0
  /\ UNCHANGED <<send, once, broken, member, jobs>>

(* Variant: the drop is only added to the metrics. *)
DropUncounted(w) ==
  /\ jobs > 0
  /\ send = SendBufferSize
  /\ pc[w] = "idle"
  /\ jobs' = jobs - 1
  /\ UNCHANGED <<pc, send, slowDrops, once, broken, member>>

Drop(w) ==
  /\ jobs > 0
  /\ send = SendBufferSize
  /\ Go(w, "idle", "dropped")
  /\ jobs' = jobs - 1
  /\ UNCHANGED <<send, slowDrops, once, broken, member>>

(* Variant: the value before the addition is compared, as Load then Add    *)
(* would.                                                                  *)
CountOld(w) ==
  /\ Go(w, "dropped", IF slowDrops = Threshold THEN "closing" ELSE "idle")
  /\ slowDrops' = (slowDrops + 1) % Modulus
  /\ UNCHANGED <<send, once, broken, member, jobs>>

(* Variant: a uint32 overflow is not considered. *)
CountUnbounded(w) ==
  /\ Go(w, "dropped", IF slowDrops + 1 = Threshold THEN "closing" ELSE "idle")
  /\ slowDrops' = slowDrops + 1
  /\ UNCHANGED <<send, once, broken, member, jobs>>

(* slowDrops.Add(1), compared with the threshold. *)
Count(w) ==
  /\ slowDrops' = (slowDrops + 1) % Modulus
  /\ Go(w, "dropped", IF slowDrops' = Threshold THEN "closing" ELSE "idle")
  /\ UNCHANGED <<send, once, broken, member, jobs>>

WorkerStep(w) == Accept(w) \/ Reset(w) \/ Drop(w) \/ Count(w) \/ Close(w)
-----------------------------------------------------------------------------
(* WritePump *)

TakeMessage ==
  /\ send > 0
  /\ Go(Writer, "select", "writing")
  /\ send' = send - 1
  /\ UNCHANGED <<slowDrops, once, broken, member, jobs>>

(* WriteMessage returns.  It has no deadline: it waits until the peer has  *)
(* room for the message.  A connection whose peer is gone may still take   *)
(* some.                                                                   *)
WriteSucceeds ==
  /\ once # "closed"
  /\ Go(Writer, "writing", "select")
  /\ UNCHANGED <<send, slowDrops, once, broken, member, jobs>>

(* Variant: WritePump returns without closing the client. *)
WriteFailsReturning ==
  /\ ConnectionFails
  /\ Go(Writer, "writing", "ended")
  /\ UNCHANGED <<send, slowDrops, once, broken, member, jobs>>

WriteFails ==
  /\ ConnectionFails
  /\ Go(Writer, "writing", "closing")
  /\ UNCHANGED <<send, slowDrops, once, broken, member, jobs>>

(* Variant: WritePump only waits for messages. *)
SeeDoneNever ==
  /\ once # "open"
  /\ pc[Writer] = "select"
  /\ UNCHANGED vars

(* <-c.done, which select may take or leave while there are messages. *)
SeeDone ==
  /\ once # "open"
  /\ Go(Writer, "select", "ended")
  /\ UNCHANGED <<send, slowDrops, once, broken, member, jobs>>

WriterStep == TakeMessage \/ WriteFails \/ SeeDone \/ Close(Writer)
-----------------------------------------------------------------------------
(* ReadPump *)

(* A packet is answered by sendControl, which leaves slowDrops alone. *)
Control ==
  /\ pc[Reader] = "reading"
  /\ send < SendBufferSize
  /\ send' = send + 1
  /\ UNCHANGED <<pc, slowDrops, once, broken, member, jobs>>

ReadFails ==
  /\ ConnectionFails
  /\ Go(Reader, "reading", "unregistering")
  /\ UNCHANGED <<send, slowDrops, once, broken, member, jobs>>

ReaderStep == ReadFails \/ Close(Reader)
-----------------------------------------------------------------------------
(* Manager.Run *)

(* manager.Unregister <- c: the sender goes on to its Close. *)
TakeUnregister ==
  /\ pc[Reader] = "unregistering"
  /\ pc[Manager] = "idle"
  /\ pc' = [pc EXCEPT ![Reader] = "closing", ![Manager] = "unregister"]
  /\ UNCHANGED <<send, slowDrops, once, broken, member, jobs>>

(* handleUnregister: out of the room, then Close. *)
HandleUnregister ==
  /\ Go(Manager, "unregister", "closing")
  /\ member' = FALSE
  /\ UNCHANGED <<send, slowDrops, once, broken, jobs>>

ManagerStep == TakeUnregister \/ HandleUnregister \/ Close(Manager)
-----------------------------------------------------------------------------
(* The peer closes the connection or sends what ReadMessage refuses. *)
Break ==
  /\ ~broken
  /\ broken' = TRUE
  /\ UNCHANGED <<pc, send, slowDrops, once, member, jobs>>

Next ==
  \/ Broadcast
  \/ \E w \in Workers : WorkerStep(w)
  \/ WriterStep
  \/ WriteSucceeds
  \/ Control
  \/ ReaderStep
  \/ ManagerStep
  \/ Break

Spec == Init /\ [][Next]_vars

(* Every goroutine is scheduled, and a room with clients is broadcast to   *)
(* again and again, if only by the statistics ticker.  Nothing is assumed  *)
(* of the peer: a write may wait for it for ever.                          *)
LiveSpec ==
  /\ Spec
  /\ WF_vars(Broadcast)
  /\ \A w \in Workers : WF_vars(WorkerStep(w))
  /\ WF_vars(WriterStep)
  /\ WF_vars(ReaderStep)
  /\ WF_vars(ManagerStep)
-----------------------------------------------------------------------------
(* Properties *)

(* However the workers interleave, and although only the addition that     *)
(* makes the counter equal to the threshold disconnects, the counter is    *)
(* never at or beyond the threshold of an open connection without a worker *)
(* that is on its way to close it.                                         *)
ThresholdIsNotMissed ==
  slowDrops >= Threshold =>
    once # "open" \/ \E w \in Workers : pc[w] = "closing"

(* A connection nobody writes to, or nobody reads from, is being closed:   *)
(* neither pump ends and leaves the other one with the connection.  While  *)
(* done is closed and Conn is not, exactly one goroutine is inside once.   *)
PumpsEndTogether ==
  /\ pc[Writer] = "ended" => once # "open"
  /\ pc[Reader] = "ended" => once = "closed"
  /\ once = "done" <=> \E a \in Actors : pc[a] = "inside"
  /\ \A a, b \in Actors : pc[a] = "inside" /\ pc[b] = "inside" => a = b
  /\ pc[Manager] = "closing" => ~member

(* A write the peer never takes does not hold WritePump for ever: the      *)
(* buffer fills, the drops add up and the connection is closed under it,   *)
(* also without a write deadline.                                          *)
StuckWriteEnds == []<>(pc[Writer] # "writing")

(* A client whose done channel is closed leaves its room, and both of its  *)
(* goroutines end.                                                         *)
ClosedClientIsGone ==
  once # "open" ~>
    pc[Writer] = "ended" /\ pc[Reader] = "ended" /\ ~member
=============================================================================
