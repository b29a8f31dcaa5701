----------------------------- MODULE RoomFanout -----------------------------
(***************************************************************************)
(* The live path of a danmaku through several V10 servers                  *)
(* (src/v10/internal/ws/manager.go): SubmitDanmaku by the reader of its    *)
(* sender, handleBroadcast in the manager's goroutine, the Redis publish   *)
(* workers behind the circuit breaker, Redis itself, the subscription of   *)
(* each server to each of its rooms, the fallback to a local broadcast,    *)
(* and the broadcast workers.  The pool behind the snapshots is left out.  *)
(*                                                                         *)
(* Nothing on this path is acknowledged end to end.  The properties say    *)
(* what holds all the same: who can see a message twice, who can miss it   *)
(* and why, and when two messages can change places.                       *)
(*                                                                         *)
(* The breaker refuses a call at any time: it is also fed by the           *)
(* statistics goroutine (CircuitBreaker says when).  What a full buffer    *)
(* does to a client's connection is in SlowClient, admission and the       *)
(* hand-over to the manager in RoomRegistry.                               *)
(***************************************************************************)
EXTENDS Naturals, FiniteSets, Sequences, SequencesExt

CONSTANTS
  Servers,
  Clients,
  Home,                     \* the server each client connects to
  RoomOf,                   \* its room
  Messages,
  Sender,                   \* the client that writes each message
  WorkerCount,              \* ManagerConfig.WorkerCount of each server
  RedisWorkerCount,         \* ManagerConfig.RedisWorkerCount of each server
  BroadcastBufferSize,
  RedisPublishBufferSize,
  JobBufferSize,
  Slow,                     \* clients whose send buffer may be full
  Present,                  \* clients in their rooms from the start
  MaxFaults,                \* bounds departures, failed calls, broken connections
  Idle

ASSUME Assumptions ==
  /\ IsFiniteSet(Clients)
  /\ Home \in [Clients -> Servers]
  /\ Slow \subseteq Clients
  /\ Present \subseteq Clients
  /\ Sender \in [Messages -> Clients]
  /\ WorkerCount \in [Servers -> Nat \ {0}]
  /\ RedisWorkerCount \in [Servers -> Nat \ {0}]
  /\ BroadcastBufferSize \in Nat
  /\ RedisPublishBufferSize \in Nat
  /\ JobBufferSize \in Nat
  /\ MaxFaults \in Nat

VARIABLES
  (* clients *)
  phase,                    \* outside, inside its room, or left for good
  seen,                     \* what was put into Client.Send, in order
  (* subscriptions: named after the client whose arrival started them *)
  sub,                      \* none, connecting, active, cancelled or ended
  channel,                  \* what Redis has sent to each of them
  (* queues and workers of each server *)
  Broadcast,                \* Manager.Broadcast
  redisPublishJobs,         \* Manager.redisPublishJobs
  publishing,               \* the call each redisPublishWorker is in
  broadcastJobs,            \* Manager.broadcastJobs
  broadcasting,             \* the job of each broadcastWorker
  (* Redis *)
  wire,                     \* PUBLISH commands sent and not carried out
  faults,
  (* history *)
  accepted,                 \* the messages of each server's ingress, in order
  audience,                 \* who was in the room of each at that time
  arrivals,                 \* how often Redis sent each to each subscription
  carried,                  \* how often Redis carried out each
  degraded,                 \* those broadcast locally instead
  lost                      \* <<m, s>>: job dropped; <<m, c>>: buffer full

members == <<phase, sub>>
redis   == <<wire, channel, arrivals, carried, faults>>
ingress == <<Broadcast, accepted, audience>>
locals  == <<broadcastJobs, lost>>
workers == <<broadcasting, seen>>
publish == <<redisPublishJobs, publishing, degraded>>
vars == <<members, redis, ingress, locals, workers, publish>>

Origin(m) == Home[Sender[m]]
Room(m) == RoomOf[Sender[m]]

(* In the same room of the same server. *)
Same(c, d) == Home[c] = Home[d] /\ RoomOf[c] = RoomOf[d]

(* Manager.rooms[r] of server s *)
Members(s, r) ==
  {c \in Clients : phase[c] = "inside" /\ Home[c] = s /\ RoomOf[c] = r}

Job == [message : Messages, clients : SUBSET Clients]
Call == [message : Messages, answer : BOOLEAN]

ASSUME IdleAssumption == Idle \notin Job \cup Call

TypeOK ==
  /\ phase \in [Clients -> {"outside", "inside", "left"}]
  /\ seen \in [Clients -> Seq(Messages)]
  /\ sub \in [Clients -> {"none", "connecting", "active", "cancelled", "ended"}]
  /\ channel \in [Clients -> Seq(Messages)]
  /\ Broadcast \in [Servers -> Seq(Messages)]
  /\ redisPublishJobs \in [Servers -> Seq(Messages)]
  /\ broadcastJobs \in [Servers -> Seq(Job)]
  /\ \A s \in Servers :
       /\ publishing[s] \in [1..RedisWorkerCount[s] -> Call \cup {Idle}]
       /\ broadcasting[s] \in [1..WorkerCount[s] -> Job \cup {Idle}]
       /\ Len(Broadcast[s]) <= BroadcastBufferSize
       /\ Len(redisPublishJobs[s]) <= RedisPublishBufferSize
       /\ Len(broadcastJobs[s]) <= JobBufferSize
  /\ wire \subseteq Messages
  /\ faults \in 0..MaxFaults
  /\ accepted \in [Servers -> Seq(Messages)]
  /\ audience \in [Messages -> SUBSET Clients]
  /\ arrivals \in [Messages -> [Clients -> Nat]]
  /\ carried \in [Messages -> Nat]
  /\ degraded \subseteq Messages
  /\ lost \subseteq Messages \X (Servers \cup Clients)

Init ==
  /\ phase = [c \in Clients |-> IF c \in Present THEN "inside" ELSE "outside"]
  /\ seen = [c \in Clients |-> <<>>]
  /\ sub \in [Clients -> {"none", "active"}]
  /\ \A c \in Clients :
       Cardinality({d \in Clients : Same(c, d) /\ sub[d] = "active"})
         = IF Members(Home[c], RoomOf[c]) = {} THEN 0 ELSE 1
  /\ \A c \in Clients : sub[c] = "active" => c \in Present
  /\ channel = [c \in Clients |-> <<>>]
  /\ Broadcast = [s \in Servers |-> <<>>]
  /\ redisPublishJobs = [s \in Servers |-> <<>>]
  /\ publishing = [s \in Servers |-> [w \in 1..RedisWorkerCount[s] |-> Idle]]
  /\ broadcastJobs = [s \in Servers |-> <<>>]
  /\ broadcasting = [s \in Servers |-> [w \in 1..WorkerCount[s] |-> Idle]]
  /\ wire = {}
  /\ faults = 0
  /\ accepted = [s \in Servers |-> <<>>]
  /\ audience = [m \in Messages |-> {}]
  /\ arrivals = [m \in Messages |-> [c \in Clients |-> 0]]
  /\ carried = [m \in Messages |-> 0]
  /\ degraded = {}
  /\ lost = {}

(* Departures and faults share one bound. *)
Disturb ==
  /\ faults < MaxFaults
  /\ faults' = faults + 1
-----------------------------------------------------------------------------
(* Rooms: handleRegister and handleUnregister *)

Register(c) ==
  /\ phase[c] = "outside"
  /\ phase' = [phase EXCEPT ![c] = "inside"]
  /\ sub' = IF Members(Home[c], RoomOf[c]) = {}
              THEN [sub EXCEPT ![c] = "connecting"]
              ELSE sub
  /\ UNCHANGED <<redis, ingress, locals, workers, publish>>

(* The subscription a room has now. *)
Current(d, c) ==
  /\ Same(c, d)
  /\ sub[d] \in {"connecting", "active"}

Unregister(c) ==
  /\ phase[c] = "inside"
  /\ Disturb
  /\ phase' = [phase EXCEPT ![c] = "left"]
  /\ sub' = IF Members(Home[c], RoomOf[c]) = {c}
              THEN [d \in Clients |-> IF Current(d, c) THEN "cancelled"
                                                      ELSE sub[d]]
              ELSE sub
  /\ UNCHANGED <<wire, channel, arrivals, carried, ingress, locals, workers,
                 publish>>
-----------------------------------------------------------------------------
(* Local broadcasts *)

(* Variant: the job waits for room in the queue that is not there. *)
EnqueueLocalBroadcastUnbounded(s, r, m) ==
  IF Members(s, r) = {}
  THEN UNCHANGED locals
  ELSE /\ broadcastJobs' = [broadcastJobs EXCEPT
              ![s] = Append(@, [message |-> m, clients |-> Members(s, r)])]
       /\ UNCHANGED lost

(* The snapshot is taken and the job put into the queue, or dropped when    *)
(* the queue is full.                                                      *)
EnqueueLocalBroadcast(s, r, m) ==
  IF Members(s, r) = {}
  THEN UNCHANGED locals
  ELSE IF Len(broadcastJobs[s]) < JobBufferSize
  THEN /\ broadcastJobs' = [broadcastJobs EXCEPT
              ![s] = Append(@, [message |-> m, clients |-> Members(s, r)])]
       /\ UNCHANGED lost
  ELSE /\ lost' = lost \cup {<<m, s>>}
       /\ UNCHANGED broadcastJobs

TakeBroadcastJob(s, w) ==
  /\ broadcasting[s][w] = Idle
  /\ broadcastJobs[s] # <<>>
  /\ broadcasting' = [broadcasting EXCEPT ![s][w] = Head(broadcastJobs[s])]
  /\ broadcastJobs' = [broadcastJobs EXCEPT ![s] = Tail(@)]
  /\ UNCHANGED <<members, redis, ingress, lost, seen, publish>>

(* safeSend to every client of the snapshot: its buffer takes the message,  *)
(* or is full.  No client sees what another one's buffer does.             *)
BroadcastWorker(s, w) ==
  /\ broadcasting[s][w] # Idle
  /\ LET job == broadcasting[s][w] IN
     \E full \in SUBSET (job.clients \cap Slow) :
       /\ seen' = [c \in Clients |-> IF c \in job.clients \ full
                                      THEN Append(seen[c], job.message)
                                      ELSE seen[c]]
       /\ lost' = lost \cup {<<job.message, c>> : c \in full}
  /\ broadcasting' = [broadcasting EXCEPT ![s][w] = Idle]
  /\ UNCHANGED <<members, redis, ingress, broadcastJobs, publish>>
-----------------------------------------------------------------------------
(* From the ingress to Redis *)

(* A message that finds the queue full is refused and leaves no trace.  An *)
(* accepted one also goes to the persister, which is not modelled.         *)
SubmitDanmaku(m) ==
  LET s == Origin(m) IN
  /\ phase[Sender[m]] = "inside"
  /\ m \notin Range(accepted[s])
  /\ Len(Broadcast[s]) < BroadcastBufferSize
  /\ Broadcast' = [Broadcast EXCEPT ![s] = Append(@, m)]
  /\ accepted' = [accepted EXCEPT ![s] = Append(@, m)]
  /\ audience' = [audience EXCEPT ![m] =
        {c \in Clients : phase[c] = "inside" /\ RoomOf[c] = Room(m)}]
  /\ UNCHANGED <<members, redis, locals, workers, publish>>

FallBack(s, m) ==
  /\ degraded' = degraded \cup {m}
  /\ EnqueueLocalBroadcast(s, Room(m), m)

(* Variant: broadcast to the server's own clients as well as published. *)
HandleBroadcastBoth(s) ==
  /\ Broadcast[s] # <<>>
  /\ Broadcast' = [Broadcast EXCEPT ![s] = Tail(@)]
  /\ IF Len(redisPublishJobs[s]) < RedisPublishBufferSize
     THEN redisPublishJobs' = [redisPublishJobs EXCEPT
             ![s] = Append(@, Head(Broadcast[s]))]
     ELSE UNCHANGED redisPublishJobs
  /\ EnqueueLocalBroadcast(s, Room(Head(Broadcast[s])), Head(Broadcast[s]))
  /\ UNCHANGED <<members, redis, accepted, audience, workers, publishing,
                 degraded>>

HandleBroadcast(s) ==
  /\ Broadcast[s] # <<>>
  /\ Broadcast' = [Broadcast EXCEPT ![s] = Tail(@)]
  /\ IF Len(redisPublishJobs[s]) < RedisPublishBufferSize
     THEN /\ redisPublishJobs' = [redisPublishJobs EXCEPT
                 ![s] = Append(@, Head(Broadcast[s]))]
          /\ UNCHANGED <<locals, degraded>>
     ELSE /\ FallBack(s, Head(Broadcast[s]))
          /\ UNCHANGED redisPublishJobs
  /\ UNCHANGED <<members, redis, accepted, audience, workers, publishing>>

TakePublishJob(s, w) ==
  /\ publishing[s][w] = Idle
  /\ redisPublishJobs[s] # <<>>
  /\ redisPublishJobs' = [redisPublishJobs EXCEPT ![s] = Tail(@)]

(* The breaker lets the call through, and the command is sent. *)
Publish(s, w) ==
  /\ TakePublishJob(s, w)
  /\ LET m == Head(redisPublishJobs[s]) IN
       /\ publishing' = [publishing EXCEPT ![s][w] =
                           [message |-> m, answer |-> FALSE]]
       /\ wire' = wire \cup {m}
  /\ UNCHANGED <<members, channel, arrivals, carried, faults, ingress, locals,
                 workers, degraded>>

(* Variant: an open circuit drops the message. *)
CircuitOpenDropping(s, w) ==
  /\ TakePublishJob(s, w)
  /\ UNCHANGED <<members, redis, ingress, locals, workers, publishing,
                 degraded>>

(* The breaker refuses the call. *)
CircuitOpen(s, w) ==
  /\ TakePublishJob(s, w)
  /\ FallBack(s, Head(redisPublishJobs[s]))
  /\ UNCHANGED <<members, redis, ingress, workers, publishing>>

Published(s, w) ==
  /\ publishing[s][w] # Idle
  /\ publishing[s][w].answer
  /\ publishing' = [publishing EXCEPT ![s][w] = Idle]
  /\ UNCHANGED <<members, redis, ingress, locals, workers, redisPublishJobs,
                 degraded>>

(* The call fails; its command may have been carried out already, may be   *)
(* carried out later, or never.                                            *)
PublishFails(s, w) ==
  /\ publishing[s][w] # Idle
  /\ Disturb
  /\ wire' \in {wire, wire \ {publishing[s][w].message}}
  /\ FallBack(s, publishing[s][w].message)
  /\ publishing' = [publishing EXCEPT ![s][w] = Idle]
  /\ UNCHANGED <<members, channel, arrivals, carried, ingress, workers,
                 redisPublishJobs>>
-----------------------------------------------------------------------------
(* Redis and the subscriptions *)

(* A cancelled subscription is in Redis until its goroutine closes it. *)
Subscribed(c, m) == RoomOf[c] = Room(m) /\ sub[c] \in {"active", "cancelled"}

CarryOut(m) ==
  /\ m \in wire
  /\ channel' = [c \in Clients |-> IF Subscribed(c, m)
                                     THEN Append(channel[c], m)
                                     ELSE channel[c]]
  /\ arrivals' = [arrivals EXCEPT ![m] =
        [c \in Clients |-> IF Subscribed(c, m) THEN @[c] + 1 ELSE @[c]]]
  /\ carried' = [carried EXCEPT ![m] = @ + 1]
  /\ publishing' = [s \in Servers |-> [w \in 1..RedisWorkerCount[s] |->
        LET call == publishing[s][w] IN
        IF call # Idle /\ call.message = m
        THEN [call EXCEPT !.answer = TRUE] ELSE call]]
  /\ \/ /\ wire' = wire \ {m}
        /\ UNCHANGED faults
     \/ /\ Disturb                       \* the client has sent it twice
        /\ UNCHANGED wire
  /\ UNCHANGED <<members, ingress, locals, workers, redisPublishJobs, degraded>>

Subscribe(c) ==
  /\ sub[c] = "connecting"
  /\ sub' = [sub EXCEPT ![c] = "active"]
  /\ UNCHANGED <<phase, redis, ingress, locals, workers, publish>>

(* The connection of a subscription breaks; the client connects again. *)
SubscriptionBreaks(c) ==
  /\ sub[c] = "active"
  /\ Disturb
  /\ sub' = [sub EXCEPT ![c] = "connecting"]
  /\ UNCHANGED <<phase, channel, arrivals, carried, wire, ingress, locals,
                 workers, publish>>

(* Variant: each message is handled in a goroutine of its own. *)
ReceiveConcurrently(c) ==
  /\ sub[c] \in {"connecting", "active", "cancelled"}
  /\ \E i \in 1..Len(channel[c]) :
       /\ channel' = [channel EXCEPT ![c] = RemoveAt(@, i)]
       /\ EnqueueLocalBroadcast(Home[c], RoomOf[c], channel[c][i])
  /\ UNCHANGED <<members, wire, arrivals, carried, faults, ingress, workers,
                 publish>>

(* Select takes a message although the context may be done. *)
Receive(c) ==
  /\ sub[c] \in {"connecting", "active", "cancelled"}
  /\ channel[c] # <<>>
  /\ channel' = [channel EXCEPT ![c] = Tail(@)]
  /\ EnqueueLocalBroadcast(Home[c], RoomOf[c], Head(channel[c]))
  /\ UNCHANGED <<members, wire, arrivals, carried, faults, ingress, workers,
                 publish>>

SubscriptionEnds(c) ==
  /\ sub[c] = "cancelled"
  /\ sub' = [sub EXCEPT ![c] = "ended"]
  /\ channel' = [channel EXCEPT ![c] = <<>>]
  /\ UNCHANGED <<phase, wire, arrivals, carried, faults, ingress, locals,
                 workers, publish>>
-----------------------------------------------------------------------------
Next ==
  \/ \E s \in Servers :
       \/ HandleBroadcast(s)
       \/ \E w \in 1..RedisWorkerCount[s] :
            \/ Publish(s, w) \/ CircuitOpen(s, w)
            \/ Published(s, w) \/ PublishFails(s, w)
       \/ \E w \in 1..WorkerCount[s] :
            TakeBroadcastJob(s, w) \/ BroadcastWorker(s, w)
  \/ \E c \in Clients :
       \/ Register(c) \/ Unregister(c) \/ Receive(c)
       \/ Subscribe(c) \/ SubscriptionBreaks(c) \/ SubscriptionEnds(c)
  \/ \E m \in Messages : SubmitDanmaku(m) \/ CarryOut(m)

Spec == Init /\ [][Next]_vars
-----------------------------------------------------------------------------
Times(q, m) == Cardinality({i \in 1..Len(q) : q[i] = m})

Accepted(m) == m \in Range(accepted[Origin(m)])

(* Each time Redis sent m to a subscription of c's room on c's server. *)
Arrivals(c, m) ==
  UNION {{d} \X (1..arrivals[m][d]) : d \in {e \in Clients : Same(c, e)}}

Pending(m) ==
  \/ m \in wire
  \/ \E s \in Servers :
       \/ m \in Range(Broadcast[s]) \cup Range(redisPublishJobs[s])
       \/ \E w \in 1..RedisWorkerCount[s] :
            publishing[s][w] # Idle /\ publishing[s][w].message = m
       \/ \E job \in Range(broadcastJobs[s]) : job.message = m
       \/ \E w \in 1..WorkerCount[s] :
            broadcasting[s][w] # Idle /\ broadcasting[s][w].message = m
  \/ \E c \in Clients : m \in Range(channel[c])

(* A client sees only accepted messages of its own room, each at most once *)
(* for every time Redis gave it to a subscription of that room on the      *)
(* client's server, and once more where that server is the sender's and    *)
(* fell back to a local broadcast.  So nobody sees anything twice unless a *)
(* command was carried out twice, a call that took effect failed, or an    *)
(* old subscription of the room was still delivering next to the new one.  *)
CopiesAreExplained ==
  \A c \in Clients, m \in Messages :
    /\ m \in Range(seen[c]) => Accepted(m) /\ RoomOf[c] = Room(m)
    /\ Times(seen[c], m)
         <= Cardinality(Arrivals(c, m))
              + (IF m \in degraded /\ Home[c] = Origin(m) THEN 1 ELSE 0)

(* Once nothing of a message is on its way, every client that was in the   *)
(* room when it was accepted, and still is, has got it, unless a full      *)
(* queue or buffer dropped it, its sender's server had to broadcast it to  *)
(* its own clients only, or the subscription of the client's server was    *)
(* not active yet, or lost, each time Redis carried the message out.       *)
LossIsExplained ==
  \A m \in Messages : ~Pending(m) =>
    \A c \in audience[m] : phase[c] = "inside" =>
      \/ m \in Range(seen[c])
      \/ <<m, c>> \in lost
      \/ <<m, Home[c]>> \in lost
      \/ m \in degraded /\ Home[c] # Origin(m)
      \/ /\ m \notin degraded
         /\ carried[m] > 0
         /\ \A d \in Clients : Current(d, c) => arrivals[m][d] = 0

(* With one publish worker where they come from and one broadcast worker   *)
(* where they go to, two messages of a room are first seen in the order in *)
(* which they were accepted, unless one of them was degraded or sent twice *)
(* or two subscriptions of the room overlapped.                            *)
OrderIsKept ==
  \A c \in Clients, s \in Servers :
    RedisWorkerCount[s] = 1 /\ WorkerCount[Home[c]] = 1 =>
      \A i, j \in 1..Len(accepted[s]) :
        LET first == accepted[s][i]
            second == accepted[s][j]
        IN (/\ i < j
            /\ {first, second} \cap degraded = {}
            /\ carried[first] <= 1 /\ carried[second] <= 1
            /\ Cardinality({d \in Clients :
                    /\ Same(c, d)
                    /\ arrivals[first][d] + arrivals[second][d] > 0}) <= 1)
           => \A l \in 1..Len(seen[c]) :
                seen[c][l] = second =>
                  \A k \in (l + 1)..Len(seen[c]) : seen[c][k] # first
=============================================================================
