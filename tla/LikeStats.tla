----------------------------- MODULE LikeStats -----------------------------
(***************************************************************************)
(* Likes on one V10 server (src/v10/internal/ws/manager.go): AddLike in    *)
(* the readers' goroutines, the statistics goroutine that drains the       *)
(* increments and carries them to Redis room by room, and the rooms        *)
(* appearing and disappearing under it.                                    *)
(*                                                                         *)
(* A room is seen through its clients as a whole: somebody's reader is     *)
(* running before handleRegister has entered the room, the room is in      *)
(* Manager.rooms, or nobody is there.  A call to Redis can fail or be      *)
(* refused by the circuit breaker.  INCRBY is not idempotent, and the      *)
(* client keeps its default of resending a command whose answer did not    *)
(* come (InitRedisClient): a copy sent this way may still be carried out,  *)
(* while the call goes on, after it has succeeded with another copy, or    *)
(* long after it has failed.  Each critical section of likesMu and each    *)
(* answer of Redis is one step; what a failed call leads to is in its      *)
(* step, since restoreLikeDelta and AddLike, both additions under the      *)
(* lock, commute.                                                          *)
(***************************************************************************)
EXTENDS Naturals

CONSTANTS
  Rooms,
  Steady,               \* rooms that are never empty
  NoRoom,
  Counts,               \* the clamped counts of like packets
  MaxLikes,             \* bound on the likes given in a room
  MaxStrays             \* bound on the copies of an INCRBY without an answer

ASSUME Assumptions ==
  /\ Steady \subseteq Rooms
  /\ NoRoom \notin Rooms
  /\ Counts \subseteq Nat \ {0}
  /\ MaxLikes \in Nat
  /\ MaxStrays \in Nat

VARIABLES
  presence,             \* of each room: absent, joining or joined
  localLikes,           \* increments not drained yet
  localLikeTotals,      \* everything AddLike was ever given
  redisLikes,           \* the counter of the room in Redis
  pc,                   \* where broadcastStats is
  deltas,               \* its likeDeltas
  todo,                 \* rooms of localRooms it has not come to
  room,                 \* the room it is at
  likeFlushed,          \* of that room
  shown,                \* the likes last broadcast in each room
  strays,               \* copies of an INCRBY sent without an answer, so far
  wire,                 \* those of them that may still be carried out
  uncertain             \* of each room: the sum of those carried out

likes == <<localLikes, localLikeTotals>>
stats == <<pc, deltas, todo, room, likeFlushed>>
copies == <<strays, wire, uncertain>>
vars  == <<presence, likes, redisLikes, stats, shown, copies>>

Copy == [id : 1..MaxStrays, room : Rooms, delta : Nat]

TypeOK ==
  /\ presence \in [Rooms -> {"absent", "joining", "joined"}]
  /\ localLikes \in [Rooms -> Nat]
  /\ localLikeTotals \in [Rooms -> 0..MaxLikes]
  /\ redisLikes \in [Rooms -> Nat]
  /\ pc \in {"idle", "counted", "loop", "increment", "read"}
  /\ deltas \in [Rooms -> Nat]
  /\ todo \subseteq Rooms
  /\ room \in Rooms \cup {NoRoom}
  /\ room = NoRoom <=> pc \notin {"increment", "read"}
  /\ likeFlushed \in BOOLEAN
  /\ shown \in [Rooms -> Nat]
  /\ strays \in 0..MaxStrays
  /\ wire \subseteq Copy
  /\ uncertain \in [Rooms -> Nat]

Zero == [r \in Rooms |-> 0]

Init ==
  /\ presence = [r \in Rooms |-> IF r \in Steady THEN "joined" ELSE "absent"]
  /\ localLikes = Zero
  /\ localLikeTotals = Zero
  /\ redisLikes = Zero
  /\ pc = "idle"
  /\ deltas = Zero
  /\ todo = {}
  /\ room = NoRoom
  /\ likeFlushed = FALSE
  /\ shown = Zero
  /\ strays = 0
  /\ wire = {}
  /\ uncertain = Zero

-----------------------------------------------------------------------------
(* Clients *)

(* ServeWS: the manager has taken the client from Register and ReadPump    *)
(* runs; handleRegister may still be waiting for the lock.                 *)
Join(r) ==
  /\ presence[r] = "absent"
  /\ presence' = [presence EXCEPT ![r] = "joining"]
  /\ UNCHANGED <<likes, redisLikes, stats, shown, copies>>

HandleRegister(r) ==
  /\ presence[r] = "joining"
  /\ presence' = [presence EXCEPT ![r] = "joined"]
  /\ UNCHANGED <<likes, redisLikes, stats, shown, copies>>

(* The last reader has ended and the manager deletes the room. *)
HandleUnregister(r) ==
  /\ r \notin Steady
  /\ presence[r] = "joined"
  /\ presence' = [presence EXCEPT ![r] = "absent"]
  /\ UNCHANGED <<likes, redisLikes, stats, shown, copies>>

AddLike(r, count) ==
  /\ presence[r] # "absent"
  /\ localLikeTotals[r] + count <= MaxLikes
  /\ localLikes' = [localLikes EXCEPT ![r] = @ + count]
  /\ localLikeTotals' = [localLikeTotals EXCEPT ![r] = @ + count]
  /\ UNCHANGED <<presence, redisLikes, stats, shown, copies>>
-----------------------------------------------------------------------------
(* broadcastStats.  statsRunning lets one run at a time. *)

(* A tick with no room returns before anything is drained. *)
SnapshotRoomCounts ==
  /\ pc = "idle"
  /\ todo' = {r \in Rooms : presence[r] = "joined"}
  /\ todo' # {}
  /\ pc' = "counted"
  /\ UNCHANGED <<presence, likes, redisLikes, deltas, room, likeFlushed, shown,
                 copies>>

(* Variant: the increments are copied, and the map is left as it is. *)
CopyLocalLikeDeltas ==
  /\ pc = "counted"
  /\ deltas' = localLikes
  /\ pc' = "loop"
  /\ UNCHANGED <<presence, likes, redisLikes, todo, room, likeFlushed, shown,
                 copies>>

DrainLocalLikeDeltas ==
  /\ pc = "counted"
  /\ deltas' = localLikes
  /\ localLikes' = Zero
  /\ pc' = "loop"
  /\ UNCHANGED <<presence, localLikeTotals, redisLikes, todo, room, likeFlushed,
                 shown, copies>>

NextRoom(r) ==
  /\ pc = "loop"
  /\ r \in todo
  /\ room' = r
  /\ todo' = todo \ {r}
  /\ likeFlushed' = FALSE
  /\ pc' = IF deltas[r] > 0 THEN "increment" ELSE "read"
  /\ UNCHANGED <<presence, likes, redisLikes, deltas, shown, copies>>

(* Variant: the loop variable survives its round. *)
RoomDoneKept ==
  /\ deltas' = [deltas EXCEPT ![room] = 0]
  /\ likeFlushed' = FALSE
  /\ pc' = "loop"
  /\ UNCHANGED room

(* The loop goes on to the next room, its delta behind it. *)
RoomDone ==
  /\ deltas' = [deltas EXCEPT ![room] = 0]
  /\ room' = NoRoom
  /\ likeFlushed' = FALSE
  /\ pc' = "loop"

(* loadDistributedStats returned an error: an increment that is not known  *)
(* to be in Redis is put back, and the local total is shown.               *)
UseLocalStats ==
  /\ RoomDone
  /\ localLikes' = IF likeFlushed THEN localLikes
                   ELSE [localLikes EXCEPT ![room] = @ + deltas[room]]
  /\ shown' = [shown EXCEPT ![room] = localLikeTotals[room]]

(* The answer of an INCRBY comes. *)
IncrRoomLikes ==
  /\ pc = "increment"
  /\ redisLikes' = [redisLikes EXCEPT ![room] = @ + deltas[room]]
  /\ likeFlushed' = TRUE
  /\ pc' = "read"
  /\ UNCHANGED <<presence, likes, deltas, todo, room, shown, copies>>

(* The connection breaks or its deadline passes after a copy of INCRBY has *)
(* been sent.  The client sends the next one, or the call fails.           *)
IncrUnanswered ==
  /\ pc = "increment"
  /\ strays < MaxStrays
  /\ strays' = strays + 1
  /\ wire' = wire \cup
       {[id |-> strays + 1, room |-> room, delta |-> deltas[room]]}
  /\ UNCHANGED <<presence, likes, redisLikes, stats, shown, uncertain>>

(* Redis carries out such a copy after all. *)
CarryOut(c) ==
  /\ c \in wire
  /\ wire' = wire \ {c}
  /\ redisLikes' = [redisLikes EXCEPT ![c.room] = @ + c.delta]
  /\ uncertain' = [uncertain EXCEPT ![c.room] = @ + c.delta]
  /\ UNCHANGED <<presence, likes, stats, shown, strays>>

(* Variant: an error puts the increment back although Redis has it. *)
CallFailsRestoring ==
  /\ pc \in {"increment", "read"}
  /\ RoomDone
  /\ localLikes' = [localLikes EXCEPT ![room] = @ + deltas[room]]
  /\ shown' = [shown EXCEPT ![room] = localLikeTotals[room]]
  /\ UNCHANGED <<presence, localLikeTotals, redisLikes, todo, copies>>

(* Variant: a failed increment is forgotten. *)
CallFailsForgetting ==
  /\ pc \in {"increment", "read"}
  /\ RoomDone
  /\ shown' = [shown EXCEPT ![room] = localLikeTotals[room]]
  /\ UNCHANGED <<presence, likes, redisLikes, todo, copies>>

(* The breaker refused, or UpdateServerOnline, INCRBY, GetTotalOnline or   *)
(* GetRoomLikes failed.                                                    *)
CallFails ==
  /\ pc \in {"increment", "read"}
  /\ UseLocalStats
  /\ UNCHANGED <<presence, localLikeTotals, redisLikes, todo, copies>>

GetRoomLikes ==
  /\ pc = "read"
  /\ shown' = [shown EXCEPT ![room] = redisLikes[room]]
  /\ RoomDone
  /\ UNCHANGED <<presence, likes, redisLikes, todo, copies>>

(* Variant: statsRunning is never reset. *)
FinishStillRunning ==
  /\ pc = "loop"
  /\ todo = {}
  /\ deltas' = Zero
  /\ pc' = "running"
  /\ UNCHANGED <<presence, likes, redisLikes, todo, room, likeFlushed, shown,
                 copies>>

(* broadcastStats returns; what is left of likeDeltas goes with it. *)
Finish ==
  /\ pc = "loop"
  /\ todo = {}
  /\ deltas' = Zero
  /\ pc' = "idle"
  /\ UNCHANGED <<presence, likes, redisLikes, todo, room, likeFlushed, shown,
                 copies>>
-----------------------------------------------------------------------------
ClientStep(r) ==
  \/ Join(r)
  \/ HandleRegister(r)
  \/ HandleUnregister(r)
  \/ \E count \in Counts : AddLike(r, count)

StatsStep ==
  \/ SnapshotRoomCounts
  \/ DrainLocalLikeDeltas
  \/ \E r \in Rooms : NextRoom(r)
  \/ IncrRoomLikes
  \/ IncrUnanswered
  \/ CallFails
  \/ GetRoomLikes
  \/ Finish

Next ==
  \/ \E r \in Rooms : ClientStep(r)
  \/ StatsStep
  \/ \E c \in wire : CarryOut(c)

Spec == Init /\ [][Next]_vars

(* The ticker keeps ticking and every call to Redis ends; of unboundedly   *)
(* many attempts to carry a room's increment to Redis one succeeds.  A     *)
(* copy without an answer may never be carried out.                        *)
LiveSpec ==
  /\ Spec
  /\ WF_vars(StatsStep)
  /\ \A r \in Rooms : SF_vars(room = r /\ IncrRoomLikes)
-----------------------------------------------------------------------------
(* Properties *)

(* What the statistics goroutine has taken out of localLikes for room r    *)
(* and still carries.                                                      *)
Carried(r) == IF room = r /\ likeFlushed THEN 0 ELSE deltas[r]

Known(r) == redisLikes[r] + localLikes[r] + Carried(r)

(* Likes given while a tick is under way, put back after a failure, or     *)
(* flushed before a failing read are not counted twice by the server.      *)
(* Redis counts beyond the likes given at most the copies of an INCRBY     *)
(* that it carried out and whose answer never came: it cannot know that    *)
(* the client sends the command again (IncrRoomLikes), or that the server  *)
(* puts back an increment whose call it takes for failed.                  *)
NothingCountedTwice ==
  \A r \in Rooms : Known(r) <= localLikeTotals[r] + uncertain[r]

(* A room that keeps a client loses no like, whatever Redis does and       *)
(* whichever rooms around it come and go.                                  *)
SteadyRoomsKeepLikes ==
  \A r \in Steady : Known(r) >= localLikeTotals[r]

(* The number shown to a room exceeds the likes given in it at most by     *)
(* those copies, whether it comes from Redis or, on an error, from         *)
(* localLikeTotals (broadcastStats; the comment at the field speaks of a   *)
(* server without Redis only).                                             *)
ShownIsEarned ==
  \A r \in Rooms : shown[r] <= localLikeTotals[r] + uncertain[r]

(* v9/README 8.5: an outage only delays the global counter.                *)
LikesReachRedis ==
  \A r \in Steady : <>[](redisLikes[r] >= localLikeTotals[r])

(* "localLikes stores unflushed like deltas" (manager.go): what is in      *)
(* neither Redis nor a tick's hands is in localLikes, in every room.       *)
UnflushedLikesAreStored ==
  \A r \in Rooms : Known(r) >= localLikeTotals[r]
=============================================================================
