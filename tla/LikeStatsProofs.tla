--------------------------- MODULE LikeStatsProofs ---------------------------
(***************************************************************************)
(* LikeStats for any rooms, like counts and bounds.                        *)
(*                                                                         *)
(* The accounting properties lean on where the statistics goroutine is:    *)
(* between two runs it carries nothing (HandsEmpty), it reads a total only *)
(* with no increment left to flush (NotYetFlushed), and a room that keeps a client is *)
(* either still ahead of it or already served (SteadyAhead), so that what  *)
(* Finish throws away never belongs to such a room.                        *)
(***************************************************************************)
EXTENDS LikeStats, TLAPS

HandsEmpty == pc \in {"idle", "counted"} => deltas = Zero

NotYetFlushed ==
  /\ pc = "increment" => ~likeFlushed
  /\ pc = "read" /\ ~likeFlushed => deltas[room] = 0

SteadyAhead ==
  \A r \in Steady :
    /\ presence[r] = "joined"
    /\ pc = "counted" => r \in todo
    /\ pc \in {"loop", "increment", "read"} =>
         r \in todo \/ r = room \/ deltas[r] = 0

Control == HandsEmpty /\ NotYetFlushed /\ SteadyAhead

Accounts == NothingCountedTwice /\ SteadyRoomsKeepLikes /\ ShownIsEarned

IInv == TypeOK /\ Control /\ Accounts

(* The counters of one room as naturals. *)
LEMMA Counters ==
  ASSUME TypeOK, NEW r \in Rooms
  PROVE  /\ localLikes[r] \in Nat /\ localLikeTotals[r] \in Nat
         /\ redisLikes[r] \in Nat /\ deltas[r] \in Nat
         /\ shown[r] \in Nat /\ uncertain[r] \in Nat
         /\ Carried(r) \in Nat
BY Assumptions DEF TypeOK, Carried

LEMMA InitEstablishes == Init => IInv
<1> SUFFICES ASSUME Init
             PROVE  IInv
  OBVIOUS
<1>1. TypeOK
  <2>1. 0 \in 0..MaxLikes /\ 0 \in 0..MaxStrays
    BY Assumptions
  <2>2. Zero \in [Rooms -> Nat] /\ Zero \in [Rooms -> 0..MaxLikes]
    BY <2>1 DEF Zero
  <2>3. presence \in [Rooms -> {"absent", "joining", "joined"}]
    BY DEF Init
  <2> QED
    BY <2>1, <2>2, <2>3 DEF Init, TypeOK
<1>2. Control
  <2>1. \A r \in Steady : presence[r] = "joined"
    BY Assumptions DEF Init
  <2> QED
    BY <2>1 DEF Init, Control, HandsEmpty, NotYetFlushed, SteadyAhead
<1>3. \A r \in Rooms : Known(r) = 0 /\ localLikeTotals[r] = 0 /\ shown[r] = 0
                       /\ uncertain[r] = 0
  <2> SUFFICES ASSUME NEW r \in Rooms
               PROVE  Known(r) = 0 /\ localLikeTotals[r] = 0 /\ shown[r] = 0
                      /\ uncertain[r] = 0
    OBVIOUS
  <2>1. Zero[r] = 0
    BY DEF Zero
  <2>2. deltas[r] = 0 /\ redisLikes[r] = 0 /\ localLikes[r] = 0
        /\ localLikeTotals[r] = 0 /\ shown[r] = 0 /\ uncertain[r] = 0
    BY <2>1 DEF Init
  <2>3. Carried(r) = 0
    BY <2>2 DEF Carried
  <2> QED
    BY <2>2, <2>3 DEF Known
<1>4. Accounts
  BY <1>3, Assumptions
  DEF Accounts, NothingCountedTwice, SteadyRoomsKeepLikes, ShownIsEarned
<1> QED
  BY <1>1, <1>2, <1>4 DEF IInv

(* A step that leaves every counter of the accounts alone keeps them.      *)
LEMMA AccountsKept ==
  ASSUME IInv,
         UNCHANGED <<likes, redisLikes, shown, uncertain>>,
         \A r \in Rooms : Carried(r)' = Carried(r)
  PROVE  Accounts'
<1>1. \A r \in Rooms : Known(r)' = Known(r)
  BY DEF Known, likes
<1>2. NothingCountedTwice' /\ ShownIsEarned'
  BY <1>1 DEF IInv, Accounts, NothingCountedTwice, ShownIsEarned, likes
<1>3. SteadyRoomsKeepLikes'
  BY <1>1, Assumptions DEF IInv, Accounts, SteadyRoomsKeepLikes, likes
<1> QED
  BY <1>2, <1>3 DEF Accounts

(* Accounts balance again if each room's known likes grow as much as the   *)
(* likes given and the uncertain increments together.                      *)
LEMMA AccountsBalance ==
  ASSUME IInv, TypeOK',
         \A r \in Rooms :
           /\ localLikeTotals'[r] >= localLikeTotals[r]
           /\ uncertain'[r] >= uncertain[r]
           /\ Known(r)' <= localLikeTotals'[r] + uncertain'[r]
           /\ Known(r)' + localLikeTotals[r] >= Known(r) + localLikeTotals'[r]
           /\ shown'[r] <= localLikeTotals'[r] + uncertain'[r]
  PROVE  Accounts'
<1>1. NothingCountedTwice' /\ ShownIsEarned'
  BY DEF NothingCountedTwice, ShownIsEarned
<1>2. SteadyRoomsKeepLikes'
  <2> SUFFICES ASSUME NEW r \in Steady
               PROVE  Known(r)' >= localLikeTotals'[r]
    BY DEF SteadyRoomsKeepLikes
  <2>1. r \in Rooms
    BY Assumptions
  <2>2. Known(r) \in Nat /\ localLikeTotals[r] \in Nat
    BY <2>1, Counters DEF IInv, Known
  <2>3. redisLikes'[r] \in Nat /\ localLikes'[r] \in Nat
        /\ localLikeTotals'[r] \in Nat /\ Carried(r)' \in Nat
    BY <2>1, Assumptions DEF TypeOK, Carried
  <2>4. Known(r) >= localLikeTotals[r]
    BY DEF IInv, Accounts, SteadyRoomsKeepLikes
  <2>5. Known(r)' \in Nat
    BY <2>3 DEF Known
  <2>6. Known(r)' + localLikeTotals[r] >= Known(r) + localLikeTotals'[r]
    BY <2>1
  <2> QED
    BY <2>2, <2>3, <2>4, <2>5, <2>6
<1> QED
  BY <1>1, <1>2 DEF Accounts

(* Clients coming and going, and the manager entering and leaving rooms.   *)
LEMMA PresenceStep ==
  ASSUME IInv, NEW r \in Rooms, Join(r) \/ HandleRegister(r) \/ HandleUnregister(r)
  PROVE  IInv'
<1>1. UNCHANGED <<likes, redisLikes, stats, shown, strays, wire,
                     uncertain>>
  BY DEF Join, HandleRegister, HandleUnregister, copies
<1>2. presence' \in [Rooms -> {"absent", "joining", "joined"}]
  BY DEF Join, HandleRegister, HandleUnregister, IInv, TypeOK
<1>3. TypeOK'
  BY <1>1, <1>2 DEF IInv, TypeOK, likes, stats
<1>4. \A s \in Steady : presence'[s] = "joined"
  BY Assumptions
  DEF Join, HandleRegister, HandleUnregister, IInv, TypeOK, Control, SteadyAhead
<1>5. Control'
  BY <1>1, <1>4
  DEF IInv, Control, HandsEmpty, NotYetFlushed, SteadyAhead, stats
<1>6. Accounts'
  BY <1>1, AccountsKept DEF stats, Carried, likes
<1> QED
  BY <1>3, <1>5, <1>6 DEF IInv

LEMMA AddLikeStep ==
  ASSUME IInv, NEW r \in Rooms, NEW count \in Counts, AddLike(r, count)
  PROVE  IInv'
<1>1. UNCHANGED <<presence, redisLikes, stats, shown, strays, wire,
                     uncertain>>
      /\ count \in Nat
  BY Assumptions DEF AddLike, copies
<1>2. /\ localLikes' = [localLikes EXCEPT ![r] = localLikes[r] + count]
      /\ localLikeTotals' = [localLikeTotals EXCEPT ![r] = localLikeTotals[r] + count]
      /\ localLikeTotals[r] + count <= MaxLikes
  BY DEF AddLike
<1>3. localLikes[r] + count \in Nat /\ localLikeTotals[r] + count \in 0..MaxLikes
  BY <1>1, <1>2, Counters, Assumptions DEF IInv
<1>4. TypeOK'
  BY <1>1, <1>2, <1>3 DEF IInv, TypeOK, stats
<1>5. Control'
  BY <1>1 DEF IInv, Control, HandsEmpty, NotYetFlushed, SteadyAhead, stats
<1>6. Accounts'
  <2>1. ASSUME NEW s \in Rooms
        PROVE  /\ localLikeTotals'[s] >= localLikeTotals[s]
               /\ uncertain'[s] >= uncertain[s]
               /\ Known(s)' <= localLikeTotals'[s] + uncertain'[s]
               /\ Known(s)' + localLikeTotals[s] >= Known(s) + localLikeTotals'[s]
               /\ shown'[s] <= localLikeTotals'[s] + uncertain'[s]
    <3>1. /\ localLikes[s] \in Nat /\ localLikeTotals[s] \in Nat
          /\ redisLikes[s] \in Nat /\ shown[s] \in Nat /\ uncertain[s] \in Nat
          /\ Carried(s) \in Nat
      BY Counters DEF IInv
    <3>2. /\ Known(s) <= localLikeTotals[s] + uncertain[s]
          /\ shown[s] <= localLikeTotals[s] + uncertain[s]
      BY DEF IInv, Accounts, NothingCountedTwice, ShownIsEarned
    <3>3. /\ Carried(s)' = Carried(s) /\ redisLikes'[s] = redisLikes[s]
          /\ shown'[s] = shown[s] /\ uncertain'[s] = uncertain[s]
      BY <1>1 DEF Carried, stats
    <3>4. CASE s = r
      <4>1. /\ localLikes'[s] = localLikes[s] + count
            /\ localLikeTotals'[s] = localLikeTotals[s] + count
        BY <1>2, <3>4 DEF IInv, TypeOK
      <4> QED
        BY <1>1, <3>1, <3>2, <3>3, <4>1 DEF Known
    <3>5. CASE s # r
      <4>1. /\ localLikes'[s] = localLikes[s]
            /\ localLikeTotals'[s] = localLikeTotals[s]
        BY <1>2, <3>5 DEF IInv, TypeOK
      <4> QED
        BY <3>1, <3>2, <3>3, <4>1 DEF Known
    <3> QED
      BY <3>4, <3>5
  <2> QED
    BY <1>4, <2>1, AccountsBalance
<1> QED
  BY <1>4, <1>5, <1>6 DEF IInv

LEMMA SnapshotStep ==
  ASSUME IInv, SnapshotRoomCounts
  PROVE  IInv'
<1>1. /\ UNCHANGED <<presence, likes, redisLikes, deltas, room, likeFlushed, shown,
                     strays, wire,
                     uncertain>>
      /\ pc = "idle" /\ pc' = "counted"
      /\ todo' = {r \in Rooms : presence[r] = "joined"}
  BY DEF SnapshotRoomCounts, copies
<1>2. TypeOK'
  BY <1>1 DEF IInv, TypeOK, likes
<1>3. Control'
  BY <1>1, Assumptions
  DEF IInv, Control, HandsEmpty, NotYetFlushed, SteadyAhead
<1>4. Accounts'
  BY <1>1, AccountsKept DEF Carried
<1> QED
  BY <1>2, <1>3, <1>4 DEF IInv

LEMMA DrainStep ==
  ASSUME IInv, DrainLocalLikeDeltas
  PROVE  IInv'
<1>1. /\ UNCHANGED <<presence, localLikeTotals, redisLikes, todo, room,
                     likeFlushed, shown, strays, wire,
                     uncertain>>
      /\ pc = "counted" /\ pc' = "loop" /\ deltas' = localLikes
      /\ localLikes' = Zero
  BY DEF DrainLocalLikeDeltas, copies
<1>2. Zero \in [Rooms -> Nat] /\ \A r \in Rooms : Zero[r] = 0
  BY DEF Zero
<1>3. TypeOK'
  BY <1>1, <1>2 DEF IInv, TypeOK
<1>4. Control'
  BY <1>1 DEF IInv, Control, HandsEmpty, NotYetFlushed, SteadyAhead
<1>5. \A r \in Rooms : Known(r)' = Known(r)
  <2> SUFFICES ASSUME NEW r \in Rooms
               PROVE  Known(r)' = Known(r)
    OBVIOUS
  <2>1. deltas[r] = 0 /\ room # r
    BY <1>1, <1>2, Assumptions DEF IInv, TypeOK, Control, HandsEmpty
  <2>2. Carried(r) = 0 /\ Carried(r)' = localLikes[r] /\ localLikes'[r] = 0
    BY <1>1, <1>2, <2>1 DEF Carried
  <2> QED
    BY <1>1, <2>2, Counters DEF IInv, Known
<1>6. NothingCountedTwice' /\ SteadyRoomsKeepLikes' /\ ShownIsEarned'
  BY <1>1, <1>5, Assumptions
  DEF IInv, Accounts, NothingCountedTwice, SteadyRoomsKeepLikes, ShownIsEarned
<1> QED
  BY <1>3, <1>4, <1>6 DEF IInv, Accounts

LEMMA NextRoomStep ==
  ASSUME IInv, NEW r \in Rooms, NextRoom(r)
  PROVE  IInv'
<1>1. /\ UNCHANGED <<presence, likes, redisLikes, deltas, shown, strays, wire,
                     uncertain>>
      /\ pc = "loop" /\ r \in todo /\ room' = r /\ todo' = todo \ {r}
      /\ likeFlushed' = FALSE
      /\ pc' = IF deltas[r] > 0 THEN "increment" ELSE "read"
      /\ deltas[r] \in Nat
  BY Counters DEF NextRoom, copies, IInv
<1>2. room = NoRoom /\ NoRoom \notin Rooms
  BY <1>1, Assumptions DEF IInv, TypeOK
<1>3. TypeOK'
  BY <1>1, <1>2 DEF IInv, TypeOK, likes
<1>4. Control'
  BY <1>1, <1>2, Assumptions DEF IInv, Control, HandsEmpty, NotYetFlushed, SteadyAhead
<1>5. \A s \in Rooms : Carried(s)' = Carried(s)
  BY <1>1, <1>2 DEF Carried
<1>6. Accounts'
  BY <1>1, <1>5, AccountsKept
<1> QED
  BY <1>3, <1>4, <1>6 DEF IInv

LEMMA IncrStep ==
  ASSUME IInv, IncrRoomLikes
  PROVE  IInv'
<1>1. /\ UNCHANGED <<presence, likes, deltas, todo, room, shown, strays, wire,
                     uncertain>>
      /\ pc = "increment" /\ pc' = "read" /\ likeFlushed' = TRUE
      /\ redisLikes' = [redisLikes EXCEPT ![room] = redisLikes[room] + deltas[room]]
  BY DEF IncrRoomLikes, copies
<1>2. room \in Rooms /\ ~likeFlushed
  BY <1>1 DEF IInv, TypeOK, Control, NotYetFlushed
<1>3. redisLikes[room] \in Nat /\ deltas[room] \in Nat
  BY <1>2, Counters DEF IInv
<1>4. TypeOK'
  BY <1>1, <1>2, <1>3 DEF IInv, TypeOK, likes
<1>5. Control'
  BY <1>1 DEF IInv, Control, HandsEmpty, NotYetFlushed, SteadyAhead
<1>6. \A r \in Rooms : Known(r)' = Known(r)
  <2> SUFFICES ASSUME NEW r \in Rooms
               PROVE  Known(r)' = Known(r)
    OBVIOUS
  <2>1. CASE r = room
    <3>1. redisLikes'[r] = redisLikes[r] + deltas[r] /\ localLikes'[r] = localLikes[r]
      BY <1>1, <2>1 DEF IInv, TypeOK, likes
    <3>2. Carried(r) = deltas[r] /\ Carried(r)' = 0
      BY <1>1, <1>2, <2>1 DEF Carried
    <3> QED
      BY <3>1, <3>2, Counters DEF IInv, Known
  <2>2. CASE r # room
    <3>1. redisLikes'[r] = redisLikes[r] /\ localLikes'[r] = localLikes[r]
      BY <1>1, <2>2 DEF IInv, TypeOK, likes
    <3>2. Carried(r)' = Carried(r)
      BY <1>1, <2>2 DEF Carried
    <3> QED
      BY <3>1, <3>2 DEF Known
  <2> QED
    BY <2>1, <2>2
<1>7. NothingCountedTwice' /\ SteadyRoomsKeepLikes' /\ ShownIsEarned'
  BY <1>1, <1>6, Assumptions
  DEF IInv, Accounts, NothingCountedTwice, SteadyRoomsKeepLikes, ShownIsEarned, likes
<1> QED
  BY <1>4, <1>5, <1>7 DEF IInv, Accounts

(* The end of a room's round, reached with or without an answer. *)
LEMMA RoomDoneControl ==
  ASSUME IInv, RoomDone, pc \in {"increment", "read"},
         UNCHANGED <<presence, todo>>
  PROVE  /\ Control' /\ room \in Rooms
         /\ deltas' \in [Rooms -> Nat] /\ deltas'[room] = 0
         /\ \A r \in Rooms : r # room => deltas'[r] = deltas[r]
         /\ \A r \in Rooms : Carried(r)' = deltas'[r]
         /\ \A r \in Rooms : r # room => Carried(r) = deltas[r]
<1>1. room \in Rooms
  BY DEF IInv, TypeOK
<1>2. /\ deltas' \in [Rooms -> Nat] /\ deltas'[room] = 0
      /\ \A r \in Rooms : r # room => deltas'[r] = deltas[r]
  BY <1>1 DEF IInv, TypeOK, RoomDone
<1>3. pc' = "loop" /\ room' = NoRoom /\ likeFlushed' = FALSE
  BY DEF RoomDone
<1>4. Control'
  <2>1. HandsEmpty' /\ NotYetFlushed'
    BY <1>3 DEF HandsEmpty, NotYetFlushed
  <2>2. SteadyAhead'
    BY <1>2, <1>3, Assumptions DEF IInv, Control, SteadyAhead
  <2> QED
    BY <2>1, <2>2 DEF Control
<1>5. /\ \A r \in Rooms : Carried(r)' = deltas'[r]
      /\ \A r \in Rooms : r # room => Carried(r) = deltas[r]
  BY <1>3 DEF Carried
<1> QED
  BY <1>1, <1>2, <1>4, <1>5

LEMMA RoomDoneTypes ==
  ASSUME IInv, RoomDone, pc \in {"increment", "read"},
         UNCHANGED <<presence, todo, localLikeTotals, redisLikes, strays, wire,
                     uncertain>>,
         localLikes' \in [Rooms -> Nat], shown' \in [Rooms -> Nat]
  PROVE  TypeOK'
<1>1. deltas' \in [Rooms -> Nat]
  BY RoomDoneControl
<1> QED
  BY <1>1 DEF IInv, TypeOK, RoomDone

(* Falling back to local statistics puts an increment back exactly if it   *)
(* is not known to be in Redis.                                            *)
LEMMA FallbackKnown ==
  ASSUME IInv, UseLocalStats, pc \in {"increment", "read"},
         UNCHANGED <<presence, todo>>
  PROVE  /\ localLikes' \in [Rooms -> Nat]
         /\ shown' \in [Rooms -> Nat]
         /\ \A r \in Rooms :
              /\ localLikes'[r] + Carried(r)' = localLikes[r] + Carried(r)
              /\ shown'[r] = IF r = room THEN localLikeTotals[r] ELSE shown[r]
<1>1. RoomDone
  BY DEF UseLocalStats
<1>2. room \in Rooms /\ localLikes[room] + deltas[room] \in Nat
      /\ localLikeTotals[room] \in Nat
  BY <1>1, RoomDoneControl, Counters DEF IInv
<1>3. localLikes' \in [Rooms -> Nat] /\ shown' \in [Rooms -> Nat]
      /\ \A r \in Rooms :
           shown'[r] = IF r = room THEN localLikeTotals[r] ELSE shown[r]
  BY <1>2 DEF IInv, TypeOK, UseLocalStats
<1>4. \A r \in Rooms : localLikes'[r] + Carried(r)' = localLikes[r] + Carried(r)
  <2> SUFFICES ASSUME NEW r \in Rooms
               PROVE  localLikes'[r] + Carried(r)' = localLikes[r] + Carried(r)
    OBVIOUS
  <2>1. CASE r = room
    <3>1. Carried(r)' = 0
      BY <1>1, <2>1, RoomDoneControl
    <3>2. CASE likeFlushed
      <4>1. Carried(r) = 0 /\ localLikes'[r] = localLikes[r]
        BY <2>1, <3>2 DEF Carried, UseLocalStats
      <4> QED
        BY <3>1, <4>1
    <3>3. CASE ~likeFlushed
      <4>1. Carried(r) = deltas[r] /\ localLikes'[r] = localLikes[r] + deltas[r]
        BY <2>1, <3>3 DEF Carried, UseLocalStats, IInv, TypeOK
      <4> QED
        BY <3>1, <4>1, <1>2, <2>1
    <3> QED
      BY <3>2, <3>3
  <2>2. CASE r # room
    <3>1. localLikes'[r] = localLikes[r]
      BY <2>2 DEF UseLocalStats, IInv, TypeOK
    <3>2. Carried(r)' = Carried(r)
      BY <1>1, <2>2, RoomDoneControl
    <3> QED
      BY <3>1, <3>2
  <2> QED
    BY <2>1, <2>2
<1> QED
  BY <1>3, <1>4

LEMMA CallFailsStep ==
  ASSUME IInv, CallFails
  PROVE  IInv'
<1>1. /\ UseLocalStats /\ RoomDone /\ pc \in {"increment", "read"}
      /\ UNCHANGED <<presence, localLikeTotals, redisLikes, todo, strays, wire,
                     uncertain>>
  BY DEF CallFails, UseLocalStats, copies
<1>2. TypeOK'
  BY <1>1, FallbackKnown, RoomDoneTypes DEF IInv, TypeOK
<1>3. Control'
  BY <1>1, RoomDoneControl
<1>4. Accounts'
  <2>1. ASSUME NEW r \in Rooms
        PROVE  /\ localLikeTotals'[r] >= localLikeTotals[r]
               /\ uncertain'[r] >= uncertain[r]
               /\ Known(r)' <= localLikeTotals'[r] + uncertain'[r]
               /\ Known(r)' + localLikeTotals[r] >= Known(r) + localLikeTotals'[r]
               /\ shown'[r] <= localLikeTotals'[r] + uncertain'[r]
    <3>1. /\ localLikes[r] \in Nat /\ localLikeTotals[r] \in Nat
          /\ redisLikes[r] \in Nat /\ shown[r] \in Nat /\ uncertain[r] \in Nat
          /\ Carried(r) \in Nat
      BY Counters DEF IInv
    <3>2. localLikes'[r] \in Nat /\ Carried(r)' \in Nat
      BY <1>2, Assumptions DEF TypeOK, Carried
    <3>3. /\ localLikes'[r] + Carried(r)' = localLikes[r] + Carried(r)
          /\ shown'[r] = IF r = room THEN localLikeTotals[r] ELSE shown[r]
      BY <1>1, FallbackKnown
    <3>4. Known(r)' = Known(r)
      BY <1>1, <3>1, <3>2, <3>3 DEF Known
    <3>5. /\ Known(r) <= localLikeTotals[r] + uncertain[r]
          /\ shown[r] <= localLikeTotals[r] + uncertain[r]
      BY DEF IInv, Accounts, NothingCountedTwice, ShownIsEarned
    <3> QED
      BY <1>1, <3>1, <3>3, <3>4, <3>5 DEF Known
  <2> QED
    BY <1>2, <2>1, AccountsBalance
<1> QED
  BY <1>2, <1>3, <1>4 DEF IInv

(* A copy of INCRBY is on its way and moves no account.                    *)
LEMMA UnansweredStep ==
  ASSUME IInv, IncrUnanswered
  PROVE  IInv'
<1>1. /\ UNCHANGED <<presence, likes, redisLikes, stats, shown, uncertain>>
      /\ pc = "increment" /\ strays < MaxStrays /\ strays' = strays + 1
      /\ wire' = wire \cup
           {[id |-> strays + 1, room |-> room, delta |-> deltas[room]]}
  BY DEF IncrUnanswered
<1>2. room \in Rooms /\ strays + 1 \in 1..MaxStrays
  BY <1>1, Assumptions DEF IInv, TypeOK
<1>3. deltas[room] \in Nat
  BY <1>2, Counters DEF IInv
<1>4. strays' \in 0..MaxStrays /\ wire' \subseteq Copy
  BY <1>1, <1>2, <1>3, Assumptions DEF IInv, TypeOK, Copy
<1>5. TypeOK'
  BY <1>1, <1>4 DEF IInv, TypeOK, likes, stats
<1>6. Control'
  BY <1>1 DEF IInv, Control, HandsEmpty, NotYetFlushed, SteadyAhead, stats
<1>7. Accounts'
  BY <1>1, AccountsKept DEF Carried, stats
<1> QED
  BY <1>5, <1>6, <1>7 DEF IInv

(* What Redis counts through a copy without an answer is on the account of *)
(* such copies.                                                            *)
LEMMA CarryOutStep ==
  ASSUME IInv, NEW c \in wire, CarryOut(c)
  PROVE  IInv'
<1>1. /\ UNCHANGED <<presence, likes, stats, shown, strays>>
      /\ wire' \subseteq wire
      /\ redisLikes' = [redisLikes EXCEPT ![c.room] = redisLikes[c.room] + c.delta]
      /\ uncertain' = [uncertain EXCEPT ![c.room] = uncertain[c.room] + c.delta]
  BY DEF CarryOut
<1>2. c.room \in Rooms /\ c.delta \in Nat
  BY DEF IInv, TypeOK, Copy
<1>3. redisLikes' \in [Rooms -> Nat] /\ uncertain' \in [Rooms -> Nat]
  BY <1>1, <1>2, Counters DEF IInv, TypeOK
<1>4. TypeOK'
  BY <1>1, <1>3 DEF IInv, TypeOK, likes, stats
<1>5. Control'
  BY <1>1 DEF IInv, Control, HandsEmpty, NotYetFlushed, SteadyAhead, stats
<1>6. Accounts'
  <2>1. ASSUME NEW r \in Rooms
        PROVE  /\ localLikeTotals'[r] >= localLikeTotals[r]
               /\ uncertain'[r] >= uncertain[r]
               /\ Known(r)' <= localLikeTotals'[r] + uncertain'[r]
               /\ Known(r)' + localLikeTotals[r] >= Known(r) + localLikeTotals'[r]
               /\ shown'[r] <= localLikeTotals'[r] + uncertain'[r]
    <3>1. /\ localLikes[r] \in Nat /\ localLikeTotals[r] \in Nat
          /\ redisLikes[r] \in Nat /\ shown[r] \in Nat /\ uncertain[r] \in Nat
          /\ Carried(r) \in Nat
      BY Counters DEF IInv
    <3>2. PICK d \in Nat : /\ redisLikes'[r] = redisLikes[r] + d
                           /\ uncertain'[r] = uncertain[r] + d
      <4>1. CASE r = c.room
        <5>1. /\ redisLikes'[r] = redisLikes[r] + c.delta
              /\ uncertain'[r] = uncertain[r] + c.delta
          BY <1>1, <4>1 DEF IInv, TypeOK
        <5> QED
          BY <1>2, <5>1
      <4>2. CASE r # c.room
        <5>1. redisLikes'[r] = redisLikes[r] + 0 /\ uncertain'[r] = uncertain[r] + 0
          BY <1>1, <3>1, <4>2 DEF IInv, TypeOK
        <5> QED
          BY <5>1
      <4> QED
        BY <4>1, <4>2
    <3>3. Carried(r)' = Carried(r) /\ localLikes'[r] = localLikes[r]
      BY <1>1 DEF Carried, stats, likes
    <3>4. Known(r) = redisLikes[r] + localLikes[r] + Carried(r)
      BY DEF Known
    <3>5. Known(r)' = redisLikes'[r] + localLikes'[r] + Carried(r)'
      BY DEF Known
    <3>6. Known(r)' = Known(r) + d
      BY <3>1, <3>2, <3>3, <3>4, <3>5
    <3>7. /\ Known(r) <= localLikeTotals[r] + uncertain[r]
          /\ shown[r] <= localLikeTotals[r] + uncertain[r]
      BY DEF IInv, Accounts, NothingCountedTwice, ShownIsEarned
    <3>8. /\ Known(r) \in Nat /\ localLikeTotals'[r] = localLikeTotals[r]
          /\ shown'[r] = shown[r]
      BY <1>1, <3>1, <3>4 DEF likes
    <3> QED
      BY <3>1, <3>2, <3>6, <3>7, <3>8
  <2> QED
    BY <1>4, <2>1, AccountsBalance
<1> QED
  BY <1>4, <1>5, <1>6 DEF IInv

LEMMA ReadStep ==
  ASSUME IInv, GetRoomLikes
  PROVE  IInv'
<1>1. /\ RoomDone /\ pc = "read"
      /\ UNCHANGED <<presence, likes, redisLikes, todo, strays, wire,
                     uncertain>>
      /\ shown' = [shown EXCEPT ![room] = redisLikes[room]]
  BY DEF GetRoomLikes, copies
<1>2. room \in Rooms /\ redisLikes[room] \in Nat
  BY <1>1, RoomDoneControl, Counters DEF IInv
<1>3. shown' \in [Rooms -> Nat]
  BY <1>1, <1>2 DEF IInv, TypeOK
<1>4. TypeOK'
  BY <1>1, <1>3, RoomDoneTypes DEF IInv, TypeOK, likes
<1>5. Control'
  BY <1>1, RoomDoneControl
<1>6. \A r \in Rooms : Carried(r)' = Carried(r)
  <2>1. Carried(room) = 0
    BY <1>1 DEF IInv, Control, NotYetFlushed, Carried
  <2> QED
    BY <1>1, <2>1, RoomDoneControl
<1>7. Accounts'
  <2>1. \A r \in Rooms : Known(r)' = Known(r)
    BY <1>1, <1>6 DEF Known, likes
  <2>2. NothingCountedTwice' /\ SteadyRoomsKeepLikes'
    BY <1>1, <2>1, Assumptions
    DEF IInv, Accounts, NothingCountedTwice, SteadyRoomsKeepLikes, likes
  <2>3. ShownIsEarned'
    <3> SUFFICES ASSUME NEW r \in Rooms
                 PROVE  shown'[r] <= localLikeTotals'[r] + uncertain'[r]
      BY DEF ShownIsEarned
    <3>1. /\ localLikes[r] \in Nat /\ localLikeTotals[r] \in Nat
          /\ redisLikes[r] \in Nat /\ uncertain[r] \in Nat /\ Carried(r) \in Nat
      BY Counters DEF IInv
    <3>2. redisLikes[r] <= localLikeTotals[r] + uncertain[r]
      BY <3>1 DEF IInv, Accounts, NothingCountedTwice, Known
    <3>3. shown[r] <= localLikeTotals[r] + uncertain[r]
      BY DEF IInv, Accounts, ShownIsEarned
    <3>4. shown'[r] = IF r = room THEN redisLikes[r] ELSE shown[r]
      BY <1>1 DEF IInv, TypeOK
    <3> QED
      BY <1>1, <3>2, <3>3, <3>4 DEF likes
  <2> QED
    BY <2>2, <2>3 DEF Accounts
<1> QED
  BY <1>4, <1>5, <1>7 DEF IInv

(* Only increments of rooms that were empty when the tick looked are       *)
(* thrown away.                                                            *)
LEMMA FinishStep ==
  ASSUME IInv, Finish
  PROVE  IInv'
<1>1. /\ UNCHANGED <<presence, likes, redisLikes, todo, room, likeFlushed, shown,
                     strays, wire,
                     uncertain>>
      /\ pc = "loop" /\ pc' = "idle" /\ todo = {} /\ deltas' = Zero
  BY DEF Finish, copies
<1>2. Zero \in [Rooms -> Nat] /\ \A r \in Rooms : Zero[r] = 0
  BY DEF Zero
<1>3. TypeOK'
  BY <1>1, <1>2 DEF IInv, TypeOK, likes
<1>4. Control'
  BY <1>1 DEF IInv, Control, HandsEmpty, NotYetFlushed, SteadyAhead
<1>5. \A r \in Rooms : Carried(r)' = 0 /\ Carried(r) \in Nat
  BY <1>1, <1>2, Counters DEF IInv, Carried
<1>6. \A r \in Steady : Carried(r) = 0
  BY <1>1, Assumptions DEF IInv, TypeOK, Control, SteadyAhead, Carried
<1>7. NothingCountedTwice' /\ ShownIsEarned'
  <2>1. ASSUME NEW r \in Rooms
        PROVE  Known(r)' <= localLikeTotals'[r] + uncertain'[r]
    <3>1. /\ localLikes[r] \in Nat /\ redisLikes[r] \in Nat
          /\ localLikeTotals[r] \in Nat /\ uncertain[r] \in Nat
      BY Counters DEF IInv
    <3>2. redisLikes[r] + localLikes[r] + Carried(r) <= localLikeTotals[r] + uncertain[r]
      BY DEF IInv, Accounts, NothingCountedTwice, Known
    <3>3. Known(r)' = redisLikes[r] + localLikes[r]
      BY <1>1, <1>5, <3>1 DEF Known, likes
    <3> QED
      BY <1>1, <1>5, <3>1, <3>2, <3>3 DEF likes
  <2> QED
    BY <1>1, <2>1
    DEF IInv, Accounts, NothingCountedTwice, ShownIsEarned, likes
<1>8. SteadyRoomsKeepLikes'
  <2>1. \A r \in Steady : Known(r)' = Known(r)
    BY <1>1, <1>5, <1>6, Assumptions DEF Known, likes
  <2> QED
    BY <1>1, <2>1 DEF IInv, Accounts, SteadyRoomsKeepLikes, likes
<1> QED
  BY <1>3, <1>4, <1>7, <1>8 DEF IInv, Accounts

LEMMA StepPreserves == IInv /\ [Next]_vars => IInv'
<1> SUFFICES ASSUME IInv, [Next]_vars
             PROVE  IInv'
  OBVIOUS
<1>1. CASE UNCHANGED vars
  <2>1. Accounts'
    BY <1>1, AccountsKept DEF vars, stats, likes, copies, Carried
  <2> QED
    BY <1>1, <2>1 DEF vars, stats, likes, copies, IInv, TypeOK, Control, HandsEmpty,
       NotYetFlushed, SteadyAhead
<1>2. ASSUME NEW r \in Rooms, ClientStep(r)
      PROVE  IInv'
  BY <1>2, PresenceStep, AddLikeStep DEF ClientStep
<1>3. ASSUME StatsStep
      PROVE  IInv'
  BY <1>3, SnapshotStep, DrainStep, NextRoomStep, IncrStep, UnansweredStep,
     CallFailsStep, ReadStep, FinishStep DEF StatsStep
<1>4. ASSUME NEW c \in wire, CarryOut(c)
      PROVE  IInv'
  BY <1>4, CarryOutStep
<1> QED
  BY <1>1, <1>2, <1>3, <1>4 DEF Next

LEMMA Invariance == Spec => []IInv
BY InitEstablishes, StepPreserves, PTL DEF Spec

(* Every counter and control variable keeps its range. *)
THEOREM TypeCorrect == Spec => []TypeOK
<1>1. IInv => TypeOK
  BY DEF IInv
<1> QED
  BY Invariance, <1>1, PTL

(* Redis, localLikes and the tick's hands together hold no more likes than *)
(* were given and copies of an INCRBY without an answer added: draining,   *)
(* flushing and putting back race with AddLike without counting anything   *)
(* twice, however often the Redis client resends and however late a copy   *)
(* is carried out.                                                         *)
THEOREM NoDoubleCount == Spec => []NothingCountedTwice
<1>1. IInv => NothingCountedTwice
  BY DEF IInv, Accounts
<1> QED
  BY Invariance, <1>1, PTL

(* Nor do they hold fewer, for every room that keeps a client.             *)
THEOREM SteadyRoomsLoseNothing == Spec => []SteadyRoomsKeepLikes
<1>1. IInv => SteadyRoomsKeepLikes
  BY DEF IInv, Accounts
<1> QED
  BY Invariance, <1>1, PTL

(* No room is shown more likes than were given in it and such copies       *)
(* added, whether the number came from Redis or from the local fallback.   *)
THEOREM ShownNeverExceeds == Spec => []ShownIsEarned
<1>1. IInv => ShownIsEarned
  BY DEF IInv, Accounts
<1> QED
  BY Invariance, <1>1, PTL
=============================================================================
