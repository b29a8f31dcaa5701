---------------------------- MODULE MCRateLimiter ----------------------------
(* Two users in one room, whose readings meet out of order at the bucket   *)
(* of the room and who sweep the bucket of each other.                     *)
EXTENDS RateLimiter, TLC

CONSTANTS g1, g2, u1, u2, room

MCGoroutines == {g1, g2}
MCKeys == {u1, u2, room}
MCShards == {"users", "rooms"}
MCUserKey == g1 :> u1 @@ g2 :> u2
MCRoomKey == [g \in MCGoroutines |-> room]
MCShardOf == [k \in MCKeys |-> IF k = room THEN "rooms" ELSE "users"]
MCBurst == u1 :> 2 @@ u2 :> 2 @@ room :> 3
MCCost == u1 :> 1 @@ u2 :> 1 @@ room :> 2
=============================================================================
