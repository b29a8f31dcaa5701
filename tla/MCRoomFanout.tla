---------------------------- MODULE MCRoomFanout ----------------------------
(* RoomFanout with two servers, a room on both and a client that leaves. *)
EXTENDS RoomFanout, TLC

CONSTANTS s1, s2, a, b, c, red, m1, m2

MCServers == {s1, s2}
MCClients == {a, b, c}
MCHome == a :> s1 @@ b :> s2 @@ c :> s2
MCRoomOf == a :> red @@ b :> red @@ c :> red
MCMessages == {m1, m2}
MCSender == m1 :> a @@ m2 :> a
MCWorkerCount == s1 :> 2 @@ s2 :> 1
MCRedisWorkerCount == s1 :> 1 @@ s2 :> 1
MCSlow == {c}
MCPresent == {a, b}
=============================================================================
