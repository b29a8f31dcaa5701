--------------------------- MODULE MCRoomRegistry ---------------------------
(* RoomRegistry with three clients from two addresses and two rooms. *)
EXTENDS RoomRegistry, TLC

CONSTANTS u, v, w, home, office, red, blue, s1, s2

MCClients == {u, v, w}
MCTwoClients == {u, v}
MCIPs == {home, office}
MCIpOf == u :> home @@ v :> home @@ w :> office
MCTwoIpOf == u :> home @@ v :> office
MCRooms == {red, blue}
MCOneRoom == {red}
MCSubs == {s1, s2}
=============================================================================
