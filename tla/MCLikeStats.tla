----------------------------- MODULE MCLikeStats -----------------------------
(* LikeStats with one room that keeps a client and one that may empty. *)
EXTENDS LikeStats

CONSTANTS hall, attic

MCRooms == {hall, attic}
MCSteady == {hall}
MCCounts == {1, 2}
MCOneCount == {1}
=============================================================================
