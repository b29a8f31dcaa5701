------------------------ MODULE MCPartitionConsumer ------------------------
(* PartitionConsumer on small instances. *)
EXTENDS PartitionConsumer, TLC

CONSTANTS c1, c2, a, b

MCMembers == {c1, c2}
MCMessageID == {a, b}

(* Members are interchangeable, and so are message ids. *)
MCSymmetry == Permutations({c1, c2}) \cup Permutations({a, b})
=============================================================================
