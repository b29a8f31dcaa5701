----------------------------- MODULE DurableLog -----------------------------
(***************************************************************************)
(* What the persistence half of the chain promises about one Kafka         *)
(* partition, with no batches, sessions, retries or crashes: records       *)
(* become safe one set at a time and in any order, safety is never         *)
(* revoked, and the group's committed position only moves forward, over    *)
(* records that are already safe.  PartitionConsumer implements it.        *)
(***************************************************************************)
EXTENDS Naturals

CONSTANT N              \* the partition holds the offsets 1..N

VARIABLES
  safe,                 \* offsets that can never be lost any more
  position              \* the next offset a new consumer would be given

vars == <<safe, position>>

Offsets == 1..N

TypeOK ==
  /\ safe \subseteq Offsets
  /\ position \in 1..(N + 1)

(* A record that needs no storing is safe from the start. *)
Init ==
  /\ safe \in SUBSET Offsets
  /\ position = 1

MakeSafe ==
  /\ safe' \in SUBSET Offsets
  /\ safe \subseteq safe'
  /\ UNCHANGED position

Advance ==
  /\ position' \in (position + 1)..(N + 1)
  /\ 1..(position' - 1) \subseteq safe
  /\ UNCHANGED safe

Next == MakeSafe \/ Advance

Spec == Init /\ [][Next]_vars
=============================================================================
