---------------------- MODULE PartitionConsumerProofs ----------------------
(***************************************************************************)
(* Proofs about PartitionConsumer, for every number of members, records,   *)
(* message ids, retries and faults: no record is lost, the group's         *)
(* position never moves back, and the first record of a message wins.      *)
(***************************************************************************)
EXTENDS PartitionConsumer, WellFoundedInduction, TLAPS

(* Every nonempty set of naturals has a least element: the record of a     *)
(* message_id that uniqueBatch keeps exists.                               *)
LEMMA LeastExists ==
  ASSUME NEW T \in SUBSET Nat, T # {}
  PROVE  \E x \in T : \A y \in T : x <= y
<1>1. PICK x \in T : \A y \in T : ~ (<<y, x>> \in OpToRel(<, Nat))
  BY NatLessThanWellFounded, WFMin
<1>2. \A y \in T : x <= y
  <2> TAKE y \in T
  <2>1. x \in Nat /\ y \in Nat
    OBVIOUS
  <2>2. ~ (y < x)
    BY <1>1, <2>1 DEF OpToRel
  <2> QED
    BY <2>1, <2>2
<1> QED
  BY <1>2

(* Every nonempty set of naturals below a bound has a greatest element:    *)
(* the position a session reaches by marking a batch exists.               *)
LEMMA GreatestExists ==
  ASSUME NEW k \in Nat, NEW T \in SUBSET (0..k), T # {}
  PROVE  \E x \in T : \A y \in T : y <= x
<1> DEFINE Mirror == {k - y : y \in T}
<1>1. Mirror \in SUBSET Nat /\ Mirror # {}
  <2>1. \A y \in T : y \in Nat /\ y <= k /\ k - y \in Nat
    OBVIOUS
  <2>2. Mirror \in SUBSET Nat
    BY <2>1
  <2>3. PICK y \in T : TRUE
    OBVIOUS
  <2>4. k - y \in Mirror
    BY <2>3
  <2> QED
    BY <2>2, <2>4
<1>2. PICK z \in Mirror : \A w \in Mirror : z <= w
  BY <1>1, LeastExists
<1>3. PICK x \in T : z = k - x
  OBVIOUS
<1>4. \A y \in T : y <= x
  <2> TAKE y \in T
  <2>1. z <= k - y
    BY <1>2
  <2> QED
    BY <1>3, <2>1
<1> QED
  BY <1>4
-----------------------------------------------------------------------------

(***************************************************************************)
(* The inductive invariant.  NoLoss alone is not inductive: that marking a *)
(* batch leaves no gap depends on every record below the cursor being      *)
(* accounted for, and on the answer of MySQL meaning what it says.         *)
(***************************************************************************)
MarkedDurable(m) == \A i \in 1..(marked[m] - 1) : Durable(i)

ReadAccounted(m) ==
  pc[m] # "left" =>
    \A i \in 1..(cursor[m] - 1) :
      \/ Durable(i)
      \/ i \in pending[m]
      \/ InHand(m) /\ i = Current(m)

BatchReadAndValid(m) ==
  pc[m] # "left" =>
    \A i \in pending[m] :
      /\ i < cursor[m]
      /\ topic[i].kind = "valid"
      /\ InHand(m) => i # Current(m)

RejectedInHand(m) ==
  /\ InHand(m) => cursor[m] > 1 /\ topic[Current(m)].kind # "valid"
  /\ pc[m] = "deadletter" => /\ topic[Current(m)].kind = "poison"
                             /\ pending[m] = {}

RepliedStored(m) ==
  pc[m] = "reply" => \A i \in pending[m] : table[topic[i].id] # NoRow

HolderAhead(m) == holder = m => committed <= marked[m]

RetriesLeft(m) == pc[m] = "backoff" => attempt[m] < MaxRetries

ClaimInv(m) ==
  Running(m) =>
    /\ MarkedDurable(m)
    /\ ReadAccounted(m)
    /\ BatchReadAndValid(m)
    /\ RejectedInHand(m)
    /\ RepliedStored(m)
    /\ HolderAhead(m)
    /\ RetriesLeft(m)

CommittedDurable == \A i \in 1..(committed - 1) : Durable(i)

IInv ==
  /\ TypeOK
  /\ CommittedDurable
  /\ \A m \in Members : ClaimInv(m)
  /\ RowIsFirstRecord
-----------------------------------------------------------------------------
(* Operators *)

(* Marking a batch reaches the offset after one of its records, or stays   *)
(* where it was, and leaves every record of the batch below.               *)
LEMMA MarkAllBounds ==
  ASSUME TypeOK, NEW m \in Members, NEW batch \in SUBSET Offsets
  PROVE  /\ MarkAll(m, batch) \in {marked[m]} \cup {i + 1 : i \in batch}
         /\ MarkAll(m, batch) \in 1..(N + 1)
         /\ marked[m] <= MarkAll(m, batch)
         /\ \A i \in batch : i < MarkAll(m, batch)
<1> DEFINE T == {marked[m]} \cup {i + 1 : i \in batch}
<1>1. N + 1 \in Nat /\ marked[m] \in 1..(N + 1)
  BY Assumptions DEF TypeOK
<1>2. \A i \in batch : i \in Nat /\ i + 1 \in 1..(N + 1)
  BY Assumptions DEF Offsets
<1>3. T \in SUBSET (1..(N + 1)) /\ T # {}
  BY <1>1, <1>2
<1>4. T \in SUBSET (0..(N + 1))
  BY <1>1, <1>3
<1>5. \E p \in T : \A q \in T : q <= p
  <2> HIDE DEF T
  <2> QED
    BY <1>1, <1>3, <1>4, GreatestExists
<1>6. MarkAll(m, batch) \in T /\ \A q \in T : q <= MarkAll(m, batch)
  BY <1>5 DEF MarkAll
<1>7. \A i \in batch : i + 1 <= MarkAll(m, batch)
  BY <1>6
<1> QED
  BY <1>1, <1>2, <1>3, <1>6, <1>7

(* What an insert of a batch of valid records does to the table: no row    *)
(* changes, every message of the batch has one afterwards, and a new row   *)
(* is the batch's first record of its message.                             *)
LEMMA InsertedRows ==
  ASSUME TypeOK, NEW batch \in SUBSET Offsets,
         \A i \in batch : topic[i].kind = "valid",
         NEW rows, rows = CreateIdempotent(UniqueBatch(batch))
  PROVE  /\ rows \in [MessageID -> Offsets \cup {NoRow}]
         /\ \A id \in MessageID : table[id] # NoRow => rows[id] = table[id]
         /\ \A i \in batch : /\ topic[i].id \in MessageID
                             /\ rows[topic[i].id] # NoRow
         /\ \A id \in MessageID : rows[id] # table[id] =>
              /\ rows[id] \in batch
              /\ topic[rows[id]].id = id
              /\ \A j \in batch : topic[j].id = id => rows[id] <= j
<1> DEFINE first == UniqueBatch(batch)
<1>1. \A i \in batch : i \in Nat /\ i # NoRow /\ topic[i].id \in MessageID
  <2> TAKE i \in batch
  <2>1. i \in Nat /\ i # NoRow
    BY Assumptions DEF Offsets, NoRow
  <2>2. topic[i] \in Record /\ topic[i].kind = "valid"
    BY DEF TypeOK
  <2>3. topic[i] \notin [kind : {"unsupported", "poison"}]
    BY <2>2
  <2>4. topic[i] \in [kind : {"valid"}, id : MessageID]
    BY <2>2, <2>3 DEF Record
  <2> QED
    BY <2>1, <2>4
<1>2. \A i \in batch : \E k \in first : topic[k].id = topic[i].id
  <2> TAKE i \in batch
  <2> DEFINE Same == {j \in batch : topic[j].id = topic[i].id}
  <2>1. Same \in SUBSET Nat /\ Same # {}
    BY <1>1
  <2>2. PICK k \in Same : \A j \in Same : k <= j
    <3> HIDE DEF Same
    <3> QED
      BY <2>1, LeastExists
  <2>3. k \in first /\ topic[k].id = topic[i].id
    BY <2>2 DEF UniqueBatch
  <2> QED
    BY <2>3
<1>3. \A k \in first : /\ k \in batch
                       /\ \A j \in batch : topic[j].id = topic[k].id => k <= j
  BY DEF UniqueBatch
<1>4. \A id \in MessageID :
        rows[id] = IF table[id] = NoRow /\ \E k \in first : topic[k].id = id
                   THEN CHOOSE k \in first : topic[k].id = id
                   ELSE table[id]
  BY DEF CreateIdempotent
<1>5. \A id \in MessageID :
        table[id] = NoRow /\ (\E k \in first : topic[k].id = id) =>
          rows[id] \in first /\ topic[rows[id]].id = id
  <2> HIDE DEF first
  <2> QED
    BY <1>4
<1>6. rows \in [MessageID -> Offsets \cup {NoRow}]
  <2>1. rows = [id \in MessageID |-> rows[id]]
    BY DEF CreateIdempotent
  <2>2. \A id \in MessageID : rows[id] \in Offsets \cup {NoRow}
    <3> HIDE DEF first
    <3> QED
      BY <1>3, <1>4, <1>5 DEF TypeOK
  <2> QED
    BY <2>1, <2>2
<1>7. \A id \in MessageID : table[id] # NoRow => rows[id] = table[id]
  BY <1>4
<1>8. \A i \in batch : rows[topic[i].id] # NoRow
  <2> HIDE DEF first
  <2> QED
    BY <1>1, <1>2, <1>3, <1>5, <1>7
<1>9. \A id \in MessageID : rows[id] # table[id] =>
        /\ rows[id] \in batch
        /\ topic[rows[id]].id = id
        /\ \A j \in batch : topic[j].id = id => rows[id] <= j
  <2> HIDE DEF first
  <2> QED
    BY <1>3, <1>4, <1>5
<1> QED
  BY <1>1, <1>6, <1>7, <1>8, <1>9
-----------------------------------------------------------------------------
(* Frames: what one member's step means for the others *)

(* Storage only grows. *)
Grows ==
  /\ topic' = topic
  /\ \A id \in MessageID : table[id] # NoRow => table'[id] = table[id]
  /\ dlq \subseteq dlq'

SameClaim(n) ==
  /\ pc'[n] = pc[n]
  /\ cursor'[n] = cursor[n]
  /\ pending'[n] = pending[n]
  /\ marked'[n] = marked[n]
  /\ attempt'[n] = attempt[n]
  /\ reason'[n] = reason[n]

(* What is durable stays durable. *)
LEMMA DurableStays ==
  ASSUME TypeOK, Grows, NEW i \in Offsets, Durable(i)
  PROVE  Durable(i)'
<1>1. CASE topic[i].kind = "valid"
  <2>1. topic[i] \in Record /\ topic[i] \notin [kind : {"unsupported", "poison"}]
    BY <1>1 DEF TypeOK
  <2>2. topic[i].id \in MessageID
    BY <2>1 DEF Record
  <2> QED
    BY <1>1, <2>2 DEF Durable, Grows
<1>2. CASE topic[i].kind # "valid"
  BY <1>2 DEF Durable, Grows
<1> QED
  BY <1>1, <1>2

(* A member that takes no step keeps its part of the invariant, whatever   *)
(* the others store or commit.                                             *)
LEMMA OthersKeep ==
  ASSUME TypeOK, Grows, NEW n \in Members, ClaimInv(n), SameClaim(n),
         holder' = n => holder = n /\ committed' = committed
  PROVE  ClaimInv(n)'
<1> SUFFICES ASSUME Running(n)'
             PROVE  ClaimInv(n)'
  BY DEF ClaimInv
<1>1. Running(n) /\ (InHand(n)' <=> InHand(n)) /\ Current(n)' = Current(n)
  BY DEF Running, InHand, Current, SameClaim
<1>2. marked[n] \in 1..(N + 1) /\ cursor[n] \in 1..(N + 1) /\ N \in Nat
  BY Assumptions DEF TypeOK
<1>3. /\ \A i \in 1..(marked[n] - 1) : i \in Offsets
      /\ \A i \in 1..(cursor[n] - 1) : i \in Offsets
  BY <1>2 DEF Offsets
<1>4. MarkedDurable(n)'
  BY <1>1, <1>3, DurableStays DEF ClaimInv, MarkedDurable, SameClaim
<1>5. ReadAccounted(n)'
  BY <1>1, <1>3, DurableStays DEF ClaimInv, ReadAccounted, SameClaim
<1>6. BatchReadAndValid(n)' /\ RejectedInHand(n)' /\ RetriesLeft(n)'
  BY <1>1 DEF ClaimInv, BatchReadAndValid, RejectedInHand, RetriesLeft,
              SameClaim, Grows
<1>7. RepliedStored(n)'
  <2> SUFFICES ASSUME pc[n] = "reply", NEW i \in pending[n]
               PROVE  table'[topic'[i].id] # NoRow
    BY DEF RepliedStored, SameClaim
  <2>1. table[topic[i].id] # NoRow /\ topic[i].kind = "valid"
    BY <1>1 DEF ClaimInv, RepliedStored, BatchReadAndValid
  <2>2. i \in Offsets
    BY DEF TypeOK
  <2>3. Durable(i)'
    BY <2>1, <2>2, DurableStays DEF Durable
  <2> QED
    BY <2>1, <2>3 DEF Durable, Grows
<1>8. HolderAhead(n)'
  BY <1>1 DEF ClaimInv, HolderAhead, SameClaim
<1> QED
  BY <1>4, <1>5, <1>6, <1>7, <1>8 DEF ClaimInv

(* A step of one member that commits nothing and changes no row preserves  *)
(* the invariant if it preserves the types and the member's own part.      *)
LEMMA OneMemberStep ==
  ASSUME IInv, NEW m \in Members, TypeOK', Grows, table' = table,
         committed' = committed, ClaimInv(m)',
         holder' \in {holder, m, NoMember},
         \A n \in Members \ {m} : SameClaim(n)
  PROVE  IInv'
<1>1. ASSUME NEW n \in Members, n # m
      PROVE  ClaimInv(n)'
  <2>1. holder' = n => holder = n /\ committed' = committed
    BY <1>1, Assumptions
  <2> QED
    BY <1>1, <2>1, OthersKeep DEF IInv
<1>2. CommittedDurable'
  <2>1. \A i \in 1..(committed - 1) : i \in Offsets
    BY Assumptions DEF IInv, TypeOK, Offsets
  <2> QED
    BY <2>1, DurableStays DEF IInv, CommittedDurable
<1>3. RowIsFirstRecord'
  BY DEF IInv, RowIsFirstRecord, Grows
<1> QED
  BY <1>1, <1>2, <1>3 DEF IInv
-----------------------------------------------------------------------------
(* The steps of the handler *)

(* Facts about constants and types that every step uses. *)
LEMMA Ranges ==
  ASSUME TypeOK, NEW m \in Members
  PROVE  /\ N \in Nat /\ MaxRetries \in Nat /\ 1 \in 1..MaxRetries
         /\ cursor[m] \in 1..(N + 1)
         /\ marked[m] \in 1..(N + 1)
         /\ committed \in 1..(N + 1)
         /\ attempt[m] \in 1..MaxRetries
         /\ pending[m] \in SUBSET Offsets
         /\ \A i \in 1..(cursor[m] - 1) : i \in Offsets
  BY Assumptions DEF TypeOK, Offsets

LEMMA ReceiveValidStep ==
  ASSUME IInv, NEW m \in Members, ReceiveValid(m)
  PROVE  IInv'
<1> USE DEF ReceiveValid, StartFlush, kafka
<1>1. TypeOK /\ ClaimInv(m) /\ Running(m)
  BY DEF IInv, Running
<1>2. /\ cursor[m] \in Offsets
      /\ cursor[m] + 1 \in 1..(N + 1)
      /\ pending[m] \cup {cursor[m]} \in SUBSET Offsets
  BY <1>1, Ranges DEF Offsets
<1>3. TypeOK'
  BY <1>1, <1>2, Ranges DEF TypeOK, Control, Flushing, Reasons
<1>4. Grows /\ \A n \in Members \ {m} : SameClaim(n)
  BY <1>1 DEF Grows, SameClaim, TypeOK
<1>5. /\ cursor'[m] = cursor[m] + 1
      /\ pending'[m] = pending[m] \cup {cursor[m]}
      /\ marked'[m] = marked[m]
      /\ pc'[m] \in {"select", "insert"}
      /\ pc'[m] = "insert" => reason'[m] = "batch"
  BY <1>1 DEF TypeOK
<1>6. ~InHand(m) /\ ~InHand(m)'
  BY <1>5 DEF InHand, Flushing
<1>7. \A i \in 1..(N + 1) : Durable(i)' <=> Durable(i)
  BY DEF Durable
<1>8. ReadAccounted(m)'
  BY <1>1, <1>5, <1>6, Ranges DEF ReadAccounted, ClaimInv, Durable
<1>9. BatchReadAndValid(m)'
  BY <1>1, <1>2, <1>5, <1>6, Ranges DEF BatchReadAndValid, ClaimInv, Offsets
<1>10. MarkedDurable(m)' /\ HolderAhead(m)'
  BY <1>1, <1>5, Ranges DEF MarkedDurable, HolderAhead, ClaimInv, Durable
<1>11. RejectedInHand(m)' /\ RepliedStored(m)' /\ RetriesLeft(m)'
  BY <1>5, <1>6 DEF RejectedInHand, RepliedStored, RetriesLeft
<1>12. ClaimInv(m)'
  BY <1>8, <1>9, <1>10, <1>11 DEF ClaimInv
<1> QED
  BY <1>3, <1>4, <1>12, OneMemberStep

(* The outcome of the switch on a rejected record: with every earlier      *)
(* record durable, the position it leaves behind is safe.                  *)
LEMMA RejectedOutcome ==
  ASSUME TypeOK, NEW m \in Members, NEW i \in Offsets, NEW p \in 1..(N + 1),
         HandleRejected(m, i, p)
  PROVE  /\ pc' \in [Members -> Control]
         /\ cancelled' \in [Members -> BOOLEAN]
         /\ marked' \in [Members -> 1..(N + 1)]
         /\ pc'[m] \in {"select", "deadletter", "left"}
         /\ pc'[m] = "select" => topic[i].kind = "unsupported"
         /\ marked'[m] \in {p, i + 1} /\ p <= marked'[m]
         /\ pc'[m] # "select" => marked'[m] = p
         /\ pc'[m] = "deadletter" => topic[i].kind = "poison"
         /\ \A n \in Members \ {m} : pc'[n] = pc[n] /\ marked'[n] = marked[n]
<1>1. i \in 1..N /\ i + 1 \in 1..(N + 1) /\ N \in Nat
  BY Assumptions DEF Offsets
<1>2. CASE topic[i].kind = "unsupported"
  <2>1. /\ marked' = [marked EXCEPT ![m] = IF i + 1 > p THEN i + 1 ELSE p]
        /\ pc' = [pc EXCEPT ![m] = "select"]
        /\ UNCHANGED cancelled
    BY <1>2 DEF HandleRejected
  <2>2. LET q == IF i + 1 > p THEN i + 1 ELSE p IN q \in {p, i + 1} /\ p <= q
    BY <1>1
  <2> QED
    BY <1>1, <1>2, <2>1, <2>2 DEF TypeOK, Control
<1>3. CASE topic[i].kind # "unsupported"
  <2>1. /\ topic[i].kind = "poison"
        /\ marked' = [marked EXCEPT ![m] = p]
        /\ \/ Return(m)
           \/ pc' = [pc EXCEPT ![m] = "deadletter"] /\ UNCHANGED cancelled
    BY <1>3 DEF HandleRejected
  <2>2. cancelled' \in [Members -> BOOLEAN]
    BY <2>1 DEF TypeOK, Return
  <2>3. /\ pc' \in [Members -> Control]
        /\ pc'[m] \in {"deadletter", "left"}
        /\ \A n \in Members \ {m} : pc'[n] = pc[n]
    BY <2>1 DEF TypeOK, Control, Return
  <2>4. marked'[m] = p /\ \A n \in Members \ {m} : marked'[n] = marked[n]
    BY <2>1 DEF TypeOK
  <2>5. marked' \in [Members -> 1..(N + 1)]
    BY <2>1 DEF TypeOK
  <2>6. p <= p
    BY <1>1
  <2> QED
    BY <1>3, <2>1, <2>2, <2>3, <2>4, <2>5, <2>6
<1> QED
  BY <1>2, <1>3

LEMMA ReceiveRejectedStep ==
  ASSUME IInv, NEW m \in Members, ReceiveRejected(m)
  PROVE  IInv'
<1> USE DEF ReceiveRejected, kafka
<1>1. TypeOK /\ ClaimInv(m) /\ Running(m)
  BY DEF IInv, Running
<1>2. /\ cursor[m] \in Offsets
      /\ cursor[m] + 1 \in 1..(N + 1)
      /\ Current(m)' = cursor[m]
      /\ cursor'[m] = cursor[m] + 1
  BY <1>1, Ranges DEF Offsets, Current, TypeOK
<1>3. \A i \in 1..(N + 1) : Durable(i)' <=> Durable(i)
  BY DEF Durable
<1>4. \A i \in 1..(cursor[m] - 1) : Durable(i) \/ i \in pending[m]
  BY <1>1 DEF ClaimInv, ReadAccounted, InHand, Flushing
<1>5. /\ \A i \in 1..(marked[m] - 1) : Durable(i)
      /\ holder = m => committed <= marked[m]
      /\ \A i \in pending[m] : i < cursor[m] /\ topic[i].kind = "valid"
  BY <1>1 DEF ClaimInv, MarkedDurable, HolderAhead, BatchReadAndValid
<1>6. CASE pending[m] # {}
  <2>1. /\ StartFlush(m, pending[m], "before_record")
        /\ UNCHANGED <<cancelled, marked>>
    BY <1>6
  <2>2. TypeOK'
    BY <1>1, <1>2, <2>1, Ranges DEF TypeOK, Control, Flushing, Reasons, StartFlush
  <2>3. Grows /\ \A n \in Members \ {m} : SameClaim(n)
    BY <1>1, <2>1 DEF Grows, SameClaim, TypeOK, StartFlush
  <2>4. /\ pending'[m] = pending[m] /\ pc'[m] = "insert"
        /\ reason'[m] = "before_record" /\ marked'[m] = marked[m]
    BY <1>1, <2>1 DEF StartFlush, TypeOK
  <2>5. ReadAccounted(m)'
    BY <1>1, <1>2, <1>3, <1>4, <2>4, Ranges
       DEF ReadAccounted, InHand, Flushing
  <2>6. BatchReadAndValid(m)' /\ RejectedInHand(m)'
    BY <1>1, <1>2, <1>5, <2>4, Ranges
       DEF BatchReadAndValid, RejectedInHand, InHand, Flushing, Offsets
  <2>7. /\ MarkedDurable(m)' /\ HolderAhead(m)' /\ RepliedStored(m)'
        /\ RetriesLeft(m)'
    BY <1>1, <1>3, <1>5, <2>4, Ranges
       DEF MarkedDurable, HolderAhead, RepliedStored, RetriesLeft
  <2>8. ClaimInv(m)'
    BY <2>5, <2>6, <2>7 DEF ClaimInv
  <2> QED
    BY <2>2, <2>3, <2>8, OneMemberStep
<1>7. CASE pending[m] = {}
  <2>1. /\ HandleRejected(m, cursor[m], marked[m])
        /\ UNCHANGED <<pending, attempt, reason>>
    BY <1>7
  <2>2. /\ pc' \in [Members -> Control]
        /\ cancelled' \in [Members -> BOOLEAN]
        /\ marked' \in [Members -> 1..(N + 1)]
        /\ pc'[m] \in {"select", "deadletter", "left"}
        /\ pc'[m] = "select" => topic[cursor[m]].kind = "unsupported"
        /\ marked'[m] \in {marked[m], cursor[m] + 1}
        /\ marked[m] <= marked'[m]
        /\ pc'[m] # "select" => marked'[m] = marked[m]
        /\ pc'[m] = "deadletter" => topic[cursor[m]].kind = "poison"
        /\ \A n \in Members \ {m} : pc'[n] = pc[n] /\ marked'[n] = marked[n]
    BY <1>1, <1>2, <2>1, Ranges, RejectedOutcome
  <2>3. TypeOK'
    BY <1>1, <1>2, <2>1, <2>2 DEF TypeOK
  <2>4. Grows /\ \A n \in Members \ {m} : SameClaim(n)
    BY <1>1, <2>1, <2>2 DEF Grows, SameClaim, TypeOK
  <2>5. \A i \in 1..cursor[m] : Durable(i) \/ (pc'[m] # "select" /\ i = cursor[m])
    BY <1>1, <1>4, <1>7, <2>2, Ranges DEF Durable
  <2>6. MarkedDurable(m)'
    BY <1>1, <1>3, <1>5, <2>2, <2>5, Ranges DEF MarkedDurable
  <2>7. ReadAccounted(m)'
    BY <1>1, <1>2, <1>3, <2>2, <2>5, Ranges DEF ReadAccounted, InHand, Flushing
  <2>8. BatchReadAndValid(m)' /\ RejectedInHand(m)'
    BY <1>1, <1>2, <1>7, <2>1, <2>2, Ranges
       DEF BatchReadAndValid, RejectedInHand, InHand, Flushing, Offsets
  <2>9. HolderAhead(m)' /\ RepliedStored(m)' /\ RetriesLeft(m)'
    BY <1>1, <1>5, <2>2, Ranges DEF HolderAhead, RepliedStored, RetriesLeft
  <2>10. ClaimInv(m)'
    BY <2>6, <2>7, <2>8, <2>9 DEF ClaimInv
  <2> QED
    BY <2>3, <2>4, <2>10, OneMemberStep
<1> QED
  BY <1>6, <1>7

LEMMA TickStep ==
  ASSUME IInv, NEW m \in Members, Tick(m)
  PROVE  IInv'
<1> USE DEF Tick, StartFlush, kafka
<1>1. TypeOK /\ ClaimInv(m) /\ Running(m)
  BY DEF IInv, Running
<1>2. TypeOK'
  BY <1>1, Ranges DEF TypeOK, Control, Flushing, Reasons
<1>3. Grows /\ \A n \in Members \ {m} : SameClaim(n)
  BY <1>1 DEF Grows, SameClaim, TypeOK
<1>4. /\ pc'[m] = "insert" /\ reason'[m] = "batch"
      /\ pending'[m] = pending[m]
  BY <1>1 DEF TypeOK
<1>5. ~InHand(m) /\ ~InHand(m)'
  BY <1>4 DEF InHand, Flushing
<1>6. ClaimInv(m)'
  BY <1>1, <1>4, <1>5 DEF ClaimInv, MarkedDurable, ReadAccounted,
       BatchReadAndValid, RejectedInHand, RepliedStored, HolderAhead,
       RetriesLeft, Durable
<1> QED
  BY <1>2, <1>3, <1>6, OneMemberStep

LEMMA ClaimEndsStep ==
  ASSUME IInv, NEW m \in Members, ClaimEnds(m)
  PROVE  IInv'
<1> USE DEF ClaimEnds, StartFlush, kafka
<1>1. TypeOK /\ ClaimInv(m) /\ Running(m)
  BY DEF IInv, Running
<1>2. TypeOK'
  BY <1>1, Ranges DEF TypeOK, Control, Flushing, Reasons
<1>3. Grows /\ \A n \in Members \ {m} : SameClaim(n)
  BY <1>1 DEF Grows, SameClaim, TypeOK
<1>4. /\ pc'[m] \in {"insert", "left"}
      /\ pc'[m] = "insert" => reason'[m] = "claim_ends"
      /\ pending'[m] = pending[m]
  BY <1>1 DEF TypeOK
<1>5. ~InHand(m) /\ ~InHand(m)'
  BY <1>4 DEF InHand, Flushing
<1>6. ClaimInv(m)'
  BY <1>1, <1>4, <1>5 DEF ClaimInv, MarkedDurable, ReadAccounted,
       BatchReadAndValid, RejectedInHand, RepliedStored, HolderAhead,
       RetriesLeft, Durable
<1> QED
  BY <1>2, <1>3, <1>6, OneMemberStep

LEMMA InsertFailsStep ==
  ASSUME IInv, NEW m \in Members, InsertFails(m)
  PROVE  IInv'
<1> USE DEF InsertFails, Return, kafka
<1>1. TypeOK /\ ClaimInv(m) /\ Running(m)
  BY DEF IInv, Running
<1>2. /\ \/ Return(m)
         \/ /\ pc' = [pc EXCEPT ![m] = IF attempt[m] = MaxRetries
                                       THEN "paused" ELSE "backoff"]
            /\ UNCHANGED cancelled
      /\ UNCHANGED <<kafka, table, cursor, pending, marked, attempt, reason,
                     faults>>
  OBVIOUS
<1>3. TypeOK'
  BY <1>1, <1>2 DEF TypeOK, Control, Flushing
<1>4. Grows /\ \A n \in Members \ {m} : SameClaim(n)
  BY <1>1, <1>2 DEF Grows, SameClaim, TypeOK
<1>5. /\ pc'[m] \in {"left", "paused", "backoff"}
      /\ pc'[m] = "backoff" => attempt[m] # MaxRetries
  BY <1>1, <1>2 DEF TypeOK
<1>6. /\ pc[m] \in {"insert", "reply"}
      /\ InHand(m)' => InHand(m)
      /\ pc'[m] # "left" => (InHand(m)' <=> InHand(m))
      /\ Current(m)' = Current(m)
  BY <1>5 DEF InHand, Flushing, Current
<1>7. RetriesLeft(m)'
  BY <1>1, <1>5, Ranges DEF RetriesLeft
<1>8. ClaimInv(m)'
  BY <1>1, <1>5, <1>6, <1>7 DEF ClaimInv, MarkedDurable, ReadAccounted,
       BatchReadAndValid, RejectedInHand, RepliedStored, HolderAhead, Durable
<1> QED
  BY <1>3, <1>4, <1>8, OneMemberStep

LEMMA TimerStep ==
  ASSUME IInv, NEW m \in Members,
         RetryTimer(m) \/ RecoveryTimer(m) \/ WaitInterrupted(m)
  PROVE  IInv'
<1> USE DEF RetryTimer, RecoveryTimer, WaitInterrupted, StartFlush, Return, kafka
<1>1. TypeOK /\ ClaimInv(m) /\ Running(m)
  BY DEF IInv, Running
<1>2. pc[m] = "backoff" => attempt[m] + 1 \in 1..MaxRetries
  BY <1>1, Ranges DEF ClaimInv, RetriesLeft
<1>3. TypeOK'
  <2>1. CASE RetryTimer(m)
    <3>1. attempt' \in [Members -> 1..MaxRetries]
      BY <1>1, <1>2, <2>1 DEF TypeOK
    <3> QED
      BY <1>1, <2>1, <3>1 DEF TypeOK, Control, Flushing
  <2>2. CASE RecoveryTimer(m)
    <3>1. /\ pending' = pending /\ reason' = reason
          /\ attempt' \in [Members -> 1..MaxRetries]
      BY <1>1, <2>2, Ranges DEF TypeOK
    <3> QED
      BY <1>1, <2>2, <3>1 DEF TypeOK, Control, Flushing
  <2>3. CASE WaitInterrupted(m)
    BY <1>1, <2>3 DEF TypeOK, Control
  <2> QED
    BY <2>1, <2>2, <2>3
<1>4. Grows /\ \A n \in Members \ {m} : SameClaim(n)
  BY <1>1 DEF Grows, SameClaim, TypeOK
<1>5. /\ pc'[m] \in {"left", "insert"}
      /\ pending'[m] = pending[m] /\ reason'[m] = reason[m]
      /\ UNCHANGED <<cursor, marked>>
  BY <1>1 DEF TypeOK
<1>6. /\ pc[m] \in {"backoff", "paused"}
      /\ InHand(m)' => InHand(m)
      /\ pc'[m] # "left" => (InHand(m)' <=> InHand(m))
      /\ Current(m)' = Current(m)
  BY <1>5 DEF InHand, Flushing, Current
<1>7. ClaimInv(m)'
  BY <1>1, <1>5, <1>6 DEF ClaimInv, MarkedDurable, ReadAccounted, RetriesLeft,
       BatchReadAndValid, RejectedInHand, RepliedStored, HolderAhead, Durable
<1> QED
  BY <1>3, <1>4, <1>7, OneMemberStep

LEMMA InsertStep ==
  ASSUME IInv, NEW m \in Members, Insert(m)
  PROVE  IInv'
<1> USE DEF Insert, kafka
<1>1. TypeOK /\ ClaimInv(m) /\ Running(m)
  BY DEF IInv, Running
<1>2. pending[m] \in SUBSET Offsets /\ \A i \in pending[m] : topic[i].kind = "valid"
  BY <1>1, Ranges DEF ClaimInv, BatchReadAndValid
<1>3. /\ table' \in [MessageID -> Offsets \cup {NoRow}]
      /\ \A id \in MessageID : table[id] # NoRow => table'[id] = table[id]
      /\ \A i \in pending[m] : /\ topic[i].id \in MessageID
                              /\ table'[topic[i].id] # NoRow
      /\ \A id \in MessageID : table'[id] # table[id] =>
           /\ table'[id] \in pending[m]
           /\ topic[table'[id]].id = id
           /\ \A j \in pending[m] : topic[j].id = id => table'[id] <= j
  BY <1>1, <1>2, InsertedRows
<1>4. TypeOK'
  BY <1>1, <1>3 DEF TypeOK, Control, Flushing
<1>5. Grows /\ \A n \in Members \ {m} : SameClaim(n)
  BY <1>1, <1>3 DEF Grows, SameClaim, TypeOK
<1>6. \A i \in Offsets : Durable(i) => Durable(i)'
  BY <1>1, <1>5, DurableStays
<1>7. CommittedDurable'
  <2>1. \A i \in 1..(committed - 1) : i \in Offsets
    BY <1>1, Ranges DEF Offsets
  <2> QED
    BY <1>6, <2>1 DEF IInv, CommittedDurable
<1>8. \A n \in Members : ClaimInv(n)'
  <2>1. ASSUME NEW n \in Members, n # m
        PROVE  ClaimInv(n)'
    BY <1>1, <1>5, <2>1, OthersKeep DEF IInv
  <2>2. /\ pc'[m] = "reply"
        /\ InHand(m)' <=> InHand(m)
        /\ Current(m)' = Current(m)
    BY <1>1 DEF TypeOK, InHand, Flushing, Current
  <2>3. MarkedDurable(m)' /\ ReadAccounted(m)'
    <3>1. \A i \in 1..(marked[m] - 1) : i \in Offsets
      BY <1>1, Ranges DEF Offsets
    <3> QED
      BY <1>1, <1>6, <2>2, <3>1, Ranges
         DEF ClaimInv, MarkedDurable, ReadAccounted
  <2>4. BatchReadAndValid(m)' /\ RejectedInHand(m)' /\ HolderAhead(m)'
        /\ RetriesLeft(m)'
    BY <1>1, <2>2 DEF ClaimInv, BatchReadAndValid, RejectedInHand,
                      HolderAhead, RetriesLeft
  <2>5. RepliedStored(m)'
    BY <1>3 DEF RepliedStored
  <2>6. ClaimInv(m)'
    BY <2>3, <2>4, <2>5 DEF ClaimInv
  <2> QED
    BY <2>1, <2>6
<1>9. RowIsFirstRecord'
  <2> SUFFICES ASSUME NEW id \in MessageID, table'[id] # NoRow
               PROVE  /\ topic[table'[id]].kind = "valid"
                      /\ topic[table'[id]].id = id
                      /\ \A i \in 1..(table'[id] - 1) :
                           ~(topic[i].kind = "valid" /\ topic[i].id = id)
    BY DEF RowIsFirstRecord
  <2>1. CASE table'[id] = table[id]
    BY <2>1 DEF IInv, RowIsFirstRecord
  <2>2. CASE table'[id] # table[id]
    <3>1. /\ table[id] = NoRow
          /\ table'[id] \in pending[m]
          /\ topic[table'[id]].id = id
          /\ \A j \in pending[m] : topic[j].id = id => table'[id] <= j
      BY <1>3, <2>2
    <3>2. table'[id] < cursor[m] /\ topic[table'[id]].kind = "valid"
      BY <1>1, <3>1 DEF ClaimInv, BatchReadAndValid
    <3>3. ASSUME NEW i \in 1..(table'[id] - 1),
                 topic[i].kind = "valid", topic[i].id = id
          PROVE  FALSE
      <4>1. table'[id] \in 1..N /\ cursor[m] \in 1..(N + 1) /\ N \in Nat
        BY <1>1, <1>2, <3>1, Ranges DEF Offsets
      <4>2. i \in 1..(cursor[m] - 1) /\ ~(table'[id] <= i)
        BY <3>2, <3>3, <4>1
      <4>3. ~Durable(i)
        BY <3>1, <3>3 DEF Durable
      <4>4. i \in pending[m] \/ (InHand(m) /\ i = Current(m))
        BY <1>1, <4>2, <4>3 DEF ClaimInv, ReadAccounted
      <4>5. i \notin pending[m]
        BY <3>1, <3>3, <4>2
      <4>6. ~(InHand(m) /\ i = Current(m))
        BY <1>1, <3>3 DEF ClaimInv, RejectedInHand
      <4> QED
        BY <4>4, <4>5, <4>6
    <3> QED
      BY <3>1, <3>2, <3>3
  <2> QED
    BY <2>1, <2>2
<1> QED
  BY <1>4, <1>7, <1>8, <1>9 DEF IInv

(* The heart of the ordering: once MySQL has answered, everything below    *)
(* the batch's end is durable, so marking the batch leaves no gap.         *)
LEMMA AnsweredDurable ==
  ASSUME TypeOK, NEW m \in Members, ClaimInv(m), pc[m] = "reply"
  PROVE  /\ \A i \in 1..(cursor[m] - 1) :
              Durable(i) \/ (InHand(m) /\ i = Current(m))
         /\ \A i \in 1..(MarkAll(m, pending[m]) - 1) : Durable(i)
<1>1. \A i \in pending[m] : Durable(i) /\ i < cursor[m]
                           /\ (InHand(m) => i # Current(m))
  BY DEF ClaimInv, Running, RepliedStored, BatchReadAndValid, Durable
<1>2. \A i \in 1..(cursor[m] - 1) : Durable(i) \/ (InHand(m) /\ i = Current(m))
  BY <1>1 DEF ClaimInv, Running, ReadAccounted
<1>3. \A i \in 1..(MarkAll(m, pending[m]) - 1) : Durable(i)
  <2>1. CASE MarkAll(m, pending[m]) = marked[m]
    BY <2>1 DEF ClaimInv, Running, MarkedDurable
  <2>2. CASE \E j \in pending[m] : MarkAll(m, pending[m]) = j + 1
    <3>1. PICK j \in pending[m] : MarkAll(m, pending[m]) = j + 1
      BY <2>2
    <3>2. j \in Nat /\ cursor[m] \in Nat /\ N \in Nat /\ 1 <= cursor[m]
      BY Ranges DEF Offsets
    <3>3. ASSUME NEW i \in 1..j
          PROVE  Durable(i)
      <4>1. i \in 1..(cursor[m] - 1)
        BY <1>1, <3>2
      <4>2. i = j => Durable(i)
        BY <1>1
      <4>3. i # j => ~(InHand(m) /\ i = Current(m))
        BY <1>1, <3>2 DEF Current
      <4> QED
        BY <1>2, <4>1, <4>2, <4>3
    <3> QED
      BY <3>1, <3>2, <3>3
  <2> QED
    BY <2>1, <2>2, Ranges, MarkAllBounds
<1> QED
  BY <1>2, <1>3

LEMMA InsertSucceedsStep ==
  ASSUME IInv, NEW m \in Members, InsertSucceeds(m)
  PROVE  IInv'
<1> DEFINE p == MarkAll(m, pending[m])
<1>1. TypeOK /\ ClaimInv(m) /\ Running(m) /\ pc[m] = "reply"
  BY DEF IInv, Running, InsertSucceeds
<1>2. /\ p \in 1..(N + 1) /\ marked[m] <= p
      /\ \A i \in 1..(p - 1) : Durable(i)
      /\ \A i \in 1..(cursor[m] - 1) :
           Durable(i) \/ (InHand(m) /\ i = Current(m))
  BY <1>1, Ranges, MarkAllBounds, AnsweredDurable
<1>3. /\ pending' = [pending EXCEPT ![m] = {}]
      /\ attempt' = [attempt EXCEPT ![m] = 1]
      /\ reason' = [reason EXCEPT ![m] = "batch"]
      /\ UNCHANGED <<kafka, table, cursor, faults>>
  BY DEF InsertSucceeds, EndFlush
<1>4. InHand(m) <=> reason[m] = "before_record"
  BY <1>1 DEF InHand, Flushing
<1>5. /\ pc' \in [Members -> Control]
      /\ cancelled' \in [Members -> BOOLEAN]
      /\ marked' \in [Members -> 1..(N + 1)]
      /\ \A n \in Members \ {m} : pc'[n] = pc[n] /\ marked'[n] = marked[n]
      /\ pc'[m] \in {"select", "deadletter", "left"}
      /\ marked[m] <= marked'[m]
      /\ \A i \in 1..(marked'[m] - 1) : Durable(i)
      /\ pc'[m] = "select" => \A i \in 1..(cursor[m] - 1) : Durable(i)
      /\ pc'[m] = "deadletter" => /\ InHand(m)
                                 /\ topic[Current(m)].kind = "poison"
  <2> HIDE DEF p
  <2>1. CASE reason[m] = "batch"
    <3>1. /\ marked' = [marked EXCEPT ![m] = p]
          /\ pc' = [pc EXCEPT ![m] = "select"]
          /\ UNCHANGED cancelled
      BY <2>1 DEF InsertSucceeds, p
    <3> QED
      BY <1>1, <1>2, <1>4, <2>1, <3>1 DEF TypeOK, Control
  <2>2. CASE reason[m] = "claim_ends"
    <3>1. /\ marked' = [marked EXCEPT ![m] = p]
          /\ pc' = [pc EXCEPT ![m] = "left"]
          /\ cancelled' = [cancelled EXCEPT ![m] = TRUE]
      BY <2>2 DEF InsertSucceeds, Return, p
    <3> QED
      BY <1>1, <1>2, <3>1 DEF TypeOK, Control
  <2>3. CASE reason[m] = "before_record"
    <3>1. HandleRejected(m, Current(m), p)
      BY <2>3 DEF InsertSucceeds, p
    <3>2. /\ Current(m) \in Offsets /\ Current(m) = cursor[m] - 1
          /\ cursor[m] \in Nat /\ 1 <= cursor[m]
      BY <1>1, <1>4, <2>3, Ranges DEF ClaimInv, RejectedInHand, Current, Offsets
    <3>3. /\ pc' \in [Members -> Control]
          /\ cancelled' \in [Members -> BOOLEAN]
          /\ marked' \in [Members -> 1..(N + 1)]
          /\ pc'[m] \in {"select", "deadletter", "left"}
          /\ pc'[m] = "select" => topic[Current(m)].kind = "unsupported"
          /\ marked'[m] \in {p, Current(m) + 1} /\ p <= marked'[m]
          /\ pc'[m] # "select" => marked'[m] = p
          /\ pc'[m] = "deadletter" => topic[Current(m)].kind = "poison"
          /\ \A n \in Members \ {m} : pc'[n] = pc[n] /\ marked'[n] = marked[n]
      BY <1>1, <1>2, <3>1, <3>2, RejectedOutcome
    <3>4. pc'[m] = "select" => \A i \in 1..(cursor[m] - 1) : Durable(i)
      BY <1>2, <3>3 DEF Durable
    <3>5. \A i \in 1..(marked'[m] - 1) : Durable(i)
      BY <1>2, <3>2, <3>3, <3>4
    <3>6. marked[m] <= marked'[m]
      BY <1>1, <1>2, <3>3, Ranges
    <3> QED
      BY <1>4, <2>3, <3>3, <3>4, <3>5, <3>6
  <2> QED
    BY <1>1, <2>1, <2>2, <2>3 DEF TypeOK, Reasons
<1>6. TypeOK'
  BY <1>1, <1>3, <1>5, Ranges DEF TypeOK, Reasons, kafka
<1>7. Grows /\ \A n \in Members \ {m} : SameClaim(n)
  BY <1>1, <1>3, <1>5 DEF Grows, SameClaim, TypeOK, kafka
<1>8. /\ pending'[m] = {} /\ cursor'[m] = cursor[m] /\ Current(m)' = Current(m)
      /\ holder' = holder /\ committed' = committed /\ topic' = topic
      /\ \A i \in 1..(N + 1) : Durable(i)' <=> Durable(i)
  BY <1>1, <1>3 DEF TypeOK, kafka, Current, Durable
<1>9. InHand(m)' <=> pc'[m] = "deadletter"
  BY <1>5 DEF InHand, Flushing
<1>10. MarkedDurable(m)'
  <2>1. marked'[m] \in 1..(N + 1) /\ N \in Nat
    BY <1>1, <1>5, Ranges
  <2> QED
    BY <1>5, <1>8, <2>1 DEF MarkedDurable
<1>11. ReadAccounted(m)'
  BY <1>1, <1>2, <1>5, <1>8, <1>9, Ranges DEF ReadAccounted
<1>12. BatchReadAndValid(m)' /\ RepliedStored(m)' /\ RetriesLeft(m)'
  BY <1>5, <1>8 DEF BatchReadAndValid, RepliedStored, RetriesLeft
<1>13. RejectedInHand(m)'
  BY <1>1, <1>5, <1>8, <1>9 DEF ClaimInv, RejectedInHand
<1>14. HolderAhead(m)'
  BY <1>1, <1>5, <1>8, <1>6, Ranges DEF ClaimInv, HolderAhead, TypeOK
<1>15. ClaimInv(m)'
  BY <1>10, <1>11, <1>12, <1>13, <1>14 DEF ClaimInv
<1> QED
  BY <1>3, <1>6, <1>7, <1>8, <1>15, OneMemberStep

LEMMA DeadLetterSucceedsStep ==
  ASSUME IInv, NEW m \in Members, DeadLetterSucceeds(m)
  PROVE  IInv'
<1> DEFINE p == MarkAll(m, {Current(m)})
<1>1. TypeOK /\ ClaimInv(m) /\ Running(m) /\ InHand(m) /\ pc[m] = "deadletter"
  BY DEF IInv, Running, DeadLetterSucceeds, InHand
<1>2. /\ Current(m) \in Offsets /\ Current(m) = cursor[m] - 1
      /\ cursor[m] \in Nat /\ topic[Current(m)].kind = "poison"
      /\ pending[m] = {}
  BY <1>1, Ranges DEF ClaimInv, RejectedInHand, Current, Offsets
<1>3. /\ dlq' = dlq \cup {Current(m)}
      /\ marked' = [marked EXCEPT ![m] = p]
      /\ pc' = [pc EXCEPT ![m] = "select"]
      /\ UNCHANGED <<topic, committed, holder, table, cancelled, cursor,
                     pending, attempt, reason, faults>>
  BY DEF DeadLetterSucceeds
<1>4. /\ p \in 1..(N + 1) /\ marked[m] <= p
      /\ p \in {marked[m], Current(m) + 1}
  <2>1. {Current(m)} \in SUBSET Offsets
    BY <1>2
  <2>2. p \in {marked[m]} \cup {i + 1 : i \in {Current(m)}}
    BY <1>1, <2>1, MarkAllBounds
  <2>3. p \in 1..(N + 1) /\ marked[m] <= p
    BY <1>1, <2>1, MarkAllBounds
  <2> QED
    BY <2>2, <2>3
<1> HIDE DEF p
<1>5. TypeOK'
  BY <1>1, <1>2, <1>3, <1>4 DEF TypeOK, Control
<1>6. Grows /\ \A n \in Members \ {m} : SameClaim(n)
  BY <1>1, <1>3 DEF Grows, SameClaim, TypeOK
<1>7. \A i \in 1..(cursor[m] - 1) : i \in Offsets /\ Durable(i)'
  <2> TAKE i \in 1..(cursor[m] - 1)
  <2>1. i \in Offsets /\ (Durable(i) \/ i = Current(m))
    BY <1>1, <1>2, Ranges DEF ClaimInv, ReadAccounted
  <2>2. CASE Durable(i)
    BY <1>1, <1>6, <2>1, <2>2, DurableStays
  <2>3. CASE i = Current(m)
    BY <1>2, <1>3, <2>3 DEF Durable
  <2> QED
    BY <2>1, <2>2, <2>3
<1>8. /\ pc'[m] = "select" /\ marked'[m] = p /\ pending'[m] = {}
      /\ cursor'[m] = cursor[m]
  BY <1>1, <1>2, <1>3 DEF TypeOK
<1>9. MarkedDurable(m)'
  <2>1. \A i \in 1..(marked[m] - 1) : i \in Offsets /\ Durable(i)
    BY <1>1, Ranges DEF ClaimInv, MarkedDurable, Offsets
  <2>2. \A i \in 1..(marked[m] - 1) : Durable(i)'
    BY <1>1, <1>6, <2>1, DurableStays
  <2> QED
    BY <1>2, <1>4, <1>7, <1>8, <2>2 DEF MarkedDurable
<1>10. ReadAccounted(m)'
  BY <1>7, <1>8 DEF ReadAccounted
<1>11. /\ BatchReadAndValid(m)' /\ RepliedStored(m)' /\ RetriesLeft(m)'
       /\ RejectedInHand(m)'
  BY <1>8 DEF BatchReadAndValid, RepliedStored, RetriesLeft, RejectedInHand,
              InHand, Flushing
<1>12. HolderAhead(m)'
  BY <1>1, <1>3, <1>4, <1>8, Ranges DEF ClaimInv, HolderAhead
<1>13. ClaimInv(m)'
  BY <1>9, <1>10, <1>11, <1>12 DEF ClaimInv
<1> QED
  BY <1>3, <1>5, <1>6, <1>13, OneMemberStep

LEMMA DeadLetterFailsStep ==
  ASSUME IInv, NEW m \in Members, DeadLetterFails(m)
  PROVE  IInv'
<1> USE DEF DeadLetterFails, Return
<1>1. TypeOK /\ ClaimInv(m) /\ Running(m) /\ InHand(m) /\ pc[m] = "deadletter"
  BY DEF IInv, Running, InHand
<1>2. Current(m) \in Offsets
  BY <1>1, Ranges DEF ClaimInv, RejectedInHand, Current, Offsets
<1>3. TypeOK'
  BY <1>1, <1>2 DEF TypeOK, Control
<1>4. Grows /\ \A n \in Members \ {m} : SameClaim(n)
  BY <1>1 DEF Grows, SameClaim, TypeOK
<1>5. pc'[m] = "left" /\ marked'[m] = marked[m]
  BY <1>1 DEF TypeOK
<1>6. MarkedDurable(m)'
  <2>1. \A i \in 1..(marked[m] - 1) : i \in Offsets /\ Durable(i)
    BY <1>1, Ranges DEF ClaimInv, MarkedDurable, Offsets
  <2> QED
    BY <1>1, <1>4, <1>5, <2>1, DurableStays DEF MarkedDurable
<1>7. ClaimInv(m)'
  BY <1>1, <1>5, <1>6 DEF ClaimInv, ReadAccounted, BatchReadAndValid,
       RejectedInHand, RepliedStored, HolderAhead, RetriesLeft, InHand, Flushing
<1> QED
  BY <1>3, <1>4, <1>7, OneMemberStep
-----------------------------------------------------------------------------
(* The steps of the consumer group and the faults *)

LEMMA JoinStep ==
  ASSUME IInv, NEW m \in Members, Join(m)
  PROVE  IInv'
<1> USE DEF Join
<1>1. TypeOK /\ CommittedDurable
  BY DEF IInv
<1>2. TypeOK'
  BY <1>1 DEF TypeOK, Control
<1>3. Grows /\ \A n \in Members \ {m} : SameClaim(n)
  BY <1>1 DEF Grows, SameClaim, TypeOK
<1>4. /\ pc'[m] = "select" /\ marked'[m] = committed
      /\ cursor'[m] = committed /\ pending'[m] = {}
      /\ committed' = committed
  BY <1>1 DEF TypeOK
<1>5. MarkedDurable(m)' /\ ReadAccounted(m)'
  BY <1>1, <1>4 DEF MarkedDurable, ReadAccounted, CommittedDurable, Durable
<1>6. /\ BatchReadAndValid(m)' /\ RepliedStored(m)' /\ RetriesLeft(m)'
      /\ RejectedInHand(m)'
  BY <1>4 DEF BatchReadAndValid, RepliedStored, RetriesLeft, RejectedInHand,
              InHand, Flushing
<1>7. HolderAhead(m)'
  BY <1>1, <1>4, Ranges DEF HolderAhead
<1>8. ClaimInv(m)'
  BY <1>5, <1>6, <1>7 DEF ClaimInv
<1> QED
  BY <1>2, <1>3, <1>8, OneMemberStep

(* The only step that moves the group's position: forward, to a position   *)
(* the holder has marked.                                                  *)
LEMMA CommitStep ==
  ASSUME IInv, NEW m \in Members, Commit(m)
  PROVE  IInv' /\ committed' >= committed
<1> USE DEF Commit, claim
<1>1. TypeOK /\ ClaimInv(m) /\ Running(m) /\ holder = m
  BY DEF IInv
<1>2. TypeOK'
  BY <1>1, Ranges DEF TypeOK
<1>3. Grows /\ \A n \in Members : SameClaim(n)
  BY DEF Grows, SameClaim
<1>4. committed' = marked[m] /\ committed <= marked[m]
  BY <1>1 DEF ClaimInv, HolderAhead
<1>5. CommittedDurable'
  BY <1>1, <1>4 DEF CommittedDurable, ClaimInv, MarkedDurable, Durable
<1>6. ClaimInv(m)'
  <2>1. MarkedDurable(m)' /\ ReadAccounted(m)'
    BY <1>1 DEF ClaimInv, MarkedDurable, ReadAccounted, Durable, InHand, Current
  <2>2. BatchReadAndValid(m)' /\ RejectedInHand(m)' /\ RepliedStored(m)'
        /\ RetriesLeft(m)'
    BY <1>1 DEF ClaimInv, BatchReadAndValid, RejectedInHand, RepliedStored,
                RetriesLeft, InHand, Current
  <2>3. HolderAhead(m)'
    BY <1>1, <1>4, Ranges DEF HolderAhead
  <2> QED
    BY <2>1, <2>2, <2>3 DEF ClaimInv
<1>7. ASSUME NEW n \in Members, n # m
      PROVE  ClaimInv(n)'
  BY <1>1, <1>3, <1>7, OthersKeep DEF IInv
<1>8. RowIsFirstRecord'
  BY DEF IInv, RowIsFirstRecord
<1> QED
  BY <1>1, <1>2, <1>4, <1>5, <1>6, <1>7, <1>8, Ranges DEF IInv

(* A claim that ends or dies leaves nothing of its own behind. *)
LEMMA EndStep ==
  ASSUME IInv, NEW m \in Members, Leave(m) \/ Crash(m)
  PROVE  IInv'
<1> USE DEF Leave, Crash, Forget, EndFlush, kafka
<1>1. TypeOK
  BY DEF IInv
<1>2. TypeOK'
  <2>1. 1 \in 1..(N + 1) /\ 1 \in 1..MaxRetries
    BY Assumptions
  <2>2. faults' \in 0..MaxFaults
    BY <1>1, Assumptions DEF TypeOK
  <2>3. holder' \in Members \cup {NoMember}
    BY <1>1 DEF TypeOK
  <2> QED
    BY <1>1, <2>1, <2>2, <2>3 DEF TypeOK, Control, Reasons
<1>3. Grows /\ \A n \in Members \ {m} : SameClaim(n)
  BY <1>1 DEF Grows, SameClaim, TypeOK
<1>4. ClaimInv(m)'
  BY <1>1 DEF ClaimInv, Running, TypeOK
<1> QED
  BY <1>2, <1>3, <1>4, OneMemberStep

(* Steps that only cancel a context or take the partition away. *)
LEMMA GroupChangeStep ==
  ASSUME IInv, NEW m \in Members,
         Cancel(m) \/ Fenced(m) \/ Evict(m) \/ SessionExpires(m)
  PROVE  IInv'
<1> USE DEF Cancel, Fenced, Evict, SessionExpires, kafka, claim
<1>1. TypeOK /\ ClaimInv(m)
  BY DEF IInv
<1>2. TypeOK'
  <2>1. faults' \in 0..MaxFaults
    BY <1>1, Assumptions DEF TypeOK
  <2> QED
    BY <1>1, <2>1 DEF TypeOK
<1>3. Grows /\ \A n \in Members : SameClaim(n)
  BY DEF Grows, SameClaim
<1>4. holder' = m => holder = m /\ committed' = committed
  BY Assumptions
<1>5. ClaimInv(m)'
  BY <1>1, <1>3, <1>4, OthersKeep
<1> QED
  BY <1>2, <1>3, <1>5, OneMemberStep
-----------------------------------------------------------------------------
(* The theorems *)

LEMMA InitEstablishes == Init => IInv
<1> SUFFICES ASSUME Init
             PROVE  IInv
  OBVIOUS
<1>1. TypeOK
  BY Assumptions DEF Init, TypeOK, Control, Reasons
<1>2. CommittedDurable /\ \A m \in Members : ClaimInv(m)
  BY DEF Init, CommittedDurable, ClaimInv, Running
<1>3. RowIsFirstRecord
  BY DEF Init, RowIsFirstRecord
<1> QED
  BY <1>1, <1>2, <1>3 DEF IInv

LEMMA StepPreserves ==
  ASSUME IInv, [Next]_vars
  PROVE  IInv' /\ committed' >= committed
<1>1. committed \in 1..(N + 1) /\ N \in Nat
  BY Assumptions DEF IInv, TypeOK
<1>2. CASE UNCHANGED vars
  <2>1. /\ UNCHANGED <<topic, committed, holder, dlq, table, faults>>
        /\ UNCHANGED <<pc, cancelled, cursor, pending, marked, attempt, reason>>
    BY <1>2 DEF vars, kafka, claim
  <2>2. TypeOK' /\ CommittedDurable' /\ RowIsFirstRecord'
    BY <2>1 DEF IInv, TypeOK, CommittedDurable, RowIsFirstRecord, Durable
  <2>3. \A m \in Members : ClaimInv(m)'
    BY <2>1, OthersKeep DEF IInv, Grows, SameClaim
  <2> QED
    BY <1>1, <2>1, <2>2, <2>3 DEF IInv
<1>3. ASSUME NEW m \in Members, HandlerStep(m)
      PROVE  IInv' /\ committed' = committed
  <2>1. IInv'
    BY <1>3, ReceiveValidStep, ReceiveRejectedStep, TickStep, ClaimEndsStep,
       InsertStep, InsertSucceedsStep, InsertFailsStep, TimerStep,
       DeadLetterSucceedsStep, DeadLetterFailsStep DEF HandlerStep
  <2>2. committed' = committed
    BY <1>3 DEF HandlerStep, ReceiveValid, ReceiveRejected, Tick, ClaimEnds,
       Insert, InsertSucceeds, InsertFails, RetryTimer, RecoveryTimer,
       WaitInterrupted, DeadLetterSucceeds, DeadLetterFails, kafka
  <2> QED
    BY <2>1, <2>2
<1>4. ASSUME NEW m \in Members, GroupStep(m), ~Commit(m)
      PROVE  IInv' /\ committed' = committed
  BY <1>4, JoinStep, EndStep, GroupChangeStep
     DEF GroupStep, Join, Leave, Fenced, SessionExpires, kafka
<1>5. ASSUME NEW m \in Members, Fault(m)
      PROVE  IInv' /\ committed' = committed
  BY <1>5, EndStep, GroupChangeStep DEF Fault, Cancel, Evict, Crash, kafka
<1>6. ASSUME NEW m \in Members, Commit(m)
      PROVE  IInv' /\ committed' >= committed
  BY <1>6, CommitStep
<1> QED
  BY <1>1, <1>2, <1>3, <1>4, <1>5, <1>6 DEF Next

LEMMA Invariance == Spec => []IInv
<1>1. IInv /\ [Next]_vars => IInv'
  BY StepPreserves
<1> QED
  BY InitEstablishes, <1>1, PTL DEF Spec

(* Every variable keeps its type: the batch, the cursor and the positions  *)
(* stay within the partition and no retry exceeds MaxRetries.              *)
THEOREM TypeCorrect == Spec => []TypeOK
<1>1. IInv => TypeOK
  BY DEF IInv
<1> QED
  BY Invariance, <1>1, PTL

(* At-least-once persistence: however sessions end, nothing at or below a  *)
(* marked or committed position is without its row, dead letter or reason  *)
(* to be skipped.                                                          *)
THEOREM NothingIsLost == Spec => []NoLoss
<1>1. IInv => NoLoss
  BY DEF IInv, NoLoss, CommittedDurable, ClaimInv, MarkedDurable
<1> QED
  BY Invariance, <1>1, PTL

(* Until its claim returns, a member can account for every record it has   *)
(* read.                                                                   *)
THEOREM ReadsAreAccounted == Spec => []NothingSkipped
<1>1. IInv => NothingSkipped
  BY DEF IInv, NothingSkipped, ClaimInv, ReadAccounted
<1> QED
  BY Invariance, <1>1, PTL

(* Redelivery, zombies and duplicate ids never change which record a row   *)
(* holds: it is the first of its message_id in the partition.              *)
THEOREM FirstRecordWins == Spec => []RowIsFirstRecord
<1>1. IInv => RowIsFirstRecord
  BY DEF IInv
<1> QED
  BY Invariance, <1>1, PTL

(* The group's position never moves back, zombies and late commits         *)
(* notwithstanding.                                                        *)
THEOREM CommitsAdvance == Spec => [][committed' >= committed]_vars
<1>1. IInv /\ [Next]_vars => [committed' >= committed]_vars
  BY StepPreserves
<1> QED
  BY Invariance, <1>1, PTL DEF Spec
-----------------------------------------------------------------------------
(* Refinement *)

(* Nothing the consumer does takes a row or a dead letter away. *)
LEMMA StorageGrows ==
  ASSUME IInv, [Next]_vars
  PROVE  Grows
<1>1. CASE UNCHANGED vars
  BY <1>1 DEF vars, kafka, Grows
<1>2. ASSUME NEW m \in Members, Insert(m)
      PROVE  Grows
  <2>1. pending[m] \in SUBSET Offsets /\ \A i \in pending[m] : topic[i].kind = "valid"
    BY <1>2, Ranges DEF IInv, ClaimInv, Running, BatchReadAndValid, Insert
  <2>2. \A id \in MessageID : table[id] # NoRow => table'[id] = table[id]
    BY <1>2, <2>1, InsertedRows DEF IInv, Insert
  <2> QED
    BY <1>2, <2>2 DEF Grows, Insert, kafka
<1>3. ASSUME NEW m \in Members, HandlerStep(m), ~Insert(m)
      PROVE  Grows
  BY <1>3 DEF HandlerStep, ReceiveValid, ReceiveRejected, Tick, ClaimEnds,
     InsertSucceeds, InsertFails, RetryTimer, RecoveryTimer, WaitInterrupted,
     DeadLetterSucceeds, DeadLetterFails, kafka, Grows
<1>4. ASSUME NEW m \in Members, GroupStep(m) \/ Fault(m)
      PROVE  Grows
  BY <1>4 DEF GroupStep, Fault, Join, Commit, Leave, Fenced, SessionExpires,
     Cancel, Evict, Crash, kafka, Grows
<1> QED
  BY <1>1, <1>2, <1>3, <1>4 DEF Next

(* The offsets below a position are offsets of the partition.              *)
LEMMA Below ==
  ASSUME NEW p \in 1..(N + 1)
  PROVE  \A i \in 1..(p - 1) : i \in Offsets
BY Assumptions DEF Offsets

(* The consumer, its retries, rebalances and crashes included, implements  *)
(* the durable log: every step makes records safe, advances the position   *)
(* over safe records, or is invisible.                                     *)
THEOREM Refines == Spec => ImplementsDurableLog
<1> DEFINE safe == {i \in Offsets : Durable(i)}
<1>1. Init => Log!Init
  BY DEF Init, Log!Init, Log!Offsets, Offsets
<1>2. IInv /\ [Next]_vars => [Log!Next]_(Log!vars)
  <2> SUFFICES ASSUME IInv, [Next]_vars
               PROVE  [Log!Next]_(Log!vars)
    OBVIOUS
  <2>1. /\ IInv' /\ committed' >= committed /\ Grows
        /\ committed \in 1..(N + 1) /\ committed' \in 1..(N + 1) /\ N \in Nat
    BY StepPreserves, StorageGrows, Assumptions DEF IInv, TypeOK
  <2>2. safe \subseteq safe' /\ safe' \in SUBSET Offsets
    BY <2>1, DurableStays DEF IInv
  <2>3. CASE committed' = committed
    <3>1. Log!MakeSafe
      BY <2>2, <2>3 DEF Log!MakeSafe, Log!Offsets, Offsets
    <3> QED
      BY <3>1 DEF Log!Next
  <2>4. CASE committed' # committed
    <3>1. PICK m \in Members : Commit(m)
      <4>1. ~UNCHANGED vars
        BY <2>4 DEF vars, kafka
      <4>2. PICK m \in Members : HandlerStep(m) \/ GroupStep(m) \/ Fault(m)
        BY <4>1 DEF Next
      <4>3. Commit(m)
        BY <2>4, <4>2 DEF HandlerStep, ReceiveValid, ReceiveRejected, Tick,
           ClaimEnds, Insert, InsertSucceeds, InsertFails, RetryTimer,
           RecoveryTimer, WaitInterrupted, DeadLetterSucceeds, DeadLetterFails,
           GroupStep, Join, Leave, Fenced, SessionExpires, Fault, Cancel, Evict,
           Crash, kafka
      <4> QED
        BY <4>3
    <3>2. \A i \in Offsets : Durable(i)' <=> Durable(i)
      BY <3>1 DEF Commit, Durable
    <3>3. safe' = safe
      BY <3>2 DEF Offsets
    <3>4. 1..(committed' - 1) \subseteq safe
      <4>1. \A i \in 1..(committed' - 1) : i \in Offsets
        BY <2>1, Below
      <4>2. CommittedDurable'
        BY <2>1 DEF IInv
      <4>3. \A i \in 1..(committed' - 1) : Durable(i)'
        BY <4>2 DEF CommittedDurable
      <4> QED
        BY <3>2, <4>1, <4>3
    <3>5. committed' \in (committed + 1)..(N + 1)
      BY <2>1, <2>4
    <3>6. Log!Advance
      BY <3>3, <3>4, <3>5 DEF Log!Advance
    <3> QED
      BY <3>6 DEF Log!Next
  <2> QED
    BY <2>3, <2>4
<1> QED
  BY Invariance, <1>1, <1>2, PTL DEF Spec, ImplementsDurableLog, Log!Spec
=============================================================================
