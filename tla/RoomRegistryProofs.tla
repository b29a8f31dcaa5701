------------------------- MODULE RoomRegistryProofs -------------------------
(***************************************************************************)
(* RoomRegistry for any clients, addresses, rooms, names of subscriptions  *)
(* and limits.                                                             *)
(*                                                                         *)
(* Membership and subscriptions are handed from the handler goroutine to   *)
(* the manager and back, so the invariant says where the client in the     *)
(* manager's hands may be (ClientInHand) and when the manager holds a      *)
(* cancel function that no room refers to any more (CancelInHand).  The    *)
(* counters are natural numbers only because a release always gives back   *)
(* a slot that is held: TypeOK and SlotsAreExact are proved together.      *)
(***************************************************************************)
EXTENDS RoomRegistry, FiniteSetTheorems, TLAPS

ClientInHand ==
  /\ doing = "register" => phase[client] \in {"reading", "unregistering"}
  /\ doing \in {"unregister", "close"} =>
       phase[client] \in {"leaving", "outside"}

CancelInHand ==
  /\ doing # "close" => cancel = NoSub
  /\ cancel # NoSub =>
       /\ cancel \in running \ cancelled
       /\ \A r \in Rooms : cancelSub[r] # cancel

IInv ==
  /\ TypeOK
  /\ ClientInHand
  /\ CancelInHand
  /\ SlotsAreExact
  /\ MembersAreReaders
  /\ SubscriptionsFollowRooms
-----------------------------------------------------------------------------
(* Counting *)

(* The clients of S that are not outside, when they are where f says. *)
Inside(f, S) == {c \in S : f[c] # "outside"}

From(ip) == {c \in Clients : ipOf[c] = ip}

(* The sets SlotsAreExact counts. *)
LEMMA HoldersInside ==
  /\ Holders = Inside(phase, Clients)
  /\ Holders' = Inside(phase', Clients)
  /\ \A ip : HoldersFrom(ip) = Inside(phase, From(ip))
  /\ \A ip : HoldersFrom(ip)' = Inside(phase', From(ip))
BY DEF Holders, HoldersFrom, HoldsSlot, Inside, From

LEMMA InsideFinite ==
  ASSUME NEW S \in SUBSET Clients, NEW f
  PROVE  IsFiniteSet(Inside(f, S)) /\ Cardinality(Inside(f, S)) \in Nat
<1>1. Inside(f, S) \in SUBSET Clients
  BY DEF Inside
<1> QED
  BY <1>1, Assumptions, FS_Subset, FS_CardinalityType

(* A client that comes in is one more. *)
LEMMA Enters ==
  ASSUME NEW S \in SUBSET Clients, NEW f \in [Clients -> Phases],
         NEW c \in Clients, f[c] = "outside",
         NEW p \in Phases, p # "outside"
  PROVE  Cardinality(Inside([f EXCEPT ![c] = p], S))
           = Cardinality(Inside(f, S)) + (IF c \in S THEN 1 ELSE 0)
<1> DEFINE g == [f EXCEPT ![c] = p]
<1>1. CASE c \in S
  <2>1. Inside(g, S) = Inside(f, S) \cup {c}
    BY <1>1 DEF Inside
  <2>2. c \notin Inside(f, S)
    BY DEF Inside
  <2> QED
    <3>1. IsFiniteSet(Inside(f, S))
      BY InsideFinite
    <3>2. Cardinality(Inside(f, S) \cup {c}) = Cardinality(Inside(f, S)) + 1
      BY ONLY <3>1, <2>2, FS_AddElement, Zenon
    <3> QED
      BY <1>1, <2>1, <3>2, Zenon
<1>2. CASE c \notin S
  <2>1. Inside(g, S) = Inside(f, S)
    BY <1>2 DEF Inside
  <2> QED
    BY <1>2, <2>1, InsideFinite
<1> QED
  BY <1>1, <1>2

(* A client that goes out is one less, and there was at least one. *)
LEMMA Leaves ==
  ASSUME NEW S \in SUBSET Clients, NEW f \in [Clients -> Phases],
         NEW c \in Clients, f[c] # "outside"
  PROVE  /\ Cardinality(Inside([f EXCEPT ![c] = "outside"], S))
              = Cardinality(Inside(f, S)) - (IF c \in S THEN 1 ELSE 0)
         /\ c \in S => Cardinality(Inside(f, S)) \in Nat \ {0}
<1> DEFINE g == [f EXCEPT ![c] = "outside"]
<1>1. CASE c \in S
  <2>1. Inside(g, S) = Inside(f, S) \ {c}
    BY <1>1 DEF Inside, Phases
  <2>2. c \in Inside(f, S)
    BY <1>1 DEF Inside
  <2>3. Cardinality(Inside(g, S)) = Cardinality(Inside(f, S)) - 1
    <3>1. IsFiniteSet(Inside(f, S))
      BY InsideFinite
    <3>2. Cardinality(Inside(f, S) \ {c}) = Cardinality(Inside(f, S)) - 1
      BY ONLY <3>1, <2>2, FS_RemoveElement, Zenon
    <3> QED
      BY <2>1, <3>2, Zenon
  <2>4. Cardinality(Inside(f, S)) # 0
    BY <2>2, InsideFinite, FS_EmptySet
  <2> QED
    BY <1>1, <2>3, <2>4, InsideFinite
<1>2. CASE c \notin S
  <2>1. Inside(g, S) = Inside(f, S)
    BY <1>2 DEF Inside
  <2> QED
    BY <1>2, <2>1, InsideFinite
<1> QED
  BY <1>1, <1>2

(* A client that only moves on changes no count. *)
LEMMA Stays ==
  ASSUME NEW S \in SUBSET Clients, NEW f \in [Clients -> Phases],
         NEW c \in Clients, f[c] # "outside",
         NEW p \in Phases, p # "outside"
  PROVE  Inside([f EXCEPT ![c] = p], S) = Inside(f, S)
BY DEF Inside
-----------------------------------------------------------------------------
(* Slots *)

LEMMA FromClients == \A ip : From(ip) \in SUBSET Clients
BY DEF From

LEMMA SlotTaken ==
  ASSUME TypeOK, SlotsAreExact, NEW c \in Clients, NEW r \in Rooms, Admit(c, r)
  PROVE  SlotsAreExact'
<1>1. /\ phase[c] = "outside" /\ phase' = [phase EXCEPT ![c] = "admitted"]
      /\ phase \in [Clients -> Phases] /\ "admitted" \in Phases
  BY DEF Admit, Move, TypeOK, Phases
<1>2. Cardinality(Inside(phase', Clients)) = Cardinality(Inside(phase, Clients)) + 1
  BY <1>1, Enters
<1>3. ASSUME NEW ip \in IPs
      PROVE  Cardinality(Inside(phase', From(ip)))
               = Cardinality(Inside(phase, From(ip)))
                   + (IF ip = ipOf[c] THEN 1 ELSE 0)
  <2>1. From(ip) \in SUBSET Clients /\ (c \in From(ip) <=> ip = ipOf[c])
    BY DEF From
  <2>2. Cardinality(Inside(phase', From(ip)))
          = Cardinality(Inside(phase, From(ip)))
              + (IF c \in From(ip) THEN 1 ELSE 0)
    BY <1>1, <2>1, Enters
  <2> QED
    BY <2>1, <2>2
<1>4. connections' = Cardinality(Inside(phase', Clients)) /\ connections' <= MaxConnections
  BY <1>2, HoldersInside, Assumptions DEF SlotsAreExact, Admit, TypeOK
<1>5. ASSUME NEW ip \in IPs
      PROVE  /\ connectionsIP'[ip] = Cardinality(Inside(phase', From(ip)))
             /\ connectionsIP'[ip] <= MaxConnectionsPerIP
  <2>1. connectionsIP[ip] = Cardinality(Inside(phase, From(ip)))
    BY HoldersInside DEF SlotsAreExact
  <2>2. connectionsIP[ip] \in Nat /\ connectionsIP[ip] <= MaxConnectionsPerIP
    BY DEF SlotsAreExact, TypeOK
  <2>3. connectionsIP'[ip] = connectionsIP[ip] + (IF ip = ipOf[c] THEN 1 ELSE 0)
    BY DEF Admit, TypeOK
  <2>4. ip = ipOf[c] => connectionsIP[ip] < MaxConnectionsPerIP
    BY DEF Admit
  <2>5. connectionsIP'[ip] = Cardinality(Inside(phase', From(ip)))
    BY <1>3, <2>1, <2>3
  <2> QED
    BY <2>2, <2>3, <2>4, <2>5, Assumptions
<1> QED
  BY <1>4, <1>5, HoldersInside DEF SlotsAreExact

(* A release gives back a slot that is held. *)
LEMMA SlotReleased ==
  ASSUME TypeOK, SlotsAreExact, NEW c \in Clients,
         HoldsSlot(c), phase' = [phase EXCEPT ![c] = "outside"], Release(c)
  PROVE  /\ SlotsAreExact'
         /\ connections' \in Nat
         /\ connectionsIP' \in [IPs -> Nat]
<1>1. phase[c] # "outside" /\ phase \in [Clients -> Phases]
  BY DEF HoldsSlot, TypeOK
<1>2. /\ Cardinality(Inside(phase', Clients)) = Cardinality(Inside(phase, Clients)) - 1
      /\ Cardinality(Inside(phase, Clients)) \in Nat \ {0}
  BY <1>1, Leaves
<1>3. ASSUME NEW ip \in IPs
      PROVE  /\ Cardinality(Inside(phase', From(ip)))
                  = Cardinality(Inside(phase, From(ip)))
                      - (IF ip = ipOf[c] THEN 1 ELSE 0)
             /\ ip = ipOf[c] => Cardinality(Inside(phase, From(ip))) \in Nat \ {0}
  <2>1. c \in From(ip) <=> ip = ipOf[c]
    BY DEF From
  <2> QED
    BY <1>1, <2>1, FromClients, Leaves
<1>4. /\ connections' = Cardinality(Inside(phase', Clients))
      /\ connections' <= MaxConnections
      /\ connections' \in Nat
  <2>1. connections = Cardinality(Inside(phase, Clients))
    BY HoldersInside DEF SlotsAreExact
  <2>2. connections \in Nat /\ connections <= MaxConnections
    BY DEF SlotsAreExact, TypeOK
  <2>3. connections' = connections - 1
    BY DEF Release
  <2> QED
    BY <1>2, <2>1, <2>2, <2>3, Assumptions
<1>5. ASSUME NEW ip \in IPs
      PROVE  /\ connectionsIP'[ip] = Cardinality(Inside(phase', From(ip)))
             /\ connectionsIP'[ip] <= MaxConnectionsPerIP
             /\ connectionsIP'[ip] \in Nat
  <2>1. connectionsIP[ip] = Cardinality(Inside(phase, From(ip)))
    BY HoldersInside DEF SlotsAreExact
  <2>2. connectionsIP[ip] \in Nat /\ connectionsIP[ip] <= MaxConnectionsPerIP
    BY DEF SlotsAreExact, TypeOK
  <2>3. connectionsIP'[ip] = connectionsIP[ip] - (IF ip = ipOf[c] THEN 1 ELSE 0)
    BY DEF Release, TypeOK
  <2>4. connectionsIP'[ip] = Cardinality(Inside(phase', From(ip)))
    BY <1>3, <2>1, <2>3
  <2>5. ip = ipOf[c] => connectionsIP[ip] \in Nat \ {0}
    BY <1>3, <2>1
  <2> QED
    BY <2>2, <2>3, <2>4, <2>5, Assumptions
<1>6. connectionsIP' \in [IPs -> Nat]
  BY <1>5 DEF Release, TypeOK
<1> QED
  BY <1>4, <1>5, <1>6, HoldersInside DEF SlotsAreExact

LEMMA SlotKept ==
  ASSUME TypeOK, SlotsAreExact, NEW c \in Clients, HoldsSlot(c),
         NEW p \in Phases, p # "outside",
         phase' = [phase EXCEPT ![c] = p], UNCHANGED slots
  PROVE  SlotsAreExact'
<1>1. phase[c] # "outside" /\ phase \in [Clients -> Phases]
  BY DEF HoldsSlot, TypeOK
<1>2. \A S \in SUBSET Clients : Inside(phase', S) = Inside(phase, S)
  BY <1>1, Stays
<1> QED
  BY <1>2, FromClients, HoldersInside DEF SlotsAreExact, slots

LEMMA SlotsSame ==
  ASSUME SlotsAreExact, UNCHANGED <<phase, slots>>
  PROVE  SlotsAreExact'
BY DEF SlotsAreExact, Holders, HoldersFrom, HoldsSlot, slots
-----------------------------------------------------------------------------
(* The initial states *)

LEMMA InitEstablishes == Init => IInv
<1> SUFFICES ASSUME Init
             PROVE  IInv
  OBVIOUS
<1>1. TypeOK
  BY Assumptions DEF Init, TypeOK, Phases
<1>2. ClientInHand /\ CancelInHand
  BY Assumptions DEF Init, ClientInHand, CancelInHand
<1>3. SlotsAreExact
  <2>1. Inside(phase, Clients) = {} /\ \A ip : Inside(phase, From(ip)) = {}
    BY DEF Init, Inside, From
  <2>2. Cardinality(Holders) = 0 /\ \A ip : Cardinality(HoldersFrom(ip)) = 0
    BY <2>1, HoldersInside, FS_EmptySet
  <2>3. 0 <= MaxConnections /\ 0 <= MaxConnectionsPerIP
    BY Assumptions
  <2> QED
    BY <2>2, <2>3 DEF Init, SlotsAreExact
<1>4. MembersAreReaders
  BY DEF Init, MembersAreReaders, Handling
<1>5. SubscriptionsFollowRooms
  BY DEF Init, SubscriptionsFollowRooms
<1> QED
  BY <1>1, <1>2, <1>3, <1>4, <1>5 DEF IInv

(* Every slot of every step: the holders change only when a client is      *)
(* admitted or its handler returns, and so do the counters.                *)
LEMMA SlotsStep ==
  ASSUME TypeOK, SlotsAreExact, [Next]_vars
  PROVE  /\ SlotsAreExact'
         /\ connections' \in Nat
         /\ connectionsIP' \in [IPs -> Nat]
<1> USE DEF Phases
<1>1. ASSUME NEW c \in Clients, NEW r \in Rooms, Admit(c, r)
      PROVE  /\ SlotsAreExact'
             /\ connections' \in Nat
             /\ connectionsIP' \in [IPs -> Nat]
  <2>1. SlotsAreExact'
    BY <1>1, SlotTaken
  <2>2. connections + 1 \in Nat /\ connectionsIP[ipOf[c]] + 1 \in Nat
    BY Assumptions DEF TypeOK
  <2> QED
    BY <1>1, <2>1, <2>2 DEF Admit, TypeOK
<1>2. ASSUME NEW c \in Clients, UpgradeFails(c) \/ Return(c)
      PROVE  /\ SlotsAreExact'
             /\ connections' \in Nat
             /\ connectionsIP' \in [IPs -> Nat]
  BY <1>2, SlotReleased DEF UpgradeFails, Return, Move, HoldsSlot
<1>3. ASSUME NEW c \in Clients,
             Upgrade(c) \/ ReadFails(c) \/ TakeRegister(c) \/ TakeUnregister(c)
      PROVE  SlotsAreExact' /\ UNCHANGED slots
  <2>1. PICK p \in Phases \ {"outside"} : phase' = [phase EXCEPT ![c] = p]
    BY <1>3 DEF Upgrade, ReadFails, TakeRegister, TakeUnregister, Move
  <2>2. HoldsSlot(c) /\ UNCHANGED slots
    BY <1>3 DEF Upgrade, ReadFails, TakeRegister, TakeUnregister, Move,
                HoldsSlot, slots
  <2> QED
    BY <2>1, <2>2, SlotKept
<1>4. ASSUME \/ \E c \in Clients : Break(c)
             \/ HandleRegister \/ HandleUnregister \/ CloseAndCancel
             \/ \E s \in Subs : SubscriptionEnds(s)
             \/ UNCHANGED vars
      PROVE  SlotsAreExact' /\ UNCHANGED slots
  <2>1. UNCHANGED <<phase, slots>>
    BY <1>4 DEF Break, HandleRegister, HandleUnregister, CloseAndCancel,
                SubscriptionEnds, vars, handlers, slots
  <2> QED
    BY <2>1, SlotsSame
<1> QED
  BY <1>1, <1>2, <1>3, <1>4 DEF Next, HandlerStep, Environment, ManagerStep,
                                slots, TypeOK

LEMMA TypeStep ==
  ASSUME IInv, [Next]_vars
  PROVE  TypeOK'
<1> USE DEF TypeOK, Phases
<1>0. TypeOK /\ connections' \in Nat /\ connectionsIP' \in [IPs -> Nat]
  BY SlotsStep DEF IInv
<1>1. ASSUME NEW c \in Clients, HandlerStep(c)
      PROVE  TypeOK'
  BY <1>0, <1>1 DEF HandlerStep, UpgradeFails, Upgrade, ReadFails, Return, Move,
                    manager, subscriptions
<1>2. ASSUME NEW c \in Clients, Environment(c)
      PROVE  TypeOK'
  <2>1. ASSUME NEW r \in Rooms, Admit(c, r)
        PROVE  TypeOK'
    BY <1>0, <2>1 DEF Admit, Move, manager, subscriptions
  <2>2. CASE Break(c)
    BY <1>0, <2>2 DEF Break, slots, manager, subscriptions
  <2> QED
    BY <1>2, <2>1, <2>2 DEF Environment
<1>3. ASSUME NEW c \in Clients, TakeRegister(c) \/ TakeUnregister(c)
      PROVE  TypeOK'
  BY <1>0, <1>3, Assumptions DEF TakeRegister, TakeUnregister, Move, subscriptions
<1>4. CASE HandleRegister
  BY <1>0, <1>4, Assumptions DEF HandleRegister, handlers, slots
<1>5. CASE HandleUnregister
  BY <1>0, <1>5, Assumptions DEF HandleUnregister, handlers, slots, subscriptions
<1>6. CASE CloseAndCancel
  <2>1. cancel = NoSub \/ cancel \in running
    BY DEF IInv, CancelInHand
  <2> QED
    BY <1>0, <1>6, <2>1, Assumptions DEF CloseAndCancel, slots
<1>7. ASSUME NEW s \in Subs, SubscriptionEnds(s)
      PROVE  TypeOK'
  BY <1>0, <1>7 DEF SubscriptionEnds, handlers, slots, manager
<1>8. CASE UNCHANGED vars
  BY <1>0, <1>8 DEF vars, handlers, slots, manager, subscriptions
<1> QED
  BY <1>1, <1>2, <1>3, <1>4, <1>5, <1>6, <1>7, <1>8 DEF Next, ManagerStep

LEMMA ClientInHandStep ==
  ASSUME IInv, [Next]_vars
  PROVE  ClientInHand'
<1>0. TypeOK /\ ClientInHand
  BY DEF IInv
<1> USE DEF ClientInHand
<1>1. ASSUME NEW c \in Clients, HandlerStep(c)
      PROVE  ClientInHand'
  BY <1>0, <1>1 DEF HandlerStep, UpgradeFails, Upgrade, ReadFails, Return, Move,
                    manager, TypeOK
<1>2. ASSUME NEW c \in Clients, Environment(c)
      PROVE  ClientInHand'
  BY <1>0, <1>2 DEF Environment, Admit, Break, Move, manager, TypeOK
<1>3. ASSUME NEW c \in Clients, TakeRegister(c) \/ TakeUnregister(c)
      PROVE  ClientInHand'
  BY <1>0, <1>3 DEF TakeRegister, TakeUnregister, Move, TypeOK
<1>4. CASE HandleRegister \/ HandleUnregister \/ CloseAndCancel
  BY <1>0, <1>4 DEF HandleRegister, HandleUnregister, CloseAndCancel, handlers
<1>5. ASSUME \/ \E s \in Subs : SubscriptionEnds(s)
             \/ UNCHANGED vars
      PROVE  ClientInHand'
  BY <1>0, <1>5 DEF SubscriptionEnds, vars, handlers, manager
<1> QED
  BY <1>1, <1>2, <1>3, <1>4, <1>5 DEF Next, ManagerStep

(* Broken connections and slots are no part of who is a member.            *)
LEMMA MembersSame ==
  ASSUME MembersAreReaders, UNCHANGED <<phase, roomOf, rooms, doing, client>>
  PROVE  MembersAreReaders'
BY DEF MembersAreReaders, Handling

LEMMA MembersStep ==
  ASSUME IInv, [Next]_vars
  PROVE  MembersAreReaders'
<1>0. TypeOK /\ ClientInHand /\ MembersAreReaders
  BY DEF IInv
<1> USE DEF MembersAreReaders, Handling
<1>1. ASSUME NEW c \in Clients, HandlerStep(c)
      PROVE  MembersAreReaders'
  BY <1>0, <1>1 DEF HandlerStep, UpgradeFails, Upgrade, ReadFails, Return, Move,
                    manager, TypeOK
<1>2. ASSUME NEW c \in Clients, NEW r \in Rooms, Admit(c, r)
      PROVE  MembersAreReaders'
  BY <1>0, <1>2 DEF Admit, Move, manager, TypeOK
<1>3. ASSUME NEW c \in Clients, TakeRegister(c)
      PROVE  MembersAreReaders'
  BY <1>0, <1>3 DEF TakeRegister, Move, TypeOK
<1>4. CASE HandleRegister
  BY <1>0, <1>4 DEF HandleRegister, handlers, TypeOK, ClientInHand
<1>5. ASSUME NEW c \in Clients, TakeUnregister(c)
      PROVE  MembersAreReaders'
  BY <1>0, <1>5 DEF TakeUnregister, Move, TypeOK
<1>6. CASE HandleUnregister
  BY <1>0, <1>6 DEF HandleUnregister, handlers, TypeOK, ClientInHand
<1>7. CASE CloseAndCancel
  BY <1>0, <1>7 DEF CloseAndCancel, TypeOK
<1>8. ASSUME \/ \E c \in Clients : Break(c)
             \/ \E s \in Subs : SubscriptionEnds(s)
             \/ UNCHANGED vars
      PROVE  MembersAreReaders'
  <2>1. UNCHANGED <<phase, roomOf, rooms, doing, client>>
    BY <1>8 DEF Break, SubscriptionEnds, vars, handlers, manager
  <2> QED
    BY <1>0, <2>1, MembersSame
<1> QED
  BY <1>1, <1>2, <1>3, <1>4, <1>5, <1>6, <1>7, <1>8
     DEF Next, Environment, ManagerStep

LEMMA SubscriptionsSame ==
  ASSUME SubscriptionsFollowRooms, CancelInHand,
         UNCHANGED <<cancel, rooms, cancelSub, subscriptions>>,
         doing' # "close" => doing # "close"
  PROVE  SubscriptionsFollowRooms' /\ CancelInHand'
BY DEF SubscriptionsFollowRooms, CancelInHand, subscriptions

LEMMA SubscriptionsStep ==
  ASSUME IInv, [Next]_vars
  PROVE  SubscriptionsFollowRooms' /\ CancelInHand'
<1>0. /\ TypeOK /\ SubscriptionsFollowRooms /\ CancelInHand
      /\ MembersAreReaders /\ ClientInHand
  BY DEF IInv
<1>1. ASSUME \/ \E c \in Clients : HandlerStep(c) \/ Environment(c)
             \/ \E c \in Clients : TakeRegister(c) \/ TakeUnregister(c)
             \/ UNCHANGED vars
      PROVE  SubscriptionsFollowRooms' /\ CancelInHand'
  <2>1. /\ UNCHANGED <<cancel, rooms, cancelSub, subscriptions>>
        /\ doing' # "close" => doing # "close"
    BY <1>1 DEF HandlerStep, UpgradeFails, Upgrade, ReadFails, Return,
                Environment, Admit, Break, TakeRegister, TakeUnregister,
                vars, manager
  <2> QED
    BY <1>0, <2>1, SubscriptionsSame
<1>2. CASE HandleRegister
  <2> DEFINE r == roomOf[client]
  <2>1. client \in Clients /\ r \in Rooms
    BY <1>0, <1>2 DEF HandleRegister, TypeOK
  <2>2. cancel = NoSub /\ cancel' = NoSub /\ cancelled' = cancelled
    BY <1>0, <1>2 DEF HandleRegister, CancelInHand
  <2>3. rooms'[r] # {} /\ \A q \in Rooms : q # r => rooms'[q] = rooms[q]
    BY <1>0, <1>2, <2>1 DEF HandleRegister, TypeOK
  <2>4. CASE rooms[r] # {}
    BY <1>0, <1>2, <2>1, <2>2, <2>3, <2>4
       DEF HandleRegister, SubscriptionsFollowRooms, CancelInHand
  <2>5. CASE rooms[r] = {}
    <3>1. PICK s \in Subs \ running :
            /\ running' = running \cup {s}
            /\ subRoom' = [subRoom EXCEPT ![s] = r]
            /\ cancelSub' = [cancelSub EXCEPT ![r] = s]
      BY <1>2, <2>5 DEF HandleRegister
    <3>2. cancelSub[r] = NoSub /\ s # NoSub /\ s \notin cancelled
      BY <1>0, <2>1, <2>5, Assumptions DEF SubscriptionsFollowRooms, TypeOK
    <3>3. subRoom'[s] = r /\ \A t \in running : subRoom'[t] = subRoom[t]
      BY <1>0, <3>1 DEF TypeOK
    <3>4. cancelSub'[r] = s /\ \A q \in Rooms : q # r => cancelSub'[q] = cancelSub[q]
      BY <1>0, <2>1, <3>1 DEF TypeOK
    <3>5. \A t \in running : subRoom[t] \in Rooms
      BY <1>0 DEF TypeOK
    <3>6. \A t \in running \ cancelled : subRoom[t] # r
      BY <1>0, <2>2, <3>2, Assumptions DEF SubscriptionsFollowRooms, TypeOK
    <3> QED
      BY <1>0, <2>1, <2>2, <2>3, <3>1, <3>2, <3>3, <3>4, <3>5, <3>6
         DEF SubscriptionsFollowRooms, CancelInHand
  <2> QED
    BY <2>4, <2>5
<1>3. CASE HandleUnregister
  <2> DEFINE r == roomOf[client]
  <2>1. client \in Clients /\ r \in Rooms /\ cancel = NoSub
    BY <1>0, <1>3 DEF HandleUnregister, TypeOK, CancelInHand
  <2>2. client \in rooms[r]
    BY <1>0, <1>3, <2>1 DEF HandleUnregister, MembersAreReaders, Handling
  <2>3. cancelSub[r] # NoSub
    BY <1>0, <2>1, <2>2 DEF SubscriptionsFollowRooms
  <2>4. \A q \in Rooms : q # r => rooms'[q] = rooms[q]
    BY <1>0, <1>3 DEF HandleUnregister, TypeOK
  <2>5. CASE rooms'[r] # {}
    BY <1>0, <1>3, <2>1, <2>3, <2>4, <2>5
       DEF HandleUnregister, SubscriptionsFollowRooms, CancelInHand, subscriptions
  <2>6. CASE rooms'[r] = {}
    <3>1. cancel' = cancelSub[r] /\ cancelSub' = [cancelSub EXCEPT ![r] = NoSub]
      BY <1>3, <2>6 DEF HandleUnregister
    <3>2. cancelSub'[r] = NoSub /\ \A q \in Rooms : q # r => cancelSub'[q] = cancelSub[q]
      BY <1>0, <2>1, <3>1 DEF TypeOK
    <3>3. UNCHANGED subscriptions /\ doing' = "close"
      BY <1>3 DEF HandleUnregister
    <3>4. \A t \in running \ cancelled : subRoom[t] \in Rooms /\ cancelSub[subRoom[t]] = t
      BY <1>0, <2>1, Assumptions DEF SubscriptionsFollowRooms, TypeOK
    <3>5. \A q \in Rooms : cancelSub'[q] # cancel'
      BY <1>0, <2>1, <2>3, <3>1, <3>2 DEF SubscriptionsFollowRooms
    <3> QED
      BY <1>0, <2>1, <2>3, <2>4, <2>6, <3>1, <3>2, <3>3, <3>4, <3>5
         DEF SubscriptionsFollowRooms, CancelInHand, subscriptions
  <2> QED
    BY <2>5, <2>6
<1>4. CASE CloseAndCancel
  <2>1. \A r \in Rooms : cancelSub[r] # NoSub => cancelSub[r] # cancel
    BY <1>0, <1>4 DEF CancelInHand
  <2> QED
    BY <1>0, <1>4, <2>1, Assumptions
       DEF CloseAndCancel, SubscriptionsFollowRooms, CancelInHand, TypeOK
<1>5. ASSUME NEW s \in Subs, SubscriptionEnds(s)
      PROVE  SubscriptionsFollowRooms' /\ CancelInHand'
  BY <1>0, <1>5 DEF SubscriptionEnds, SubscriptionsFollowRooms, CancelInHand,
                    manager
<1> QED
  BY <1>1, <1>2, <1>3, <1>4, <1>5 DEF Next, ManagerStep
-----------------------------------------------------------------------------
LEMMA StepPreserves == IInv /\ [Next]_vars => IInv'
<1> SUFFICES ASSUME IInv, [Next]_vars
             PROVE  IInv'
  OBVIOUS
<1>1. SlotsAreExact'
  BY SlotsStep DEF IInv
<1> QED
  BY <1>1, TypeStep, ClientInHandStep, MembersStep, SubscriptionsStep DEF IInv

LEMMA Invariance == Spec => []IInv
BY InitEstablishes, StepPreserves, PTL DEF Spec

(* The counters of AcquireConnection stay natural numbers, and every       *)
(* variable stays what its declaration says.                               *)
THEOREM TypeCorrect == Spec => []TypeOK
BY Invariance, PTL DEF IInv

(* Whatever order handlers, the manager and broken connections take, the   *)
(* counters AcquireConnection tests are the numbers of handlers holding a  *)
(* slot, in total and for each address, and are within both limits.        *)
THEOREM SlotsNeverLeak == Spec => []SlotsAreExact
BY Invariance, PTL DEF IInv

(* A client is in the set of its own room, and of no other, between the    *)
(* handling of its Register and that of its Unregister.                    *)
THEOREM MembershipFollowsPumps == Spec => []MembersAreReaders
BY Invariance, PTL DEF IInv

(* A room has a live subscription to itself exactly while it has clients,  *)
(* and no uncancelled subscription is out of the manager's reach.          *)
THEOREM NoSubscriptionIsLost == Spec => []SubscriptionsFollowRooms
BY Invariance, PTL DEF IInv
=============================================================================
