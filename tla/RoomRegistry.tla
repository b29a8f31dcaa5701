---------------------------- MODULE RoomRegistry ----------------------------
(***************************************************************************)
(* Who is connected to one V10 server: the handler goroutine of each       *)
(* connection from AcquireConnection to the release of its slot            *)
(* (src/v10/internal/ws/handler.go, client.go, ratelimit/controller.go),   *)
(* the manager goroutine that enters and leaves rooms, and the Redis       *)
(* subscription goroutine of each room (src/v10/internal/ws/manager.go).   *)
(*                                                                         *)
(* Register and Unregister are unbuffered: the sender goes on as soon as   *)
(* the manager has taken the client, before the manager has done anything  *)
(* with it.  The name of a client object or of a subscription is reused    *)
(* once nothing refers to the old one.                                     *)
(***************************************************************************)
EXTENDS Naturals, FiniteSets

CONSTANTS
  Clients,
  NoClient,
  IPs,
  ipOf,                 \* the address each client connects from
  Rooms,
  Subs,                 \* names of subscription goroutines (a bound on them)
  NoSub,
  MaxConnections,       \* Config.MaxConnections
  MaxConnectionsPerIP   \* Config.MaxConnectionsPerIP

ASSUME Assumptions ==
  /\ IsFiniteSet(Clients)
  /\ NoClient \notin Clients
  /\ ipOf \in [Clients -> IPs]
  /\ NoSub \notin Subs
  /\ MaxConnections \in Nat \ {0}
  /\ MaxConnectionsPerIP \in Nat \ {0}

VARIABLES
  (* connections *)
  phase,                \* where the handler goroutine of each client is
  roomOf,               \* Client.RoomID
  broken,               \* the connection is closed, by either side
  connections,          \* Controller.connections
  connectionsIP,        \* Controller.connectionsIP
  (* the manager *)
  doing,                \* where Manager.Run is
  client,               \* the client it handles
  cancel,               \* the subscription it is about to cancel
  rooms,                \* Manager.rooms; an absent room is an empty one
  cancelSub,            \* Manager.cancelSub
  (* subscriptions *)
  running,              \* the subscribeToRoom goroutines there are
  subRoom,              \* the room of each
  cancelled             \* those whose context is done

handlers      == <<phase, roomOf, broken>>
slots         == <<connections, connectionsIP>>
manager       == <<doing, client, cancel>>
subscriptions == <<running, subRoom, cancelled>>
vars == <<handlers, slots, manager, rooms, cancelSub, subscriptions>>

Phases == {"outside", "admitted", "registering", "reading", "unregistering",
           "leaving"}

TypeOK ==
  /\ phase \in [Clients -> Phases]
  /\ roomOf \in [Clients -> Rooms]
  /\ broken \in [Clients -> BOOLEAN]
  /\ connections \in Nat
  /\ connectionsIP \in [IPs -> Nat]
  /\ doing \in {"select", "register", "unregister", "close"}
  /\ client \in Clients \cup {NoClient}
  /\ client = NoClient <=> doing = "select"
  /\ cancel \in Subs \cup {NoSub}
  /\ rooms \in [Rooms -> SUBSET Clients]
  /\ cancelSub \in [Rooms -> Subs \cup {NoSub}]
  /\ running \subseteq Subs
  /\ subRoom \in [Subs -> Rooms]
  /\ cancelled \subseteq running

Init ==
  /\ phase = [c \in Clients |-> "outside"]
  /\ roomOf \in [Clients -> Rooms]
  /\ broken = [c \in Clients |-> FALSE]
  /\ connections = 0
  /\ connectionsIP = [ip \in IPs |-> 0]
  /\ doing = "select"
  /\ client = NoClient
  /\ cancel = NoSub
  /\ rooms = [r \in Rooms |-> {}]
  /\ cancelSub = [r \in Rooms |-> NoSub]
  /\ running = {}
  /\ subRoom \in [Subs -> Rooms]
  /\ cancelled = {}

Move(c, from, to) ==
  /\ phase[c] = from
  /\ phase' = [phase EXCEPT ![c] = to]
-----------------------------------------------------------------------------
(* ServeWS and ReadPump *)

Release(c) ==
  /\ connections' = connections - 1
  /\ connectionsIP' = [connectionsIP EXCEPT ![ipOf[c]] = @ - 1]

(* Variant: only the total is looked at. *)
AdmitTotalOnly(c, r) ==
  /\ Move(c, "outside", "admitted")
  /\ client # c
  /\ connections < MaxConnections
  /\ connections' = connections + 1
  /\ connectionsIP' = [connectionsIP EXCEPT ![ipOf[c]] = @ + 1]
  /\ roomOf' = [roomOf EXCEPT ![c] = r]
  /\ broken' = [broken EXCEPT ![c] = FALSE]
  /\ UNCHANGED <<manager, rooms, cancelSub, subscriptions>>

(* AcquireConnection lets the request in; a refused one changes nothing.   *)
Admit(c, r) ==
  /\ Move(c, "outside", "admitted")
  /\ client # c
  /\ connections < MaxConnections
  /\ connectionsIP[ipOf[c]] < MaxConnectionsPerIP
  /\ connections' = connections + 1
  /\ connectionsIP' = [connectionsIP EXCEPT ![ipOf[c]] = @ + 1]
  /\ roomOf' = [roomOf EXCEPT ![c] = r]
  /\ broken' = [broken EXCEPT ![c] = FALSE]
  /\ UNCHANGED <<manager, rooms, cancelSub, subscriptions>>

(* Variant: released on the error path and by the defer, without the once. *)
UpgradeFailsReleasingTwice(c) ==
  /\ Move(c, "admitted", "outside")
  /\ connections' = connections - 2
  /\ connectionsIP' = [connectionsIP EXCEPT ![ipOf[c]] = @ - 2]
  /\ UNCHANGED <<roomOf, broken, manager, rooms, cancelSub, subscriptions>>

UpgradeFails(c) ==
  /\ Move(c, "admitted", "outside")
  /\ Release(c)
  /\ UNCHANGED <<roomOf, broken, manager, rooms, cancelSub, subscriptions>>

Upgrade(c) ==
  /\ Move(c, "admitted", "registering")
  /\ UNCHANGED <<roomOf, broken, slots, manager, rooms, cancelSub,
                 subscriptions>>

(* Variant: the loop continues, as it does after a malformed packet. *)
ReadFailsContinuing(c) ==
  /\ broken[c]
  /\ phase[c] = "reading"
  /\ UNCHANGED vars

(* ReadMessage returns an error. *)
ReadFails(c) ==
  /\ broken[c]
  /\ Move(c, "reading", "unregistering")
  /\ UNCHANGED <<roomOf, broken, slots, manager, rooms, cancelSub,
                 subscriptions>>

(* The last deferred calls: Close, and the release of the slot. *)
Return(c) ==
  /\ Move(c, "leaving", "outside")
  /\ Release(c)
  /\ broken' = [broken EXCEPT ![c] = TRUE]
  /\ UNCHANGED <<roomOf, manager, rooms, cancelSub, subscriptions>>

(* The peer is gone, or WritePump or a broadcast worker has closed the     *)
(* connection.                                                             *)
Break(c) ==
  /\ phase[c] \in {"registering", "reading"}
  /\ ~broken[c]
  /\ broken' = [broken EXCEPT ![c] = TRUE]
  /\ UNCHANGED <<phase, roomOf, slots, manager, rooms, cancelSub, subscriptions>>
-----------------------------------------------------------------------------
(* Manager.Run *)

TakeRegister(c) ==
  /\ doing = "select"
  /\ Move(c, "registering", "reading")
  /\ doing' = "register"
  /\ client' = c
  /\ UNCHANGED <<roomOf, broken, slots, cancel, rooms, cancelSub, subscriptions>>

(* Variant: every client starts a subscription of its own. *)
HandleRegisterEach ==
  /\ doing = "register"
  /\ LET r == roomOf[client] IN
       /\ rooms' = [rooms EXCEPT ![r] = @ \cup {client}]
       /\ \E s \in Subs \ running :
            /\ running' = running \cup {s}
            /\ subRoom' = [subRoom EXCEPT ![s] = r]
            /\ cancelSub' = [cancelSub EXCEPT ![r] = s]
  /\ doing' = "select"
  /\ client' = NoClient
  /\ UNCHANGED <<handlers, slots, cancel, cancelled>>

(* The first client of a room brings the room's subscription with it. *)
HandleRegister ==
  /\ doing = "register"
  /\ LET r == roomOf[client] IN
       /\ rooms' = [rooms EXCEPT ![r] = @ \cup {client}]
       /\ IF rooms[r] # {}
            THEN UNCHANGED <<cancelSub, running, subRoom>>
            ELSE \E s \in Subs \ running :
                   /\ running' = running \cup {s}
                   /\ subRoom' = [subRoom EXCEPT ![s] = r]
                   /\ cancelSub' = [cancelSub EXCEPT ![r] = s]
  /\ doing' = "select"
  /\ client' = NoClient
  /\ UNCHANGED <<handlers, slots, cancel, cancelled>>

TakeUnregister(c) ==
  /\ doing = "select"
  /\ Move(c, "unregistering", "leaving")
  /\ doing' = "unregister"
  /\ client' = c
  /\ UNCHANGED <<roomOf, broken, slots, cancel, rooms, cancelSub, subscriptions>>

(* Variant: the client of an emptied room is not deleted. *)
HandleUnregisterLast ==
  /\ doing = "unregister"
  /\ LET r == roomOf[client] IN
       IF rooms[r] # {client}
         THEN /\ rooms' = [rooms EXCEPT ![r] = @ \ {client}]
              /\ UNCHANGED <<cancel, cancelSub>>
         ELSE /\ cancel' = cancelSub[r]
              /\ cancelSub' = [cancelSub EXCEPT ![r] = NoSub]
              /\ UNCHANGED rooms
  /\ doing' = "close"
  /\ UNCHANGED <<handlers, slots, client, subscriptions>>

(* The critical section of handleUnregister. *)
HandleUnregister ==
  /\ doing = "unregister"
  /\ LET r == roomOf[client] IN
       /\ rooms' = [rooms EXCEPT ![r] = @ \ {client}]
       /\ IF rooms'[r] # {}
            THEN UNCHANGED <<cancel, cancelSub>>
            ELSE /\ cancel' = cancelSub[r]
                 /\ cancelSub' = [cancelSub EXCEPT ![r] = NoSub]
  /\ doing' = "close"
  /\ UNCHANGED <<handlers, slots, client, subscriptions>>

(* What handleUnregister does after the lock is released. *)
CloseAndCancel ==
  /\ doing = "close"
  /\ broken' = [broken EXCEPT ![client] = TRUE]
  /\ cancelled' = cancelled \cup ({cancel} \ {NoSub})
  /\ cancel' = NoSub
  /\ doing' = "select"
  /\ client' = NoClient
  /\ UNCHANGED <<phase, roomOf, slots, rooms, cancelSub, running, subRoom>>
-----------------------------------------------------------------------------
(* Variant: its loop goes on after ctx.Done. *)
SubscriptionContinues(s) ==
  /\ s \in cancelled
  /\ UNCHANGED vars

(* subscribeToRoom sees its context done and returns. *)
SubscriptionEnds(s) ==
  /\ s \in cancelled
  /\ running' = running \ {s}
  /\ cancelled' = cancelled \ {s}
  /\ UNCHANGED <<handlers, slots, manager, rooms, cancelSub, subRoom>>
-----------------------------------------------------------------------------
HandlerStep(c) ==
  \/ UpgradeFails(c)
  \/ Upgrade(c)
  \/ ReadFails(c)
  \/ Return(c)

ManagerStep ==
  \/ \E c \in Clients : TakeRegister(c) \/ TakeUnregister(c)
  \/ HandleRegister
  \/ HandleUnregister
  \/ CloseAndCancel

Environment(c) ==
  \/ \E r \in Rooms : Admit(c, r)
  \/ Break(c)

Next ==
  \/ \E c \in Clients : HandlerStep(c) \/ Environment(c)
  \/ ManagerStep
  \/ \E s \in Subs : SubscriptionEnds(s)

Spec == Init /\ [][Next]_vars

(* Every goroutine is scheduled, and the manager's select, which picks any *)
(* ready case, picks each waiting client in the end.                       *)
LiveSpec ==
  /\ Spec
  /\ \A c \in Clients :
       /\ WF_vars(HandlerStep(c))
       /\ SF_vars(TakeRegister(c))
       /\ SF_vars(TakeUnregister(c))
  /\ WF_vars(ManagerStep)
  /\ \A s \in Subs : WF_vars(SubscriptionEnds(s))
-----------------------------------------------------------------------------
(* Properties *)

HoldsSlot(c) == phase[c] # "outside"
Holders == {c \in Clients : HoldsSlot(c)}
HoldersFrom(ip) == {c \in Clients : HoldsSlot(c) /\ ipOf[c] = ip}

(* Both counters of the controller always equal the number of handlers     *)
(* between AcquireConnection and their release, through failed upgrades    *)
(* and every order of closing, so that neither limit is ever exceeded nor  *)
(* silently lowered by a leaked slot.                                      *)
SlotsAreExact ==
  /\ connections = Cardinality(Holders)
  /\ connections <= MaxConnections
  /\ \A ip \in IPs :
       /\ connectionsIP[ip] = Cardinality(HoldersFrom(ip))
       /\ connectionsIP[ip] <= MaxConnectionsPerIP

Handling(op, c) == doing = op /\ client = c

(* A client is in the set of its own room, and of no other, from the time  *)
(* the manager has handled its Register until it has handled its           *)
(* Unregister.  (A snapshot of the room taken before may still be sent to  *)
(* it after that, see SlowClient.)                                         *)
MembersAreReaders ==
  \A c \in Clients, r \in Rooms :
    c \in rooms[r] <=>
      /\ roomOf[c] = r
      /\ \/ phase[c] \in {"reading", "unregistering"} /\ ~Handling("register", c)
         \/ Handling("unregister", c)

(* README v6, room subscription lifecycle: a room has a cancel function    *)
(* exactly while it has clients, that function is the one of a live        *)
(* subscription to this room, and every other subscription has been told   *)
(* to end, or is about to be by the manager.                               *)
SubscriptionsFollowRooms ==
  /\ \A r \in Rooms : cancelSub[r] # NoSub <=> rooms[r] # {}
  /\ \A r \in Rooms : cancelSub[r] # NoSub =>
       /\ cancelSub[r] \in running \ cancelled
       /\ subRoom[cancelSub[r]] = r
  /\ \A s \in running \ cancelled : cancelSub[subRoom[s]] = s \/ cancel = s

(* A connection that is broken, from whichever side, gives its slot back.  *)
BrokenIsReleased ==
  \A c \in Clients : (broken[c] /\ HoldsSlot(c)) ~> ~HoldsSlot(c)

(* A subscription to a room nobody is in any more goes away, even if the   *)
(* room is entered again at once.                                          *)
EmptyRoomUnsubscribes ==
  \A s \in Subs :
    (s \in running /\ rooms[subRoom[s]] = {}) ~> s \notin running
=============================================================================
