------------------------------ MODULE ChatGateway ------------------------------
(***************************************************************************)
(* Who hears what over the sockets: ChatGateway keeps a map from users to    *)
(* the socket and room they were last seen with, socket.io keeps the rooms   *)
(* of each socket, and the two change at different moments.  The map lives   *)
(* in the process and is never cleaned up; a user may have several sockets.  *)
(*                                                                           *)
(* Every listener is behind WsGuard, which puts the user of the socket's     *)
(* token into the payload; a socket whose token does not verify is refused   *)
(* at once and leaves no trace.                                              *)
(***************************************************************************)
EXTENDS FiniteSets

CONSTANTS
  Users,
  Rooms,    \* the ids clients name as rooms, which nothing compares with the chatrooms;
            \* the id of a socket, which is a room too, may be one of them
  Sockets,  \* ids of connections; socket.io never gives out an id twice
  None      \* no user, no entry, no room, no event

Entries == [clientId : Sockets, currentRoomId : Rooms \cup {None}]

Events == {"NEW_MESSAGE", "TYPING", "UPDATE_MESSAGE_STATUS"}

SocketEvents == Events \cup
  {"CLIENT_ON_NEW_MESSAGE", "SINGLE_CLIENT_ON_MESSAGE_SENT", "SINGLE_CLIENT_UPDATE_MESSAGE_STATUS"}

ASSUME ChatGatewayAssumption ==
  /\ None \notin Users \cup Rooms \cup Sockets \cup Events
  /\ None \notin Entries

VARIABLES
  owner,    \* the user of each socket, None for an id not yet given out
  open,     \* the connected sockets
  joined,   \* the rooms each socket is in
  joining,  \* the rooms each socket is about to be put in
  map,      \* onlineUsersMap
  out       \* the last event, the chatrooms its new messages are stored in, what was emitted

vars == <<owner, open, joined, joining, map, out>>

sockets == <<owner, open, joined, joining>>

Quiet == [event |-> None, from |-> None, stored |-> {}, emits |-> {}]

Init ==
  /\ owner = [s \in Sockets |-> None]
  /\ open = {}
  /\ joined = [s \in Sockets |-> {}]
  /\ joining = [s \in Sockets |-> {}]
  /\ map = [u \in Users |-> None]
  /\ out = Quiet

Entry(s, room) == [clientId |-> s, currentRoomId |-> room]

-----------------------------------------------------------------------------
(* Mutation: a user who comes back keeps the room the map has for them.     *)
StoreUserInOldRoom(s, u) ==
  map' = [map EXCEPT ![u] = Entry(s, IF @ = None THEN None ELSE @.currentRoomId)]

StoreUserToMap(s, u) == map' = [map EXCEPT ![u] = Entry(s, None)]

HandleConnection(s, u) ==
  /\ owner[s] = None
  /\ owner' = [owner EXCEPT ![s] = u]
  /\ open' = open \cup {s}
  /\ StoreUserToMap(s, u)
  /\ out' = Quiet
  /\ UNCHANGED <<joined, joining>>

(* Mutation: the deletion that is commented out.                            *)
DeleteOnDisconnect(s) ==
  /\ s \in open /\ joining[s] = {}
  /\ open' = open \ {s}
  /\ joined' = [joined EXCEPT ![s] = {}]
  /\ map' = [map EXCEPT ![owner[s]] = None]
  /\ out' = Quiet
  /\ UNCHANGED <<owner, joining>>

(* Mutation: verifyIfUserExistsInChatroom does the lookup it has commented   *)
(* out, and the socket closes meanwhile.                                    *)
DisconnectDuringJoin(s) ==
  /\ s \in open
  /\ open' = open \ {s}
  /\ joined' = [joined EXCEPT ![s] = {}]
  /\ out' = Quiet
  /\ UNCHANGED <<owner, joining, map>>

(* socket.io takes a closed socket out of its rooms; the handler only logs. *)
(* Nothing joinRoom awaits leaves the microtask queue, so a join that has   *)
(* begun ends before a socket closes.                                       *)
HandleDisconnect(s) ==
  /\ s \in open /\ joining[s] = {}
  /\ open' = open \ {s}
  /\ joined' = [joined EXCEPT ![s] = {}]
  /\ out' = Quiet
  /\ UNCHANGED <<owner, joining, map>>

(* Mutation: the socket joins, the map is not told.                         *)
JoinWithoutMap(s, room) ==
  /\ s \in open
  /\ joining' = [joining EXCEPT ![s] = @ \cup {room}]
  /\ out' = Quiet
  /\ UNCHANGED <<owner, open, joined, map>>

(* joinRoom: the map changes before the await, the socket's rooms after it. *)
(* verifyIfUserExistsInChatroom accepts every room.                         *)
OnJoinRoom(s, room) ==
  /\ s \in open
  /\ map' = [map EXCEPT ![owner[s]] = Entry(s, room)]
  /\ joining' = [joining EXCEPT ![s] = @ \cup {room}]
  /\ out' = Quiet
  /\ UNCHANGED <<owner, open, joined>>

JoinRoom(s, room) ==
  /\ room \in joining[s]
  /\ joined' = [joined EXCEPT ![s] = @ \cup {room}]
  /\ joining' = [joining EXCEPT ![s] = @ \ {room}]
  /\ out' = Quiet
  /\ UNCHANGED <<owner, open, map>>

(* LEAVE_ROOM, CHECK_UPDATES, PRINT_MAP and DISCONNECT do nothing.          *)
IgnoreEvent(s) ==
  /\ s \in open
  /\ out' = Quiet
  /\ UNCHANGED <<sockets, map>>

-----------------------------------------------------------------------------
(* The connected sockets in a room: those that joined it, and the socket     *)
(* whose id it is.                                                          *)
InRoom(room) == {t \in open : room \in joined[t] \cup {t}}

(* client.broadcast.to(room): the other sockets in it.  Nobody is in the    *)
(* room of a user who is in none.                                           *)
OthersIn(s, room) == InRoom(room) \ {s}

(* server.to(clientId) is a room like any other: it reaches the socket, if  *)
(* it is still there, and whoever joined a room of that name.               *)
Client(id) == InRoom(id)

Emitted(listeners, event) == {[to |-> t, event |-> event] : t \in listeners}

(* The room of the outgoing payload; that its messages name another is only *)
(* logged.                                                                  *)
ConstructNewMessage(u) == map[u].currentRoomId

(* The messages are broadcast to the room the map has for the sender,       *)
(* confirmed to the socket, and handed over to be stored, each under the     *)
(* chatroom it names itself ("rooms"), whatever room the payload names.     *)
OnNewMessage(s, rooms) ==
  /\ s \in open
  /\ map[owner[s]] # None
  /\ out' = [event |-> "NEW_MESSAGE", from |-> s, stored |-> rooms,
             emits |-> Emitted(OthersIn(s, ConstructNewMessage(owner[s])), "CLIENT_ON_NEW_MESSAGE")
                       \cup Emitted(Client(s), "SINGLE_CLIENT_ON_MESSAGE_SENT")]
  /\ UNCHANGED <<sockets, map>>

(* TYPING, MESSAGE_DELIVERED and MESSAGE_SEEN, which differ in name only,   *)
(* go to the room the payload names, whether the socket is in it or not.    *)
BroadcastToNamedRoom(s, room) ==
  /\ s \in open
  /\ out' = [event |-> "TYPING", from |-> s, stored |-> {},
             emits |-> Emitted(OthersIn(s, room), "TYPING")]
  /\ UNCHANGED <<sockets, map>>

Unknown == {u \in Users : map[u] = None}

(* The loop over the users named ends at the first the map does not know;   *)
(* the job was added before it.                                             *)
Reached(named) ==
  IF named \cap Unknown = {} THEN {named} ELSE SUBSET (named \ Unknown)

Notifications(notified) ==
  UNION {Emitted(Client(map[u].clientId), "SINGLE_CLIENT_UPDATE_MESSAGE_STATUS") : u \in notified}

(* The users told are those the payload of the acknowledging client names   *)
(* as senders, which nobody compares with the messages that are stored.     *)
(* What becomes of the statuses is ChatMessages' matter.                    *)
OnUpdateMessageStatus(s, named) ==
  /\ s \in open
  /\ \E notified \in Reached(named) :
       out' = [event |-> "UPDATE_MESSAGE_STATUS", from |-> None, stored |-> {},
               emits |-> Notifications(notified)]
  /\ UNCHANGED <<sockets, map>>

(* The process ends and starts again: no socket, an empty map.              *)
Restart ==
  /\ open' = {}
  /\ joined' = [s \in Sockets |-> {}]
  /\ joining' = [s \in Sockets |-> {}]
  /\ map' = [u \in Users |-> None]
  /\ out' = Quiet
  /\ UNCHANGED owner

Next ==
  \/ \E s \in Sockets :
       \/ \E u \in Users : HandleConnection(s, u)
       \/ HandleDisconnect(s)
       \/ IgnoreEvent(s)
       \/ \E room \in Rooms :
            \/ OnJoinRoom(s, room)
            \/ JoinRoom(s, room)
            \/ BroadcastToNamedRoom(s, room)
       \/ \E rooms \in (SUBSET Rooms) \ {{}} : OnNewMessage(s, rooms)
       \/ \E named \in (SUBSET Users) \ {{}} : OnUpdateMessageStatus(s, named)
  \/ Restart

Spec == Init /\ [][Next]_vars

-----------------------------------------------------------------------------
(* Types of the variables; only a socket that was given out is in use, and  *)
(* a map entry's socket is or was its user's.                               *)
TypeOK ==
  /\ owner \in [Sockets -> Users \cup {None}]
  /\ open \subseteq {s \in Sockets : owner[s] # None}
  /\ joined \in [Sockets -> SUBSET Rooms]
  /\ joining \in [Sockets -> SUBSET Rooms]
  /\ \A s \in Sockets \ open : joined[s] = {} /\ joining[s] = {}
  /\ map \in [Users -> Entries \cup {None}]
  /\ \A u \in Users \ Unknown : owner[map[u].clientId] = u
  /\ out.event \in Events \cup {None}
  /\ out.from \in Sockets \cup {None}
  /\ out.stored \subseteq Rooms
  /\ out.emits \subseteq [to : Sockets, event : SocketEvents]

(* A connected user is in the map, whichever of the user's other sockets    *)
(* come and go: constructNewMessage reads the entry without looking whether *)
(* there is one.                                                            *)
ConnectedIsKnown == \A s \in open : map[owner[s]] # None

(* A user's messages are broadcast to a room that the socket in the map     *)
(* itself has asked for, unless that socket is gone: no reconnect inherits  *)
(* the room of the connection before it.                                    *)
RoomWasJoined ==
  \A u \in Users \ Unknown :
    \/ map[u].currentRoomId = None
    \/ map[u].clientId \notin open
    \/ map[u].currentRoomId \in joined[map[u].clientId] \cup joining[map[u].clientId]

(* The user has had no other socket since the start, and only asked for     *)
(* this room on it.                                                         *)
OnlyIn(s, room) ==
  /\ joined[s] = {room} /\ joining[s] = {}
  /\ \A t \in Sockets \ {s} : owner[t] # owner[s]

(* When the messages of a client that uses one socket and one room all name *)
(* that room, so that they are stored there and nowhere else, they are heard *)
(* by the other sockets in the room and by no others.                       *)
HeardInRoom ==
  \A room \in Rooms :
    out.event = "NEW_MESSAGE" /\ out.stored = {room} /\ OnlyIn(out.from, room) =>
      {e.to : e \in {x \in out.emits : x.event = "CLIENT_ON_NEW_MESSAGE"}} = OthersIn(out.from, room)
=============================================================================
