--------------------------- MODULE ChatGatewayProofs ---------------------------
(***************************************************************************)
(* ChatGateway's invariants for any users, rooms and sockets.                *)
(***************************************************************************)
EXTENDS ChatGateway, TLAPS

(* The user has had no other socket since the start.                        *)
Single(s) == \A t \in Sockets \ {s} : owner[t] # owner[s]

(* The map knows such a socket, and its room once it has asked for one.     *)
SingleIsKnown ==
  \A s \in open : Single(s) =>
    /\ map[owner[s]].clientId = s
    /\ map[owner[s]].currentRoomId = None => joined[s] \cup joining[s] = {}

State == TypeOK /\ ConnectedIsKnown /\ RoomWasJoined /\ SingleIsKnown

GatewayInv == State /\ HeardInRoom

OutType ==
  /\ out.event \in Events \cup {None}
  /\ out.from \in Sockets \cup {None}
  /\ out.stored \subseteq Rooms
  /\ out.emits \subseteq [to : Sockets, event : SocketEvents]

(* Nothing is emitted, so nobody hears anything wrong.                      *)
LEMMA QuietOut ==
  ASSUME out = Quiet
  PROVE  OutType /\ HeardInRoom
<1>1. out.event = None /\ out.from = None /\ out.stored = {} /\ out.emits = {}
  BY DEF Quiet
<1>2. out.event # "NEW_MESSAGE"
  BY <1>1, ChatGatewayAssumption DEF Events
<1>3. OutType
  BY <1>1 DEF OutType
<1>5. HeardInRoom
  BY <1>2 DEF HeardInRoom
<1> QED
  BY <1>3, <1>5

LEMMA QuietStep ==
  ASSUME out' = Quiet
  PROVE  OutType' /\ HeardInRoom'
<1>1. (out')["event"] = None /\ out'.from = None /\ out'.stored = {} /\ out'.emits = {}
  BY DEF Quiet
<1>2. out'.event # "NEW_MESSAGE"
  BY <1>1, ChatGatewayAssumption DEF Events
<1>3. OutType'
  BY <1>1 DEF OutType
<1>5. HeardInRoom'
  BY <1>2 DEF HeardInRoom
<1> QED
  BY <1>3, <1>5

LEMMA InitGateway == Init => GatewayInv
<1> SUFFICES ASSUME Init PROVE GatewayInv
  OBVIOUS
<1>1. OutType /\ HeardInRoom
  BY QuietOut DEF Init
<1>2. TypeOK
  BY <1>1, ChatGatewayAssumption DEF Init, TypeOK, OutType, Unknown
<1>3. ConnectedIsKnown /\ RoomWasJoined /\ SingleIsKnown
  BY DEF Init, ConnectedIsKnown, RoomWasJoined, SingleIsKnown, Unknown
<1> QED
  BY <1>1, <1>2, <1>3 DEF GatewayInv, State

(* Events that the server answers leave sockets and map alone.              *)
LEMMA AnswersKeepState ==
  ASSUME State, UNCHANGED <<sockets, map>>, OutType'
  PROVE  State'
<1>1. TypeOK'
  BY DEF State, TypeOK, OutType, Unknown, sockets
<1>2. ConnectedIsKnown' /\ RoomWasJoined' /\ SingleIsKnown'
  BY DEF State, ConnectedIsKnown, RoomWasJoined, SingleIsKnown, Single, Unknown, sockets
<1> QED
  BY <1>1, <1>2 DEF State

LEMMA ConnectionKeepsState ==
  ASSUME State, NEW s \in Sockets, NEW u \in Users, HandleConnection(s, u)
  PROVE  GatewayInv'
<1>1. OutType' /\ HeardInRoom'
  BY QuietStep DEF HandleConnection
<1>2. /\ owner \in [Sockets -> Users \cup {None}] /\ owner[s] = None
      /\ owner' = [owner EXCEPT ![s] = u]
      /\ open \subseteq {t \in Sockets : owner[t] # None} /\ open' = open \cup {s}
      /\ map \in [Users -> Entries \cup {None}] /\ map' = [map EXCEPT ![u] = Entry(s, None)]
      /\ joined' = joined /\ joining' = joining
      /\ joined \in [Sockets -> SUBSET Rooms] /\ joining \in [Sockets -> SUBSET Rooms]
      /\ \A t \in Sockets \ open : joined[t] = {} /\ joining[t] = {}
      /\ \A v \in Users \ Unknown : owner[map[v].clientId] = v
  BY DEF State, TypeOK, HandleConnection, StoreUserToMap
<1>3. /\ Entry(s, None) \in Entries /\ Entry(s, None) # None
      /\ Entry(s, None).clientId = s /\ Entry(s, None).currentRoomId = None
  BY ChatGatewayAssumption DEF Entry, Entries
<1>4. u # None
  BY ChatGatewayAssumption
<1>5. \A v \in Users \ {u} : v \notin Unknown =>
        map'[v] = map[v] /\ map[v].clientId \in Sockets /\ map[v].clientId # s
  <2> SUFFICES ASSUME NEW v \in Users \ {u}, v \notin Unknown
               PROVE  map'[v] = map[v] /\ map[v].clientId \in Sockets /\ map[v].clientId # s
    OBVIOUS
  <2>1. map[v] \in Entries /\ owner[map[v].clientId] = v
    BY <1>2 DEF Unknown
  <2> QED
    BY <2>1, <1>2, ChatGatewayAssumption DEF Entries
<1>6. TypeOK'
  <2>1. owner' \in [Sockets -> Users \cup {None}] /\ map' \in [Users -> Entries \cup {None}]
    BY <1>2, <1>3
  <2>2. open' \subseteq {t \in Sockets : owner'[t] # None}
    BY <1>2, <1>4
  <2>3. \A v \in Users \ Unknown' : owner'[map'[v].clientId] = v
    BY <1>2, <1>3, <1>5 DEF Unknown
  <2> QED
    BY <1>1, <1>2, <2>1, <2>2, <2>3 DEF TypeOK, OutType
<1>7. ConnectedIsKnown'
  BY <1>2, <1>3, <1>4 DEF State, ConnectedIsKnown
<1>8. RoomWasJoined'
  <2> SUFFICES ASSUME NEW v \in Users \ Unknown'
               PROVE  \/ map'[v].currentRoomId = None
                      \/ map'[v].clientId \notin open'
                      \/ map'[v].currentRoomId \in joined'[map'[v].clientId] \cup joining'[map'[v].clientId]
    BY DEF RoomWasJoined
  <2>1. CASE v = u
    BY <2>1, <1>2, <1>3
  <2>2. CASE v # u
    <3>1. v \notin Unknown
      BY <2>2, <1>2 DEF Unknown
    <3> QED
      BY <3>1, <2>2, <1>2, <1>5 DEF State, RoomWasJoined
  <2> QED
    BY <2>1, <2>2
<1>9. SingleIsKnown'
  <2> SUFFICES ASSUME NEW t \in open', Single(t)'
               PROVE  /\ map'[owner'[t]].clientId = t
                      /\ map'[owner'[t]].currentRoomId = None => joined'[t] \cup joining'[t] = {}
    BY DEF SingleIsKnown
  <2>1. CASE t = s
    <3>1. s \notin open
      BY <1>2
    <3> QED
      BY <3>1, <2>1, <1>2, <1>3
  <2>2. CASE t # s
    <3>1. t \in open /\ t \in Sockets /\ owner'[t] = owner[t] /\ owner[t] # u /\ owner[t] \in Users
      BY <2>2, <1>2 DEF Single
    <3>2. Single(t)
      BY <3>1, <2>2, <1>2, <1>4 DEF Single
    <3> QED
      BY <3>1, <3>2, <1>2 DEF State, SingleIsKnown
  <2> QED
    BY <2>1, <2>2
<1> QED
  BY <1>1, <1>6, <1>7, <1>8, <1>9 DEF GatewayInv, State

LEMMA DisconnectKeepsState ==
  ASSUME State, NEW s \in Sockets, HandleDisconnect(s)
  PROVE  GatewayInv'
<1>1. OutType' /\ HeardInRoom'
  BY QuietStep DEF HandleDisconnect
<1>2. TypeOK'
  BY <1>1 DEF State, TypeOK, OutType, HandleDisconnect, Unknown
<1>3. ConnectedIsKnown'
  BY DEF State, ConnectedIsKnown, HandleDisconnect
<1>4. RoomWasJoined'
  BY DEF State, TypeOK, Entries, RoomWasJoined, HandleDisconnect, Unknown
<1>5. SingleIsKnown'
  BY DEF State, TypeOK, SingleIsKnown, Single, HandleDisconnect
<1> QED
  BY <1>1, <1>2, <1>3, <1>4, <1>5 DEF GatewayInv, State

LEMMA OnJoinKeepsState ==
  ASSUME State, NEW s \in Sockets, NEW room \in Rooms, OnJoinRoom(s, room)
  PROVE  GatewayInv'
<1>1. OutType' /\ HeardInRoom'
  BY QuietStep DEF OnJoinRoom
<1>2. /\ owner[s] \in Users /\ s \in open /\ owner' = owner /\ open' = open /\ joined' = joined
      /\ map' = [map EXCEPT ![owner[s]] = Entry(s, room)]
      /\ joining' = [joining EXCEPT ![s] = @ \cup {room}]
      /\ map \in [Users -> Entries \cup {None}]
      /\ owner \in [Sockets -> Users \cup {None}]
      /\ joined \in [Sockets -> SUBSET Rooms] /\ joining \in [Sockets -> SUBSET Rooms]
  BY DEF State, TypeOK, OnJoinRoom
<1>3. /\ Entry(s, room) \in Entries /\ Entry(s, room) # None /\ room # None
      /\ Entry(s, room).clientId = s /\ Entry(s, room).currentRoomId = room
  BY ChatGatewayAssumption DEF Entry, Entries
<1>4. TypeOK'
  BY <1>1, <1>2, <1>3 DEF State, TypeOK, OutType, Unknown
<1>5. ConnectedIsKnown'
  BY <1>2, <1>3 DEF State, TypeOK, ConnectedIsKnown
<1>6. RoomWasJoined'
  <2> SUFFICES ASSUME NEW v \in Users \ Unknown'
               PROVE  \/ map'[v].currentRoomId = None
                      \/ map'[v].clientId \notin open'
                      \/ map'[v].currentRoomId \in joined'[map'[v].clientId] \cup joining'[map'[v].clientId]
    BY DEF RoomWasJoined
  <2>1. CASE v = owner[s]
    BY <2>1, <1>2, <1>3
  <2>2. CASE v # owner[s]
    <3>1. v \notin Unknown /\ map'[v] = map[v] /\ map[v].clientId \in Sockets
      BY <2>2, <1>2 DEF Unknown, Entries
    <3>2. joining[map[v].clientId] \subseteq joining'[map[v].clientId]
      BY <3>1, <1>2
    <3> QED
      BY <3>1, <3>2, <1>2 DEF State, RoomWasJoined
  <2> QED
    BY <2>1, <2>2
<1>7. SingleIsKnown'
  <2> SUFFICES ASSUME NEW t \in open', Single(t)'
               PROVE  /\ map'[owner'[t]].clientId = t
                      /\ map'[owner'[t]].currentRoomId = None => joined'[t] \cup joining'[t] = {}
    BY DEF SingleIsKnown
  <2>1. t \in open /\ t \in Sockets /\ Single(t) /\ owner[t] \in Users
    BY <1>2 DEF State, TypeOK, Single
  <2>2. CASE t = s
    BY <2>2, <1>2, <1>3
  <2>3. CASE t # s
    <3>1. owner[t] # owner[s]
      BY <2>1, <2>3 DEF Single
    <3> QED
      BY <3>1, <2>1, <2>3, <1>2 DEF State, SingleIsKnown
  <2> QED
    BY <2>2, <2>3
<1> QED
  BY <1>1, <1>4, <1>5, <1>6, <1>7 DEF GatewayInv, State

LEMMA JoinKeepsState ==
  ASSUME State, NEW s \in Sockets, NEW room \in Rooms, JoinRoom(s, room)
  PROVE  GatewayInv'
<1>1. OutType' /\ HeardInRoom'
  BY QuietStep DEF JoinRoom
<1>2. \A t \in Sockets : joined'[t] \cup joining'[t] = joined[t] \cup joining[t]
  BY DEF State, TypeOK, JoinRoom
<1>3. s \in open
  BY DEF State, TypeOK, JoinRoom
<1>4. TypeOK'
  BY <1>1, <1>3 DEF State, TypeOK, OutType, JoinRoom, Unknown
<1>5. ConnectedIsKnown'
  BY DEF State, ConnectedIsKnown, JoinRoom
<1>6. RoomWasJoined'
  BY <1>2 DEF State, TypeOK, Entries, RoomWasJoined, JoinRoom, Unknown
<1>7. SingleIsKnown'
  BY <1>2 DEF State, TypeOK, SingleIsKnown, Single, JoinRoom
<1> QED
  BY <1>1, <1>4, <1>5, <1>6, <1>7 DEF GatewayInv, State

LEMMA RestartKeepsState ==
  ASSUME State, Restart
  PROVE  GatewayInv'
<1>1. OutType' /\ HeardInRoom'
  BY QuietStep DEF Restart
<1>2. TypeOK'
  BY <1>1, ChatGatewayAssumption DEF State, TypeOK, OutType, Restart, Unknown
<1>3. ConnectedIsKnown' /\ RoomWasJoined' /\ SingleIsKnown'
  BY DEF Restart, ConnectedIsKnown, RoomWasJoined, SingleIsKnown, Unknown
<1> QED
  BY <1>1, <1>2, <1>3 DEF GatewayInv, State

-----------------------------------------------------------------------------
(* The events that emit something.                                          *)
LEMMA EmittedType ==
  ASSUME NEW listeners \in SUBSET Sockets, NEW event \in SocketEvents
  PROVE  /\ Emitted(listeners, event) \subseteq [to : Sockets, event : SocketEvents]
         /\ \A x \in Emitted(listeners, event) : x.to \in listeners /\ x.event = event
         /\ \A t \in listeners : \E x \in Emitted(listeners, event) : x.to = t
<1>1. \A t \in listeners : t \in Sockets
  OBVIOUS
<1>2. Emitted(listeners, event) \subseteq [to : Sockets, event : SocketEvents]
  BY <1>1 DEF Emitted
<1>3. \A x \in Emitted(listeners, event) : x.to \in listeners /\ x.event = event
  BY DEF Emitted
<1>4. \A t \in listeners : \E x \in Emitted(listeners, event) : x.to = t
  <2> SUFFICES ASSUME NEW t \in listeners
               PROVE  \E x \in Emitted(listeners, event) : x.to = t
    OBVIOUS
  <2>1. [to |-> t, event |-> event] \in Emitted(listeners, event)
    BY DEF Emitted
  <2> QED
    BY <2>1
<1> QED
  BY <1>2, <1>3, <1>4

LEMMA NewMessageKeeps ==
  ASSUME State, NEW s \in Sockets, NEW rooms \in SUBSET Rooms, OnNewMessage(s, rooms)
  PROVE  GatewayInv'
<1> DEFINE named == ConstructNewMessage(owner[s])
           heard == Emitted(OthersIn(s, named), "CLIENT_ON_NEW_MESSAGE")
           confirmed == Emitted(Client(s), "SINGLE_CLIENT_ON_MESSAGE_SENT")
<1>1. /\ s \in open /\ open \subseteq Sockets /\ owner[s] \in Users /\ map[owner[s]] # None
      /\ owner[s] \notin Unknown
  BY DEF State, TypeOK, OnNewMessage, Unknown
<1>2. /\ out'.event = "NEW_MESSAGE" /\ out'.from = s /\ out'.stored = rooms
      /\ out'.emits = heard \cup confirmed
      /\ UNCHANGED <<sockets, map>>
  BY DEF OnNewMessage
<1>3. OthersIn(s, named) \subseteq Sockets /\ Client(s) \subseteq Sockets
  BY <1>1 DEF OthersIn, Client, InRoom
<1>4. /\ "CLIENT_ON_NEW_MESSAGE" \in SocketEvents /\ "SINGLE_CLIENT_ON_MESSAGE_SENT" \in SocketEvents
      /\ "NEW_MESSAGE" \in Events
  BY DEF SocketEvents, Events
<1>5. /\ heard \subseteq [to : Sockets, event : SocketEvents]
      /\ \A x \in heard : x.to \in OthersIn(s, named) /\ x.event = "CLIENT_ON_NEW_MESSAGE"
      /\ \A t \in OthersIn(s, named) : \E x \in heard : x.to = t
  BY <1>3, <1>4, EmittedType
<1>6. /\ confirmed \subseteq [to : Sockets, event : SocketEvents]
      /\ \A x \in confirmed : x.event = "SINGLE_CLIENT_ON_MESSAGE_SENT"
  BY <1>3, <1>4, EmittedType
<1> HIDE DEF heard, confirmed
<1>7. OutType'
  BY <1>2, <1>4, <1>5, <1>6 DEF OutType
<1>8. State'
  BY <1>2, <1>7, AnswersKeepState
<1>9. HeardInRoom'
  <2> SUFFICES ASSUME NEW room \in Rooms, OnlyIn(s, room)
               PROVE  {x.to : x \in {y \in heard \cup confirmed : y.event = "CLIENT_ON_NEW_MESSAGE"}}
                        = OthersIn(s, room)
    <3>1. \A room \in Rooms : OnlyIn(s, room)' <=> OnlyIn(s, room)
      BY <1>2 DEF OnlyIn, sockets
    <3>2. \A room \in Rooms : OthersIn(s, room)' = OthersIn(s, room)
      BY <1>2 DEF OthersIn, InRoom, sockets
    <3> QED
      BY <1>2, <3>1, <3>2 DEF HeardInRoom, OnlyIn, OthersIn, InRoom, sockets
  <2>1. Single(s) /\ joined[s] \cup joining[s] = {room}
    BY DEF OnlyIn, Single
  <2>2. map[owner[s]].clientId = s /\ map[owner[s]].currentRoomId # None
    BY <1>1, <2>1 DEF State, SingleIsKnown
  <2>3. map[owner[s]].currentRoomId \in joined[s] \cup joining[s]
    BY <1>1, <2>2 DEF State, RoomWasJoined
  <2>4. named = room
    BY <2>1, <2>3 DEF ConstructNewMessage
  <2>5. {y \in heard \cup confirmed : y.event = "CLIENT_ON_NEW_MESSAGE"} = heard
    BY <1>5, <1>6
  <2>6. {x.to : x \in heard} = OthersIn(s, named)
    BY <1>5
  <2> QED
    BY <2>4, <2>5, <2>6
<1> QED
  BY <1>8, <1>9 DEF GatewayInv

LEMMA BroadcastKeeps ==
  ASSUME State, NEW s \in Sockets, NEW room \in Rooms, BroadcastToNamedRoom(s, room)
  PROVE  GatewayInv'
<1>1. s \in open /\ open \subseteq Sockets
  BY DEF State, TypeOK, BroadcastToNamedRoom
<1>2. /\ out'.event = "TYPING" /\ out'.from = s /\ out'.stored = {}
      /\ out'.emits = Emitted(OthersIn(s, room), "TYPING")
      /\ UNCHANGED <<sockets, map>>
  BY DEF BroadcastToNamedRoom
<1>3. OthersIn(s, room) \subseteq Sockets /\ "TYPING" \in SocketEvents /\ "TYPING" \in Events
  BY <1>1 DEF OthersIn, InRoom, SocketEvents, Events
<1>4. out'.emits \subseteq [to : Sockets, event : SocketEvents]
  BY <1>2, <1>3, EmittedType
<1>5. State'
  <2>1. OutType'
    BY <1>2, <1>3, <1>4 DEF OutType
  <2> QED
    BY <1>2, <2>1, AnswersKeepState
<1>6. HeardInRoom'
  BY <1>2 DEF HeardInRoom
<1> QED
  BY <1>5, <1>6 DEF GatewayInv

LEMMA UpdateStatusKeeps ==
  ASSUME State, NEW s \in Sockets, NEW named \in SUBSET Users, OnUpdateMessageStatus(s, named)
  PROVE  GatewayInv'
<1>1. PICK notified \in Reached(named) :
        out' = [event |-> "UPDATE_MESSAGE_STATUS", from |-> None, stored |-> {},
                emits |-> Notifications(notified)]
  BY DEF OnUpdateMessageStatus
<1>2. UNCHANGED <<sockets, map>>
  BY DEF OnUpdateMessageStatus
<1> DEFINE told(u) == Emitted(Client(map[u].clientId), "SINGLE_CLIENT_UPDATE_MESSAGE_STATUS")
<1>3. \A u \in notified : told(u) \subseteq [to : Sockets, event : SocketEvents]
  <2>1. \A id : Client(id) \subseteq Sockets
    BY DEF Client, InRoom, State, TypeOK
  <2>2. "SINGLE_CLIENT_UPDATE_MESSAGE_STATUS" \in SocketEvents
    BY DEF SocketEvents
  <2> QED
    BY <2>1, <2>2, EmittedType
<1>4. out'.emits = UNION {told(u) : u \in notified}
  BY <1>1 DEF Notifications
<1>5. out'.event = "UPDATE_MESSAGE_STATUS" /\ out'.from = None /\ out'.stored = {}
  BY <1>1
<1> HIDE DEF told
<1>6. State'
  <2>1. out'.emits \subseteq [to : Sockets, event : SocketEvents]
    BY <1>3, <1>4
  <2>2. OutType'
    BY <1>5, <2>1 DEF OutType, Events
  <2> QED
    BY <1>2, <2>2, AnswersKeepState
<1>7. HeardInRoom'
  BY <1>5 DEF HeardInRoom
<1> QED
  BY <1>6, <1>7 DEF GatewayInv

-----------------------------------------------------------------------------
LEMMA NextKeepsGateway ==
  GatewayInv /\ [Next]_vars => GatewayInv'
<1> SUFFICES ASSUME GatewayInv, [Next]_vars PROVE GatewayInv'
  OBVIOUS
<1>1. State
  BY DEF GatewayInv
<1>2. CASE UNCHANGED vars
  BY <1>2 DEF GatewayInv, State, vars, TypeOK, ConnectedIsKnown, RoomWasJoined, SingleIsKnown, Single,
     HeardInRoom, OnlyIn, OthersIn, InRoom, Unknown
<1>3. CASE Restart
  BY <1>1, <1>3, RestartKeepsState
<1>4. ASSUME NEW s \in Sockets, NEW u \in Users, HandleConnection(s, u) PROVE GatewayInv'
  BY <1>1, <1>4, ConnectionKeepsState
<1>5. ASSUME NEW s \in Sockets, HandleDisconnect(s) PROVE GatewayInv'
  BY <1>1, <1>5, DisconnectKeepsState
<1>6. ASSUME NEW s \in Sockets, IgnoreEvent(s) PROVE GatewayInv'
  <2>1. OutType' /\ HeardInRoom'
    BY <1>6, QuietStep DEF IgnoreEvent
  <2> QED
    BY <1>1, <1>6, <2>1, AnswersKeepState DEF IgnoreEvent, GatewayInv
<1>7. ASSUME NEW s \in Sockets, NEW room \in Rooms, OnJoinRoom(s, room) PROVE GatewayInv'
  BY <1>1, <1>7, OnJoinKeepsState
<1>8. ASSUME NEW s \in Sockets, NEW room \in Rooms, JoinRoom(s, room) PROVE GatewayInv'
  BY <1>1, <1>8, JoinKeepsState
<1>9. ASSUME NEW s \in Sockets, NEW rooms \in SUBSET Rooms, OnNewMessage(s, rooms) PROVE GatewayInv'
  BY <1>1, <1>9, NewMessageKeeps
<1>10. ASSUME NEW s \in Sockets, NEW room \in Rooms, BroadcastToNamedRoom(s, room) PROVE GatewayInv'
  BY <1>1, <1>10, BroadcastKeeps
<1>11. ASSUME NEW s \in Sockets, NEW named \in SUBSET Users, OnUpdateMessageStatus(s, named)
       PROVE  GatewayInv'
  BY <1>1, <1>11, UpdateStatusKeeps
<1> QED
  BY <1>2, <1>3, <1>4, <1>5, <1>6, <1>7, <1>8, <1>9, <1>10, <1>11 DEF Next

(* The whole invariant, for any users, rooms and sockets: the map knows     *)
(* connected users and the rooms they asked for, however they reconnect.    *)
THEOREM GatewayInvariant == Spec => []GatewayInv
  BY InitGateway, NextKeepsGateway, PTL DEF Spec

(* Types of the variables.                                                  *)
THEOREM GatewayTypes == Spec => []TypeOK
<1>1. GatewayInv => TypeOK
  BY DEF GatewayInv, State
<1> QED
  BY <1>1, GatewayInvariant, PTL

(* constructNewMessage never reads a missing entry of the map.              *)
THEOREM ConnectedUsersAreKnown == Spec => []ConnectedIsKnown
<1>1. GatewayInv => ConnectedIsKnown
  BY DEF GatewayInv, State
<1> QED
  BY <1>1, GatewayInvariant, PTL

(* No connection inherits the room of the one before it.                    *)
THEOREM RoomsWereJoined == Spec => []RoomWasJoined
<1>1. GatewayInv => RoomWasJoined
  BY DEF GatewayInv, State
<1> QED
  BY <1>1, GatewayInvariant, PTL

(* Messages that name the one room of the one socket of their user are      *)
(* heard there and nowhere else.                                            *)
THEOREM RoomHearsItsMessages == Spec => []HeardInRoom
<1>1. GatewayInv => HeardInRoom
  BY DEF GatewayInv
<1> QED
  BY <1>1, GatewayInvariant, PTL
=============================================================================
