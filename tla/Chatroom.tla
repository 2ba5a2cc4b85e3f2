------------------------------- MODULE Chatroom -------------------------------
(***************************************************************************)
(* chatroom.service.ts and what chat-message.service.ts does for HTTP        *)
(* requests: rooms are found or created, participants added, images sent,    *)
(* messages deleted and read page by page.  A request interleaves with all   *)
(* others at every await; committed rows are the only state they share.      *)
(*                                                                           *)
(* A slot of Requests is one HTTP request at a time, or a client that reads  *)
(* the pages of a room one after the other.                                  *)
(***************************************************************************)
EXTENDS FiniteSets, Sequences, Pagination

CONSTANTS
  Users,       \* ids that requests name
  Registered,  \* those with a row in "user"; that remove() deletes one, and with it the
               \* user's rows in the chatrooms, is left out
  Admins,      \* the registered users whose role is ADMIN
  Rooms,       \* ids of rooms
  Messages,    \* ids of messages; each is used once
  Requests,
  PageSize,    \* what a reading client asks for
  None

ASSUME ChatroomAssumption ==
  /\ Admins \subseteq Registered /\ Registered \subseteq Users
  /\ IsFiniteSet(Users) /\ IsFiniteSet(Messages)
  /\ PageSize \in Nat \ {0}
  /\ None \notin Rooms \cup Messages \cup Users

VARIABLES
  members,      \* chatroom_participants_user; {} for a room that is not there
  founders,     \* history: the participants a room was created with
  participated, \* history: whoever was a participant
  lastMessage,  \* the column of the room
  list,         \* the messages of a room by updatedAt, latest first
  author,       \* None for a message that is not stored
  req           \* the requests

vars == <<members, founders, participated, lastMessage, list, author, req>>

participants == <<members, founders, participated>>
messages == <<lastMessage, list, author>>

Idle == [op |-> "none", step |-> "done", user |-> None, room |-> None,
         who |-> {}, copy |-> {}, db |-> {}, message |-> None,
         page |-> 1, seen |-> {}, due |-> {}]

(* Some rooms may be there from an earlier run of the process.              *)
Init ==
  /\ members \in [Rooms -> SUBSET Registered]
  /\ founders = members
  /\ participated = members
  /\ lastMessage = [r \in Rooms |-> None]
  /\ list = [r \in Rooms |-> << >>]
  /\ author = [m \in Messages |-> None]
  /\ req = [q \in Requests |-> Idle]

Exists(r) == members[r] # {}

Listed(r) == {list[r][i] : i \in DOMAIN list[r]}

-----------------------------------------------------------------------------
(* Requests.  An acceptance of a friend request looks for the room of the   *)
(* two friends within its transaction.                                      *)
Ask(q, request) == req[q].step = "done" /\ req' = [req EXCEPT ![q] = request]

FindOrCreate == [Idle EXCEPT !.op = "findOrCreate", !.step = "find"]

Receive(q, op) ==
  /\ CASE op = "findOrCreate" ->
            \E user \in Registered, who \in SUBSET Users :
              who # {} /\ Ask(q, [FindOrCreate EXCEPT !.user = user, !.who = who])
       [] op = "accept" ->
            \E who \in SUBSET Registered :
              Cardinality(who) = 2 /\ Ask(q, [FindOrCreate EXCEPT !.op = op, !.who = who])
       [] op = "addParticipant" ->
            \E user \in Registered, p \in Users, r \in Rooms :
              Ask(q, [Idle EXCEPT !.op = op, !.step = "load", !.user = user, !.who = {p}, !.room = r])
       [] op = "uploadImage" ->
            \E user \in Registered, r \in Rooms :
              Ask(q, [Idle EXCEPT !.op = op, !.step = "permit", !.user = user, !.room = r])
       [] op = "deleteMessage" ->
            \E user \in Registered, r \in Rooms, m \in Messages :
              Ask(q, [Idle EXCEPT !.op = op, !.step = "message", !.user = user, !.room = r, !.message = m])
       [] op = "readMessages" ->
            \E r \in Rooms :
              Ask(q, [Idle EXCEPT !.op = op, !.step = "page", !.room = r, !.due = Listed(r)])
  /\ UNCHANGED <<participants, messages>>

Goto(q, request, step) == req' = [req EXCEPT ![q] = [request EXCEPT !.step = step]]

(* A slot keeps what properties need of an answer until its next request.   *)
Answered(q, answer) == Goto(q, answer, "done")

Failed(q) == req' = [req EXCEPT ![q] = Idle]

(* An exception of the handler or a failing query: nothing else changes.    *)
Refuse(q) == Failed(q) /\ UNCHANGED <<participants, messages>>

QueryFails(q) == req[q].step # "done" /\ Refuse(q)

Permitted(user, r) == Exists(r) /\ (user \in Admins \/ user \in members[r])

-----------------------------------------------------------------------------
(* findOrCreateChatroom and findOrCreateChatroomTransaction.                *)

(* Mutation: <@ confused with &&.                                           *)
Overlapping(who) == {r \in Rooms : Cardinality(members[r]) = 2 /\ members[r] \cap who # {}}

(* GET_EXISTING_PRIVATE_CHATROOM, from which the first row is taken.        *)
Existing(who) == {r \in Rooms : Cardinality(members[r]) = 2 /\ members[r] \subseteq who}

CheckIfChatroomExists(q) ==
  /\ req[q].step = "find"
  /\ \/ \E r \in Existing(req[q].who) : Goto(q, [req[q] EXCEPT !.user = None, !.room = r], "answer")
     \/ Existing(req[q].who) = {} /\ Goto(q, req[q], "create")
  /\ UNCHANGED <<participants, messages>>

AnswerExisting(q) ==
  /\ req[q].step = "answer"
  /\ Answered(q, Idle)
  /\ UNCHANGED <<participants, messages>>

(* Mutation: the users found are not compared with those asked for.         *)
CreatableWithAnyone(request) == request.op = "accept" \/ request.user \in request.who \cup Admins

(* The users are looked up and the room is inserted: no user row changes in *)
(* between.  A creator may leave themselves out only as an administrator.   *)
Creatable(request) ==
  /\ request.who \subseteq Registered
  /\ request.op = "accept" \/ request.user \in request.who \cup Admins

CreateChatroom(q) ==
  /\ req[q].step = "create"
  /\ \/ ~Creatable(req[q]) /\ Refuse(q)
     \/ /\ Creatable(req[q])
        /\ \E r \in Rooms :
             /\ ~Exists(r)
             /\ members' = [members EXCEPT ![r] = req[q].who]
             /\ founders' = [founders EXCEPT ![r] = req[q].who]
             /\ participated' = [participated EXCEPT ![r] = req[q].who]
             /\ Answered(q, Idle)
        /\ UNCHANGED messages

-----------------------------------------------------------------------------
(* addParticipantToChatroom.                                                *)

(* Mutation: the room is read without its participants.                     *)
LoadWithoutParticipants(q) ==
  /\ req[q].step = "load"
  /\ LET r == req[q].room IN
       \/ /\ Permitted(req[q].user, r) /\ req[q].who \subseteq Registered \ members[r]
          /\ Goto(q, [Idle EXCEPT !.op = "addParticipant", !.room = r, !.copy = req[q].who], "reread")
          /\ UNCHANGED <<participants, messages>>
       \/ ~(Permitted(req[q].user, r) /\ req[q].who \subseteq Registered \ members[r]) /\ Refuse(q)

LoadParticipants(q) ==
  /\ req[q].step = "load"
  /\ LET r == req[q].room
         admissible == Permitted(req[q].user, r) /\ req[q].who \subseteq Registered \ members[r]
     IN \/ /\ admissible
           /\ Goto(q, [Idle EXCEPT !.op = "addParticipant", !.room = r,
                                   !.copy = members[r] \cup req[q].who], "reread")
           /\ UNCHANGED <<participants, messages>>
        \/ ~admissible /\ Refuse(q)

(* save() reads the stored participants once more, before its transaction.  *)
Reread(q) ==
  /\ req[q].step = "reread"
  /\ Goto(q, [req[q] EXCEPT !.db = members[req[q].room]], "save")
  /\ UNCHANGED <<participants, messages>>

(* What the copy has more is inserted, what it has less is deleted; a row   *)
(* that is there by now violates the primary key.                           *)
SaveParticipants(q) ==
  /\ req[q].step = "save"
  /\ LET r == req[q].room
         inserted == req[q].copy \ req[q].db
         deleted == req[q].db \ req[q].copy
     IN \/ inserted \cap members[r] # {} /\ Refuse(q)
        \/ /\ inserted \cap members[r] = {}
           /\ members' = [members EXCEPT ![r] = (@ \ deleted) \cup inserted]
           /\ participated' = [participated EXCEPT ![r] = @ \cup inserted]
           /\ Answered(q, Idle)
           /\ UNCHANGED <<founders, messages>>

-----------------------------------------------------------------------------
(* Messages.  Whatever writes a message makes it the latest of its room.    *)
ToFront(s, m) ==
  LET there == {i \in DOMAIN s : s[i] = m}
      p == IF there = {} THEN Len(s) + 1 ELSE CHOOSE i \in there : TRUE
  IN [i \in 1 .. IF there = {} THEN Len(s) + 1 ELSE Len(s) |->
        IF i = 1 THEN m ELSE IF i <= p THEN s[i - 1] ELSE s[i]]

(* A reader is due every message that has not been written since it began.  *)
Touch(requests, m) ==
  [q \in Requests |-> [requests[q] EXCEPT !.due = @ \ {m}]]

(* uploadChatImage.  findChatroomById lets an administrator pass; the file  *)
(* is stored and the room read again before the author is looked for.       *)
FindChatroomById(q) ==
  /\ req[q].step = "permit"
  /\ \/ Permitted(req[q].user, req[q].room) /\ Goto(q, req[q], "author")
     \/ ~Permitted(req[q].user, req[q].room) /\ Failed(q)
  /\ UNCHANGED <<participants, messages>>

(* Mutation: the first check is taken for enough.                           *)
NoSecondCheck(q) ==
  /\ req[q].step = "author"
  /\ Goto(q, req[q], "image")
  /\ UNCHANGED <<participants, messages>>

CheckAuthor(q) ==
  /\ req[q].step = "author"
  /\ \/ req[q].user \in members[req[q].room] /\ Goto(q, req[q], "image")
     \/ req[q].user \notin members[req[q].room] /\ Failed(q)
  /\ UNCHANGED <<participants, messages>>

Stored(m, user, r) ==
  /\ author[m] = None
  /\ author' = [author EXCEPT ![m] = user]
  /\ list' = [list EXCEPT ![r] = ToFront(@, m)]

(* Mutation: the chatroom's update is not awaited.                          *)
SaveImageAndAnswer(q) ==
  /\ req[q].step = "image"
  /\ \E m \in Messages :
       Stored(m, req[q].user, req[q].room) /\ Answered(q, [req[q] EXCEPT !.message = m])
  /\ UNCHANGED <<participants, lastMessage>>

SaveImage(q) ==
  /\ req[q].step = "image"
  /\ \E m \in Messages :
       Stored(m, req[q].user, req[q].room) /\ Goto(q, [req[q] EXCEPT !.message = m], "last")
  /\ UNCHANGED <<participants, lastMessage>>

UpdateChatroomOnNewMessage(q) ==
  /\ req[q].step = "last"
  /\ lastMessage' = [lastMessage EXCEPT ![req[q].room] = req[q].message]
  /\ Answered(q, req[q])
  /\ UNCHANGED <<participants, list, author>>

(* deleteMessage looks for a message with the id, or with a randomId of the *)
(* user's own; what it finds must be the user's and in the room.            *)
FindMessage(q) ==
  /\ req[q].step = "message"
  /\ \/ /\ \E found \in Listed(req[q].room) : author[found] = req[q].user
        /\ Goto(q, req[q], "delete")
     \/ Failed(q)
  /\ UNCHANGED <<participants, messages>>

(* The message with the id is marked as deleted, found or not; its row      *)
(* stays.                                                                   *)
DeleteMessage(q) ==
  /\ req[q].step = "delete"
  /\ LET m == req[q].message IN
       /\ list' = [r \in Rooms |-> IF m \in Listed(r) THEN ToFront(list[r], m) ELSE list[r]]
       /\ req' = Touch([req EXCEPT ![q] = Idle], m)
  /\ UNCHANGED <<participants, lastMessage, author>>

(* findMessagesByChatroomId, as called by a client that asks for one page   *)
(* after the other until one is not full.                                   *)
ReadPage(q) ==
  /\ req[q].step = "page"
  /\ LET s == list[req[q].room]
         rows == Rows(Skip(req[q].page, PageSize), Take(PageSize), Len(s))
         after == [req[q] EXCEPT !.seen = @ \cup {s[i] : i \in rows}, !.page = @ + 1]
     IN \/ Cardinality(rows) < PageSize /\ Answered(q, after)
        \/ Cardinality(rows) = PageSize /\ Goto(q, after, "page")
  /\ UNCHANGED <<participants, messages>>

(* The chat queue's jobs (module ChatMessages) store messages, name one of  *)
(* them as the last of its room and write statuses.  That the author is not *)
(* among the participants is only logged; the author and the room must have *)
(* a row, which the foreign keys refer to.                                  *)
StoreMessage(m, user, r) ==
  /\ user \in Registered /\ Exists(r)
  /\ Stored(m, user, r)
  /\ UNCHANGED <<participants, lastMessage, req>>

NameLastMessage(m, r) ==
  /\ m \in Listed(r)
  /\ lastMessage' = [lastMessage EXCEPT ![r] = m]
  /\ UNCHANGED <<participants, list, author, req>>

WriteStatuses(m, r) ==
  /\ m \in Listed(r)
  /\ list' = [list EXCEPT ![r] = ToFront(@, m)]
  /\ req' = Touch(req, m)
  /\ UNCHANGED <<participants, lastMessage, author>>

-----------------------------------------------------------------------------
Operations ==
  {"findOrCreate", "accept", "addParticipant", "uploadImage", "deleteMessage", "readMessages",
   "chatJob"}

Step(q) ==
  \/ CheckIfChatroomExists(q) \/ AnswerExisting(q) \/ CreateChatroom(q)
  \/ LoadParticipants(q) \/ Reread(q) \/ SaveParticipants(q)
  \/ FindChatroomById(q) \/ CheckAuthor(q) \/ SaveImage(q) \/ UpdateChatroomOnNewMessage(q)
  \/ FindMessage(q) \/ DeleteMessage(q) \/ ReadPage(q)
  \/ QueryFails(q)

ChatJob ==
  \E m \in Messages, r \in Rooms :
    \/ WriteStatuses(m, r) \/ NameLastMessage(m, r)
    \/ \E user \in Users : StoreMessage(m, user, r)

NextOf(operations) ==
  \/ \E q \in Requests : Step(q) \/ \E op \in operations \ {"chatJob"} : Receive(q, op)
  \/ "chatJob" \in operations /\ ChatJob

Next == NextOf(Operations)

Spec == Init /\ [][Next]_vars

-----------------------------------------------------------------------------
Steps == {"done", "find", "answer", "create", "load", "reread", "save", "permit", "author",
          "image", "last", "message", "delete", "page"}

Records ==
  [op : Operations \cup {"none"}, step : Steps, user : Registered \cup {None},
   room : Rooms \cup {None}, who : SUBSET Users, copy : SUBSET Registered,
   db : SUBSET Registered, message : Messages \cup {None}, page : Nat \ {0},
   seen : SUBSET Messages, due : SUBSET Messages]

(* Types of the variables; a room has the participants its history has, and *)
(* messages are in one list each, with an author.                           *)
TypeOK ==
  /\ members \in [Rooms -> SUBSET Registered]
  /\ founders \in [Rooms -> SUBSET Registered]
  /\ \A r \in Rooms : founders[r] \cup members[r] \subseteq participated[r]
  /\ \A r \in Rooms : participated[r] \subseteq Registered /\ (Exists(r) <=> participated[r] # {})
  /\ lastMessage \in [Rooms -> Messages \cup {None}]
  /\ list \in [Rooms -> Seq(Messages)]
  /\ \A r \in Rooms : Listed(r) \subseteq {m \in Messages : author[m] # None}
  /\ \A r \in Rooms : \A i, j \in DOMAIN list[r] : list[r][i] = list[r][j] => i = j
  /\ \A r1, r2 \in Rooms : r1 # r2 => Listed(r1) \cap Listed(r2) = {}
  /\ author \in [Messages -> Registered \cup {None}]
  /\ req \in [Requests -> Records]

(* Whom a room was created with stays in it, unless they are removed as a   *)
(* user, which is left out here: concurrent additions, each of which saves  *)
(* the whole list it has read, may undo each other, never the creation.     *)
FoundersStay == \A r \in Rooms : founders[r] \subseteq members[r]

(* Two users who ask for their room are answered with one that they are     *)
(* both in: findOne reads it a second time, and at any moment until then it *)
(* has them both, if it was created with two.                               *)
AnswerHasBoth ==
  \A q \in Requests :
    /\ req[q].step = "answer"
    /\ Cardinality(req[q].who) = 2 /\ Cardinality(founders[req[q].room]) = 2
    => req[q].who \subseteq members[req[q].room]

(* "This user cannot create this message": whoever's image is stored in a   *)
(* room was a participant, also an administrator, whom findChatroomById     *)
(* lets pass, and also when the participants change during the upload.  Of  *)
(* the messages that come over the socket nothing like it holds.            *)
UploaderTookPart ==
  \A q \in Requests :
    req[q].op = "uploadImage" /\ req[q].step \in {"last", "done"} =>
      req[q].user \in participated[req[q].room]

(* findAllChatroomsByUser: rooms without a last message are left out.       *)
ChatroomsOf(user) == {r \in Rooms : user \in members[r] /\ lastMessage[r] \in Listed(r)}

(* A user who was answered with the message of an image finds the room in   *)
(* the list of chatrooms, unless an addition has undone the user's own.     *)
ImageRoomIsListed ==
  \A q \in Requests :
    /\ req[q].op = "uploadImage" /\ req[q].step = "done"
    /\ req[q].user \in members[req[q].room]
    => req[q].room \in ChatroomsOf(req[q].user)

(* A client that reads one page after the other until one is not full has   *)
(* seen every message that was there when it began and was not written      *)
(* since, however many messages are stored, acknowledged and deleted        *)
(* between two pages.                                                       *)
UntouchedAreRead ==
  \A q \in Requests :
    req[q].op = "readMessages" /\ req[q].step = "done" => req[q].due \subseteq req[q].seen
=============================================================================
