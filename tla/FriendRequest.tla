---------------------------- MODULE FriendRequest ----------------------------
(***************************************************************************)
(* FriendRequestService (friend-request.service.ts) over the friend_request *)
(* table.  Several HTTP requests are served at once: every `await' of a     *)
(* handler is a point where the steps of the others interleave.  A relation *)
(* between two users is kept as a row in each direction; nothing in the     *)
(* schema makes the rows unique or ties one to the other, and the check a   *)
(* handler makes (the first SELECT) is outside the transaction that acts on *)
(* it.                                                                      *)
(*                                                                          *)
(* The database is PostgreSQL at READ COMMITTED: `rows' is what is          *)
(* committed, `writes[r]' what request r's open transaction has written.  A *)
(* row in a write set is locked until the transaction ends; a statement     *)
(* fixes the rows it is about to touch (`todo') when it starts and waits    *)
(* for the locked ones.  The private chatroom an acceptance finds or creates *)
(* in its transaction is in module Chatroom; here it is a query that may fail. *)
(***************************************************************************)
EXTENDS Naturals, FiniteSets

CONSTANTS
  Users,       \* the user ids a client may send
  Registered,  \* those that have a row in the user table
  Requests,    \* slots for HTTP requests being served at the same time
  Offered,     \* the operations clients call in this instance
  Pairs,       \* identities for the two rows one transaction inserts
  NoRow,       \* the value of a row that does not exist
  Untouched    \* the value of a row in a transaction that has not written it

Operations == {"send", "accept", "cancel", "block", "unblock", "unfriend"}

Statuses == {"WAITING_FOR_CURRENT_USER_RESPONSE", "PENDING", "ACCEPTED",
             "BLOCKED_BY_ME", "BLOCKED_BY_OTHER_USER"}

Row == [sender : Users, receiver : Users, status : Statuses]

(* The ids of the two entities createFriendRequestRelations saves: that of  *)
(* the `sender' entity and that of the `receiver' entity.  No handler ever  *)
(* sees which two rows were saved together.                                 *)
RowIds == Pairs \X {"sender", "receiver"}

ASSUME FriendRequestAssumption ==
  /\ Registered \subseteq Users
  /\ Offered \subseteq Operations
  /\ IsFiniteSet(Pairs)
  /\ NoRow \notin Row
  /\ Untouched \notin Row
  /\ NoRow # Untouched

Steps == {"idle", "find", "save", "commitSave", "update", "firstRows",
          "secondRows", "select", "removeRows", "commitRemove"}

NoRequest == [op |-> "none", me |-> "nobody", other |-> "nobody"]

RequestSet == [op : Operations, me : Users, other : Users] \cup {NoRequest}

VARIABLES
  rows,    \* the committed rows of friend_request
  req,     \* what each slot is serving
  pc,      \* the await each slot is at
  todo,    \* the rows its running statement still has to write
  writes   \* its transaction's uncommitted writes

vars == <<rows, req, pc, todo, writes>>

NoWrites == [id \in RowIds |-> Untouched]

Init ==
  /\ rows = [id \in RowIds |-> NoRow]
  /\ req = [r \in Requests |-> NoRequest]
  /\ pc = [r \in Requests |-> "idle"]
  /\ todo = [r \in Requests |-> {}]
  /\ writes = [r \in Requests |-> NoWrites]

-----------------------------------------------------------------------------
(* The steps handlers are made of.                                          *)

Exists(id) == rows[id] # NoRow

RowsFromTo(from, to) ==
  {id \in RowIds : Exists(id) /\ rows[id].sender = from /\ rows[id].receiver = to}

(* The handler goes on to its next await. *)
Go(r, step) == pc' = [pc EXCEPT ![r] = step]

(* The slot is free again, its transaction over. *)
Finish(r) ==
  /\ Go(r, "idle")
  /\ req' = [req EXCEPT ![r] = NoRequest]
  /\ todo' = [todo EXCEPT ![r] = {}]
  /\ writes' = [writes EXCEPT ![r] = NoWrites]

Refuse(r) == Finish(r) /\ UNCHANGED rows

Continue(r, step) == Go(r, step) /\ UNCHANGED <<rows, req, todo, writes>>

(* The status findFriendEntity reads: with duplicate rows, findOne without  *)
(* an order returns any of them.                                            *)
FindFriendEntity(r) ==
  LET found == RowsFromTo(req[r].me, req[r].other)
  IN  IF found = {} THEN {"null"} ELSE {rows[id].status : id \in found}

Finding(r, op) ==
  pc[r] = "find" /\ req[r].op = op /\ req[r].me # req[r].other

-----------------------------------------------------------------------------
(* A request comes in: `me' is the authenticated user, `other' any id.      *)
Receive(r, op, me, other) ==
  /\ pc[r] = "idle"
  /\ req' = [req EXCEPT ![r] = [op |-> op, me |-> me, other |-> other]]
  /\ Go(r, "find")
  /\ UNCHANGED <<rows, todo, writes>>

RefuseSelf(r) ==
  /\ pc[r] = "find"
  /\ req[r].me = req[r].other
  /\ Refuse(r)

(* A PENDING row turns the request into an acceptance, which reads again.   *)
SendFriendRequest(r) ==
  /\ Finding(r, "send")
  /\ \E status \in FindFriendEntity(r) :
       \/ /\ status = "null"
          /\ Continue(r, "save")
       \/ /\ status = "PENDING"
          /\ req' = [req EXCEPT ![r].op = "accept"]
          /\ UNCHANGED <<rows, pc, todo, writes>>
       \/ /\ status \notin {"null", "PENDING"}
          /\ Refuse(r)

(* Mutation: an acceptance that only refuses what is accepted already.      *)
AcceptUnlessFriends(r) ==
  /\ Finding(r, "accept")
  /\ \E status \in FindFriendEntity(r) :
       \/ status \notin {"null", "ACCEPTED"} /\ Continue(r, "update")
       \/ status \in {"null", "ACCEPTED"} /\ Refuse(r)

AcceptFriendRequest(r) ==
  /\ Finding(r, "accept")
  /\ \E status \in FindFriendEntity(r) :
       \/ status = "PENDING" /\ Continue(r, "update")
       \/ status # "PENDING" /\ Refuse(r)

(* The deletion is not awaited: the client is answered before it starts.    *)
CancelSentFriendRequest(r) ==
  /\ Finding(r, "cancel")
  /\ \E status \in FindFriendEntity(r) :
       \/ /\ status = "WAITING_FOR_CURRENT_USER_RESPONSE"
          /\ Continue(r, "select")
       \/ /\ status # "WAITING_FOR_CURRENT_USER_RESPONSE"
          /\ Refuse(r)

BlockFriend(r) ==
  /\ Finding(r, "block")
  /\ \E status \in FindFriendEntity(r) :
       \/ status = "null" /\ Continue(r, "save")
       \/ status = "BLOCKED_BY_OTHER_USER" /\ Refuse(r)
       \/ status \notin {"null", "BLOCKED_BY_OTHER_USER"} /\ Continue(r, "update")

UnblockFriend(r) ==
  /\ Finding(r, "unblock")
  /\ \E status \in FindFriendEntity(r) :
       \/ status = "BLOCKED_BY_ME" /\ Continue(r, "select")
       \/ status # "BLOCKED_BY_ME" /\ Refuse(r)

UnFriend(r) ==
  /\ Finding(r, "unfriend")
  /\ \E status \in FindFriendEntity(r) :
       \/ status = "ACCEPTED" /\ Continue(r, "select")
       \/ status # "ACCEPTED" /\ Refuse(r)

-----------------------------------------------------------------------------
(* createFriendRequestRelations and friendRequestSaveTransaction.           *)

(* A generated id no one has seen.  An id whose row is gone and that no     *)
(* request remembers is as good as new, which keeps Pairs finite.           *)
Fresh(p) ==
  \A id \in {p} \X {"sender", "receiver"} :
    ~Exists(id) /\ \A q \in Requests : id \notin todo[q] /\ writes[q][id] = Untouched

MyNewStatus(r) == IF req[r].op = "block" THEN "BLOCKED_BY_ME"
                  ELSE "WAITING_FOR_CURRENT_USER_RESPONSE"

(* Mutation: a block that leaves the other side an ordinary request.        *)
AlwaysPending(r) == "PENDING"

OthersNewStatus(r) == IF req[r].op = "block" THEN "BLOCKED_BY_OTHER_USER" ELSE "PENDING"

(* What the transaction inserts for id, when p is the id it generated.      *)
Insertion(r, p, id) ==
  IF id = <<p, "sender">>
  THEN [sender |-> req[r].me, receiver |-> req[r].other, status |-> MyNewStatus(r)]
  ELSE IF id = <<p, "receiver">>
  THEN [sender |-> req[r].other, receiver |-> req[r].me, status |-> OthersNewStatus(r)]
  ELSE Untouched

(* The commit is not awaited: the client is answered before it.             *)
CreateFriendRequestRelations(r, p) ==
  /\ pc[r] = "save"
  /\ \/ /\ req[r].other \notin Registered
        /\ Refuse(r)
     \/ /\ req[r].other \in Registered
        /\ Fresh(p)
        /\ writes' = [writes EXCEPT ![r] = [id \in RowIds |-> Insertion(r, p, id)]]
        /\ Go(r, "commitSave")
        /\ UNCHANGED <<rows, req, todo>>

-----------------------------------------------------------------------------
(* The two transactions over existing rows.                                 *)

(* The arguments friendRequestUpdateTransaction is called with.             *)
SenderId(r) == IF req[r].op = "accept" THEN req[r].other ELSE req[r].me
ReceiverId(r) == IF req[r].op = "accept" THEN req[r].me ELSE req[r].other
(* Mutation: blockFriend's two statuses the wrong way round.                *)
SwappedSenderStatus(r) ==
  IF req[r].op = "accept" THEN "ACCEPTED" ELSE "BLOCKED_BY_OTHER_USER"

SenderFriendShipStatus(r) ==
  IF req[r].op = "accept" THEN "ACCEPTED" ELSE "BLOCKED_BY_ME"
ReceiverFriendShipStatus(r) ==
  IF req[r].op = "accept" THEN "ACCEPTED" ELSE "BLOCKED_BY_OTHER_USER"

(* PostgreSQL starts a statement: it fixes the rows the statement will write. *)
StartStatement(r, step, ids) ==
  /\ Go(r, step)
  /\ todo' = [todo EXCEPT ![r] = ids]
  /\ UNCHANGED <<rows, req, writes>>

FirstUpdate(r) ==
  /\ pc[r] = "update"
  /\ StartStatement(r, "firstRows", RowsFromTo(SenderId(r), ReceiverId(r)))

(* Mutation: a second UPDATE whose condition is that of the first.          *)
SecondUpdateOfFirst(r) ==
  /\ pc[r] = "firstRows"
  /\ todo[r] = {}
  /\ StartStatement(r, "secondRows", {})

SecondUpdate(r) ==
  /\ pc[r] = "firstRows"
  /\ todo[r] = {}
  /\ StartStatement(r, "secondRows", RowsFromTo(ReceiverId(r), SenderId(r)))

LockedFor(r, id) == \E q \in Requests \ {r} : writes[q][id] # Untouched

(* The running statement reaches row id: it waits while another transaction *)
(* holds the row, and skips it when it has been deleted since.              *)
WriteRow(r, id, value) ==
  /\ id \in todo[r]
  /\ ~LockedFor(r, id)
  /\ todo' = [todo EXCEPT ![r] = @ \ {id}]
  /\ writes' = IF Exists(id) THEN [writes EXCEPT ![r][id] = value] ELSE writes
  /\ UNCHANGED <<rows, req, pc>>

UpdateRow(r, id) ==
  \/ /\ pc[r] = "firstRows"
     /\ WriteRow(r, id, [rows[id] EXCEPT !.status = SenderFriendShipStatus(r)])
  \/ /\ pc[r] = "secondRows"
     /\ WriteRow(r, id, [rows[id] EXCEPT !.status = ReceiverFriendShipStatus(r)])

(* Mutation: a deletion that selects one direction only.                    *)
SelectOneDirection(r) ==
  /\ pc[r] = "select"
  /\ StartStatement(r, "removeRows", RowsFromTo(req[r].me, req[r].other))

(* friendRequestDeleteTransaction: one SELECT of both directions, outside   *)
(* the transaction, then a DELETE of what it returned, by id.               *)
SelectForRemoval(r) ==
  /\ pc[r] = "select"
  /\ StartStatement(r, "removeRows", RowsFromTo(req[r].me, req[r].other)
                                       \cup RowsFromTo(req[r].other, req[r].me))

RemoveRow(r, id) == pc[r] = "removeRows" /\ WriteRow(r, id, NoRow)

(* The commit is not awaited: the client is answered before it.             *)
EndRemoval(r) ==
  /\ pc[r] = "removeRows"
  /\ todo[r] = {}
  /\ Go(r, "commitRemove")
  /\ UNCHANGED <<rows, req, todo, writes>>

-----------------------------------------------------------------------------
(* Commits and failures.                                                    *)

Commit(r) ==
  rows' = [id \in RowIds |-> IF writes[r][id] = Untouched THEN rows[id] ELSE writes[r][id]]

CommitInBackground(r) ==
  /\ pc[r] \in {"commitSave", "commitRemove"}
  /\ Commit(r)
  /\ Finish(r)

(* Mutation: the second UPDATE is not awaited either.                       *)
CommitUnawaitedUpdate(r) ==
  /\ pc[r] = "secondRows"
  /\ Commit(r)
  /\ Finish(r)

(* An acceptance finds or creates the pair's private chatroom before it     *)
(* commits (module Chatroom); when that fails it is rolled back: QueryFails. *)
CommitUpdate(r) ==
  /\ pc[r] = "secondRows"
  /\ todo[r] = {}
  /\ Commit(r)
  /\ Finish(r)

(* The handler goes on after it has answered: no one awaits it any more.    *)
InBackground(r) ==
  \/ pc[r] \in {"commitSave", "commitRemove"}
  \/ pc[r] \in {"select", "removeRows"} /\ req[r].op = "cancel"

(* Mutation: the transaction of a failed query is never rolled back.        *)
FailWithoutRollback(r) ==
  /\ pc[r] # "idle"
  /\ ~InBackground(r)
  /\ Go(r, "idle")
  /\ req' = [req EXCEPT ![r] = NoRequest]
  /\ todo' = [todo EXCEPT ![r] = {}]
  /\ UNCHANGED <<rows, writes>>

(* A query of a handler that is still awaited fails: a deadlock PostgreSQL  *)
(* breaks, a lost connection.  The transaction is rolled back; some handlers  *)
(* swallow the error and answer as if nothing had happened.                 *)
QueryFails(r) ==
  /\ pc[r] # "idle"
  /\ ~InBackground(r)
  /\ Finish(r)
  /\ UNCHANGED rows

(* The process dies, among others of the unhandled rejection that a query   *)
(* failing in the background is.  PostgreSQL rolls back what was open.      *)
Crash ==
  /\ \E r \in Requests : pc[r] # "idle"
  /\ req' = [r \in Requests |-> NoRequest]
  /\ pc' = [r \in Requests |-> "idle"]
  /\ todo' = [r \in Requests |-> {}]
  /\ writes' = [r \in Requests |-> NoWrites]
  /\ UNCHANGED rows

-----------------------------------------------------------------------------
Handle(r) ==
  \/ RefuseSelf(r)
  \/ SendFriendRequest(r)
  \/ AcceptFriendRequest(r)
  \/ CancelSentFriendRequest(r)
  \/ BlockFriend(r)
  \/ UnblockFriend(r)
  \/ UnFriend(r)
  \/ \E p \in Pairs : CreateFriendRequestRelations(r, p)
  \/ FirstUpdate(r)
  \/ SecondUpdate(r)
  \/ SelectForRemoval(r)
  \/ \E id \in RowIds : UpdateRow(r, id) \/ RemoveRow(r, id)
  \/ EndRemoval(r)
  \/ CommitInBackground(r)
  \/ CommitUpdate(r)

Next ==
  \/ \E r \in Requests :
       \/ \E op \in Offered, me \in Registered, other \in Users : Receive(r, op, me, other)
       \/ Handle(r)
       \/ QueryFails(r)
  \/ Crash

Spec == Init /\ [][Next]_vars
-----------------------------------------------------------------------------
(* Types of the five variables.                                             *)
TypeOK ==
  /\ rows \in [RowIds -> Row \cup {NoRow}]
  /\ req \in [Requests -> RequestSet]
  /\ pc \in [Requests -> Steps]
  /\ todo \in [Requests -> SUBSET RowIds]
  /\ writes \in [Requests -> [RowIds -> Row \cup {NoRow, Untouched}]]

(* Whatever saves, deletions, failed transactions and crashes interleave,   *)
(* no handler leaves half a relation behind: two users have as many rows in *)
(* one direction as in the other.                                           *)
TwinRows ==
  \A u, v \in Users : Cardinality(RowsFromTo(u, v)) = Cardinality(RowsFromTo(v, u))

WithStatus(ids, status) == {id \in ids : rows[id].status = status}

(* blockFriend refuses a user who is blocked, and its two UPDATEs lock the  *)
(* rows in opposite orders.  Two users both hold a BLOCKED_BY_ME row about  *)
(* the other only where first requests that ran at the same time, each      *)
(* finding no row, inserted a row in each direction more than once.         *)
OneBlockerUnlessDuplicates ==
  \A u, v \in Users :
    u # v /\ WithStatus(RowsFromTo(u, v), "BLOCKED_BY_ME") # {}
          /\ WithStatus(RowsFromTo(v, u), "BLOCKED_BY_ME") # {} =>
      \E i, j \in RowsFromTo(u, v) : i # j

(* The commit that makes a row BLOCKED_BY_ME tells the other user: it       *)
(* leaves a row BLOCKED_BY_OTHER_USER the other way, however the rows       *)
(* changed since blockFriend read one of them.                              *)
BlocksMirrored ==
  LET holds(row, status) == row # NoRow /\ row.status = status
      blocked(id) == holds(rows'[id], "BLOCKED_BY_ME") /\ ~holds(rows[id], "BLOCKED_BY_ME")
  IN  \A id \in RowIds :
        blocked(id) => \E i \in RowIds : /\ holds(rows'[i], "BLOCKED_BY_OTHER_USER")
                                         /\ rows'[i].sender = rows'[id].receiver
                                         /\ rows'[i].receiver = rows'[id].sender

BlockIsMirrored == [][BlocksMirrored]_vars

(* A statement waits when it has rows left and all are locked.  PostgreSQL  *)
(* breaks a cycle of waiting transactions by failing one of its statements. *)
Blocked(r) == todo[r] # {} /\ \A id \in todo[r] : LockedFor(r, id)

WaitsFor(r, q) == r # q /\ \E id \in todo[r] : writes[q][id] # Untouched

InDeadlock(r) ==
  \E S \in SUBSET Requests :
    /\ r \in S
    /\ \A q \in S : /\ Blocked(q)
                    /\ \E s \in S : WaitsFor(q, s)
                    /\ \E s \in S : WaitsFor(s, q)

BreakDeadlock(r) ==
  /\ InDeadlock(r)
  /\ QueryFails(r) \/ (InBackground(r) /\ Crash)

(* The handler's transaction has a connection of its own: connect() has     *)
(* resolved.  Before, a handler waits for the pool, which may have nothing  *)
(* left to give (module QueryRunners); an acceptance needs a second one     *)
(* before it can commit.                                                    *)
Connected(r) ==
  /\ req[r].op # "accept"
  /\ \/ pc[r] \in {"commitSave", "firstRows", "secondRows", "commitRemove"}
     \/ pc[r] = "removeRows" /\ writes[r] # NoWrites

(* PostgreSQL answers the queries of a transaction; a row lock goes to the  *)
(* statements waiting for it in turn, which is strong fairness of a handler. *)
FairSpec ==
  Spec /\ \A r \in Requests : /\ SF_vars(Connected(r) /\ Handle(r))
                             /\ WF_vars(BreakDeadlock(r))

(* A transaction that has its connection is over some day and its locks     *)
(* are gone: neither the opposite lock orders of two UPDATE transactions    *)
(* nor a failed transaction leave a handler waiting for a row for ever.     *)
OpenTransactionEnds == \A r \in Requests : Connected(r) ~> pc[r] = "idle"

(* The doc comment of acceptFriendRequest: "Accept a PENDING friend         *)
(* request".  A row becomes ACCEPTED only from a request not yet answered.  *)
PendingAccepted ==
  \A id \in RowIds :
    /\ Exists(id) /\ rows'[id] # NoRow
    /\ rows[id].status # "ACCEPTED" /\ rows'[id].status = "ACCEPTED"
    => rows[id].status \in {"PENDING", "WAITING_FOR_CURRENT_USER_RESPONSE"}

AcceptsOnlyPending == [][PendingAccepted]_vars

(* The error sendFriendRequest and blockFriend give for a row that is       *)
(* BLOCKED_BY_OTHER_USER: "You are already blocked by the other user".      *)
BlockedByOtherUser ==
  \A u, v \in Users :
    u # v /\ WithStatus(RowsFromTo(u, v), "BLOCKED_BY_OTHER_USER") # {} =>
      WithStatus(RowsFromTo(v, u), "BLOCKED_BY_ME") # {}
=============================================================================
