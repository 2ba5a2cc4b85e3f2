------------------------- MODULE FriendRequestProofs -------------------------
(***************************************************************************)
(* Proofs about FriendRequest, for any users, any number of concurrent      *)
(* requests and any number of rows.                                         *)
(***************************************************************************)
EXTENDS FriendRequestInvariant, FiniteSetTheorems, FunctionTheorems, TLAPS

(* Mirror is an involution without fixed points on the row ids.             *)
LEMMA MirrorFacts ==
  ASSUME NEW id \in RowIds
  PROVE  /\ Mirror(id) \in RowIds
         /\ Mirror(id) # id
         /\ Mirror(Mirror(id)) = id
  BY DEF Mirror, RowIds

(* A row inserted by createFriendRequestRelations is a row.                 *)
LEMMA InsertionType ==
  ASSUME TypeOK, NEW r \in Requests, req[r] # NoRequest, NEW p \in Pairs, NEW id \in RowIds
  PROVE  Insertion(r, p, id) \in Row \cup {Untouched}
  <1>1. req[r].me \in Users /\ req[r].other \in Users
    BY DEF TypeOK, RequestSet
  <1>2. MyNewStatus(r) \in Statuses /\ OthersNewStatus(r) \in Statuses
    BY DEF MyNewStatus, OthersNewStatus, Statuses
  <1>q. QED BY <1>1, <1>2 DEF Insertion, Row

LEMMA InsertionInserts ==
  ASSUME TypeOK, NEW r \in Requests, req[r] # NoRequest, NEW p \in Pairs,
         NEW id \in {<<p, "sender">>, <<p, "receiver">>}
  PROVE  Insertion(r, p, id) \in Row
  <1>1. req[r].me \in Users /\ req[r].other \in Users
    BY DEF TypeOK, RequestSet
  <1>2. MyNewStatus(r) \in Statuses /\ OthersNewStatus(r) \in Statuses
    BY DEF MyNewStatus, OthersNewStatus, Statuses
  <1>q. QED BY <1>1, <1>2 DEF Insertion, Row

LEMMA TypeInit == Init => TypeOK
  BY DEF Init, TypeOK, NoWrites, Steps, RequestSet

LEMMA FinishType ==
  ASSUME TypeOK, NEW r \in Requests, Finish(r)
  PROVE  /\ req' \in [Requests -> RequestSet]
         /\ pc' \in [Requests -> Steps]
         /\ todo' \in [Requests -> SUBSET RowIds]
         /\ writes' \in [Requests -> [RowIds -> Row \cup {NoRow, Untouched}]]
  BY DEF TypeOK, Finish, Go, NoWrites, Steps, RequestSet

LEMMA RefuseType ==
  ASSUME TypeOK, NEW r \in Requests, Refuse(r)
  PROVE  TypeOK'
  BY FinishType DEF Refuse, TypeOK

LEMMA ContinueType ==
  ASSUME TypeOK, NEW r \in Requests, NEW step \in Steps, Continue(r, step)
  PROVE  TypeOK'
  BY DEF TypeOK, Continue, Go

(* Types are preserved by every step of the service, the database and the   *)
(* clients.                                                                 *)
LEMMA TypeNext == TypeOK /\ RequestsInOrder /\ [Next]_vars => TypeOK'
  <1> SUFFICES ASSUME TypeOK, RequestsInOrder, [Next]_vars PROVE TypeOK'
    OBVIOUS
  <1> USE FriendRequestAssumption
  <1>1. ASSUME NEW r \in Requests, NEW op \in Offered, NEW me \in Registered, NEW other \in Users,
               Receive(r, op, me, other)
        PROVE  TypeOK'
    BY <1>1 DEF TypeOK, Receive, Go, RequestSet, Steps
  <1>2. ASSUME NEW r \in Requests, RefuseSelf(r) PROVE TypeOK'
    BY <1>2, RefuseType DEF RefuseSelf
  <1>3. ASSUME NEW r \in Requests, SendFriendRequest(r) PROVE TypeOK'
    <2>1. CASE Refuse(r)
      BY <2>1, RefuseType
    <2>2. CASE Continue(r, "save")
      BY <2>2, ContinueType DEF Steps
    <2>3. CASE /\ pc[r] = "find" /\ req[r].op = "send"
               /\ req' = [req EXCEPT ![r].op = "accept"]
               /\ UNCHANGED <<rows, pc, todo, writes>>
      <3>1. req[r] \in [op : Operations, me : Users, other : Users]
        BY <2>3 DEF TypeOK, RequestSet, NoRequest
      <3>2. [req[r] EXCEPT !.op = "accept"] \in RequestSet
        BY <3>1 DEF RequestSet, Operations
      <3>q. QED BY <2>3, <3>2 DEF TypeOK
    <2>q. QED BY <1>3, <2>1, <2>2, <2>3 DEF SendFriendRequest, Finding
  <1>4. ASSUME NEW r \in Requests, AcceptFriendRequest(r) PROVE TypeOK'
    BY <1>4, RefuseType, ContinueType DEF AcceptFriendRequest, Steps
  <1>5. ASSUME NEW r \in Requests, CancelSentFriendRequest(r) PROVE TypeOK'
    BY <1>5, RefuseType, ContinueType DEF CancelSentFriendRequest, Steps
  <1>6. ASSUME NEW r \in Requests, BlockFriend(r) PROVE TypeOK'
    BY <1>6, RefuseType, ContinueType DEF BlockFriend, Steps
  <1>7. ASSUME NEW r \in Requests, UnblockFriend(r) PROVE TypeOK'
    BY <1>7, RefuseType, ContinueType DEF UnblockFriend, Steps
  <1>8. ASSUME NEW r \in Requests, UnFriend(r) PROVE TypeOK'
    BY <1>8, RefuseType, ContinueType DEF UnFriend, Steps
  <1>9. ASSUME NEW r \in Requests, NEW p \in Pairs, CreateFriendRequestRelations(r, p)
        PROVE  TypeOK'
    <2>1. CASE Refuse(r)
      BY <2>1, RefuseType
    <2>2. CASE /\ writes' = [writes EXCEPT ![r] = [id \in RowIds |-> Insertion(r, p, id)]]
               /\ Go(r, "commitSave")
               /\ UNCHANGED <<rows, req, todo>>
      <3>1. [id \in RowIds |-> Insertion(r, p, id)] \in [RowIds -> Row \cup {NoRow, Untouched}]
        BY <1>9, InsertionType DEF RequestsInOrder, CreateFriendRequestRelations
      <3>q. QED BY <2>2, <3>1 DEF TypeOK, Go, Steps
    <2>q. QED BY <1>9, <2>1, <2>2 DEF CreateFriendRequestRelations
  <1>10. ASSUME NEW r \in Requests, FirstUpdate(r) PROVE TypeOK'
    BY <1>10 DEF TypeOK, FirstUpdate, StartStatement, Go, RowsFromTo, Steps
  <1>11. ASSUME NEW r \in Requests, SecondUpdate(r) PROVE TypeOK'
    BY <1>11 DEF TypeOK, SecondUpdate, StartStatement, Go, RowsFromTo, Steps
  <1>12. ASSUME NEW r \in Requests, SelectForRemoval(r) PROVE TypeOK'
    BY <1>12 DEF TypeOK, SelectForRemoval, StartStatement, Go, RowsFromTo, Steps
  <1>13. ASSUME NEW r \in Requests, NEW id \in RowIds,
                NEW value \in Row \cup {NoRow}, WriteRow(r, id, value)
         PROVE  TypeOK'
    BY <1>13 DEF TypeOK, WriteRow
  <1>14. ASSUME NEW r \in Requests, NEW id \in RowIds, NEW status \in Statuses,
                WriteRow(r, id, [rows[id] EXCEPT !.status = status])
         PROVE  TypeOK'
    <2>1. CASE Exists(id)
      <3>1. rows[id] \in Row
        BY <2>1 DEF TypeOK, Exists
      <3>2. [rows[id] EXCEPT !.status = status] \in Row
        BY <3>1 DEF Row
      <3>q. QED BY <1>13, <1>14, <3>2
    <2>2. CASE ~Exists(id)
      BY <1>14, <2>2 DEF TypeOK, WriteRow
    <2>q. QED BY <2>1, <2>2
  <1>15. ASSUME NEW r \in Requests, NEW id \in RowIds, UpdateRow(r, id) PROVE TypeOK'
    <2>1. SenderFriendShipStatus(r) \in Statuses /\ ReceiverFriendShipStatus(r) \in Statuses
      BY DEF SenderFriendShipStatus, ReceiverFriendShipStatus, Statuses
    <2>q. QED BY <1>14, <1>15, <2>1 DEF UpdateRow
  <1>16. ASSUME NEW r \in Requests, NEW id \in RowIds, RemoveRow(r, id) PROVE TypeOK'
    BY <1>13, <1>16 DEF RemoveRow
  <1>17. ASSUME NEW r \in Requests, EndRemoval(r) PROVE TypeOK'
    BY <1>17 DEF TypeOK, EndRemoval, Go, Steps
  <1>18. ASSUME NEW r \in Requests, Commit(r) PROVE rows' \in [RowIds -> Row \cup {NoRow}]
    BY <1>18 DEF TypeOK, Commit
  <1>19. ASSUME NEW r \in Requests, CommitInBackground(r) PROVE TypeOK'
    BY <1>18, <1>19, FinishType DEF TypeOK, CommitInBackground
  <1>20. ASSUME NEW r \in Requests, CommitUpdate(r) PROVE TypeOK'
    BY <1>18, <1>20, FinishType DEF TypeOK, CommitUpdate
  <1>21. ASSUME NEW r \in Requests, QueryFails(r) PROVE TypeOK'
    BY <1>21, FinishType DEF TypeOK, QueryFails
  <1>22. CASE Crash
    BY <1>22 DEF TypeOK, Crash, NoWrites, RequestSet, Steps
  <1>23. CASE UNCHANGED vars
    BY <1>23 DEF TypeOK, vars
  <1>q. QED
    BY <1>1, <1>2, <1>3, <1>4, <1>5, <1>6, <1>7, <1>8, <1>9, <1>10, <1>11, <1>12, <1>15, <1>16,
       <1>17, <1>19, <1>20, <1>21, <1>22, <1>23
    DEF Next, Handle

(* Each handler keeps its arguments and write set in step with its awaits.  *)
LEMMA RequestsInOrderNext ==
  TypeOK /\ RequestsInOrder /\ [Next]_vars => RequestsInOrder'
  <1> SUFFICES ASSUME TypeOK, RequestsInOrder, [Next]_vars PROVE RequestsInOrder'
    OBVIOUS
  <1> DEFINE Others(r) == \A q \in Requests \ {r} :
                            /\ pc'[q] = pc[q] /\ req'[q] = req[q]
                            /\ todo'[q] = todo[q] /\ writes'[q] = writes[q]
             Mine(r) ==
               /\ pc'[r] # "idle" => req'[r] # NoRequest
               /\ pc'[r] \notin {"idle", "find"} => req'[r].me # req'[r].other
               /\ pc'[r] \in {"save", "commitSave"} => req'[r].op \in {"send", "block"}
               /\ pc'[r] \in {"update", "firstRows", "secondRows"} =>
                    req'[r].op \in {"accept", "block"}
               /\ pc'[r] \notin {"firstRows", "secondRows", "removeRows"} => todo'[r] = {}
               /\ pc'[r] \in {"idle", "find", "save", "update", "select"} =>
                    writes'[r] = NoWrites
  <1>0. ASSUME NEW r \in Requests, Others(r), Mine(r) PROVE RequestsInOrder'
    BY <1>0 DEF RequestsInOrder, NoWrites
  <1>1. ASSUME NEW r \in Requests, Finish(r) PROVE Others(r) /\ Mine(r)
    BY <1>1 DEF TypeOK, Finish, Go
  <1>2. ASSUME NEW r \in Requests, Handle(r) PROVE RequestsInOrder'
    <2>1. CASE RefuseSelf(r)
      BY <1>0, <1>1, <2>1 DEF RefuseSelf, Refuse
    <2>2. CASE SendFriendRequest(r)
      <3>1. CASE Refuse(r)
        BY <1>0, <1>1, <3>1 DEF Refuse
      <3>2. CASE Continue(r, "save")
        <4>1. Others(r) /\ Mine(r)
          BY <2>2, <3>2 DEF SendFriendRequest, Finding, Continue, Go, TypeOK, RequestsInOrder
        <4>q. QED BY <1>0, <4>1
      <3>3. CASE /\ req' = [req EXCEPT ![r].op = "accept"]
                 /\ UNCHANGED <<rows, pc, todo, writes>>
        <4>1. req[r] # NoRequest /\ req[r] \in [op : Operations, me : Users, other : Users]
          BY <2>2 DEF SendFriendRequest, Finding, TypeOK, RequestsInOrder, RequestSet
        <4>2. req'[r].op = "accept"
          BY <3>3, <4>1 DEF TypeOK
        <4>3. req'[r] # NoRequest
          BY <4>2 DEF NoRequest
        <4>4. Others(r) /\ Mine(r)
          BY <2>2, <3>3, <4>3 DEF SendFriendRequest, Finding, TypeOK, RequestsInOrder
        <4>q. QED BY <1>0, <4>4
      <3>q. QED BY <2>2, <3>1, <3>2, <3>3 DEF SendFriendRequest
    <2>3. CASE AcceptFriendRequest(r)
      <3>1. CASE Refuse(r)
        BY <1>0, <1>1, <3>1 DEF Refuse
      <3>2. CASE Continue(r, "update")
        <4>1. Others(r) /\ Mine(r)
          BY <2>3, <3>2 DEF AcceptFriendRequest, Finding, Continue, Go, TypeOK, RequestsInOrder
        <4>q. QED BY <1>0, <4>1
      <3>q. QED BY <2>3, <3>1, <3>2 DEF AcceptFriendRequest
    <2>4. CASE CancelSentFriendRequest(r)
      <3>1. CASE Refuse(r)
        BY <1>0, <1>1, <3>1 DEF Refuse
      <3>2. CASE Continue(r, "select")
        <4>1. Others(r) /\ Mine(r)
          BY <2>4, <3>2 DEF CancelSentFriendRequest, Finding, Continue, Go, TypeOK, RequestsInOrder
        <4>q. QED BY <1>0, <4>1
      <3>q. QED BY <2>4, <3>1, <3>2 DEF CancelSentFriendRequest
    <2>5. CASE BlockFriend(r)
      <3>1. CASE Refuse(r)
        BY <1>0, <1>1, <3>1 DEF Refuse
      <3>2. CASE Continue(r, "save") \/ Continue(r, "update")
        <4>1. Others(r) /\ Mine(r)
          BY <2>5, <3>2 DEF BlockFriend, Finding, Continue, Go, TypeOK, RequestsInOrder
        <4>q. QED BY <1>0, <4>1
      <3>q. QED BY <2>5, <3>1, <3>2 DEF BlockFriend
    <2>6. CASE UnblockFriend(r) \/ UnFriend(r)
      <3>1. CASE Refuse(r)
        BY <1>0, <1>1, <3>1 DEF Refuse
      <3>2. CASE Continue(r, "select")
        <4>1. Others(r) /\ Mine(r)
          BY <2>6, <3>2 DEF UnblockFriend, UnFriend, Finding, Continue, Go, TypeOK, RequestsInOrder
        <4>q. QED BY <1>0, <4>1
      <3>q. QED BY <2>6, <3>1, <3>2 DEF UnblockFriend, UnFriend
    <2>7. ASSUME NEW p \in Pairs, CreateFriendRequestRelations(r, p) PROVE RequestsInOrder'
      <3>1. CASE Refuse(r)
        BY <1>0, <1>1, <3>1 DEF Refuse
      <3>2. CASE /\ writes' = [writes EXCEPT ![r] = [id \in RowIds |-> Insertion(r, p, id)]]
                 /\ Go(r, "commitSave")
                 /\ UNCHANGED <<rows, req, todo>>
        <4>1. Others(r) /\ Mine(r)
          BY <2>7, <3>2 DEF CreateFriendRequestRelations, Go, TypeOK, RequestsInOrder
        <4>q. QED BY <1>0, <4>1
      <3>q. QED BY <2>7, <3>1, <3>2 DEF CreateFriendRequestRelations
    <2>8. CASE FirstUpdate(r) \/ SecondUpdate(r) \/ SelectForRemoval(r)
      <3>1. Others(r) /\ Mine(r)
        BY <2>8 DEF FirstUpdate, SecondUpdate, SelectForRemoval, StartStatement, Go, TypeOK,
                    RequestsInOrder
      <3>q. QED BY <1>0, <3>1
    <2>9. ASSUME NEW id \in RowIds, UpdateRow(r, id) \/ RemoveRow(r, id) PROVE RequestsInOrder'
      <3>1. pc[r] \in {"firstRows", "secondRows", "removeRows"}
        BY <2>9 DEF UpdateRow, RemoveRow
      <3>2. PICK value : WriteRow(r, id, value)
        BY <2>9 DEF UpdateRow, RemoveRow
      <3>3. Others(r) /\ Mine(r)
        BY <3>1, <3>2 DEF WriteRow, TypeOK, RequestsInOrder
      <3>q. QED BY <1>0, <3>3
    <2>10. CASE EndRemoval(r)
      <3>1. Others(r) /\ Mine(r)
        BY <2>10 DEF EndRemoval, Go, TypeOK, RequestsInOrder
      <3>q. QED BY <1>0, <3>1
    <2>11. CASE CommitInBackground(r) \/ CommitUpdate(r)
      BY <1>0, <1>1, <2>11 DEF CommitInBackground, CommitUpdate
    <2>q. QED BY <1>2, <2>1, <2>2, <2>3, <2>4, <2>5, <2>6, <2>7, <2>8, <2>9, <2>10, <2>11
              DEF Handle
  <1>3. ASSUME NEW r \in Requests, NEW op \in Offered, NEW me \in Registered, NEW other \in Users,
               Receive(r, op, me, other)
        PROVE  RequestsInOrder'
    <2>1. req'[r] = [op |-> op, me |-> me, other |-> other] /\ op \in Operations
      BY <1>3, FriendRequestAssumption DEF Receive, TypeOK
    <2>2. req'[r] # NoRequest
      BY <2>1 DEF NoRequest, Operations
    <2>3. Others(r) /\ Mine(r)
      BY <1>3, <2>2 DEF Receive, Go, TypeOK, RequestsInOrder
    <2>q. QED BY <1>0, <2>3
  <1>4. ASSUME NEW r \in Requests, QueryFails(r) PROVE RequestsInOrder'
    BY <1>0, <1>1, <1>4 DEF QueryFails
  <1>5. CASE Crash
    BY <1>5 DEF Crash, RequestsInOrder, NoWrites
  <1>6. CASE UNCHANGED vars
    BY <1>6 DEF vars, RequestsInOrder, NoWrites
  <1>q. QED BY <1>2, <1>3, <1>4, <1>5, <1>6 DEF Next

(* What the open transactions have written stays in order.                  *)
WriteSetsInOrder == LocksExclusive /\ InsertsInOrder /\ UpdatesInOrder /\ RemovalsInOrder

(* What a commit, or the end of a request without one, may do to a row.     *)
RowStep(r, id) ==
  \/ rows'[id] = rows[id]
  \/ Wrote(r, id) /\ rows'[id] = NoRow
  \/ /\ Wrote(r, id) /\ Exists(id) /\ rows'[id] # NoRow
     /\ rows'[id].sender = rows[id].sender /\ rows'[id].receiver = rows[id].receiver
  \/ Wrote(r, id) /\ ~Exists(id) /\ \A q \in Requests : id \notin todo[q]

(* A request that ends, or goes on without writes, disturbs no transaction  *)
(* of another request: it changed only rows those had not written.          *)
LEMMA EndKeepsOrder ==
  ASSUME TypeOK, TypeOK', RequestsInOrder, WriteSetsInOrder, NEW r \in Requests,
         \A q \in Requests \ {r} : /\ pc'[q] = pc[q] /\ req'[q] = req[q]
                                   /\ todo'[q] = todo[q] /\ writes'[q] = writes[q],
         writes'[r] = NoWrites, todo'[r] = {},
         pc'[r] \in {"idle", "find", "save", "update", "select"},
         \A id \in RowIds : RowStep(r, id)
  PROVE  WriteSetsInOrder'
  <1>1. \A id \in RowIds : ~Wrote(r, id)'
    BY DEF Wrote, NoWrites
  <1>2. \A q \in Requests \ {r}, id \in RowIds :
          /\ Wrote(q, id)' <=> Wrote(q, id)
          /\ Wrote(q, id) => rows'[id] = rows[id]
    BY DEF Wrote, WriteSetsInOrder, LocksExclusive, RowStep
  <1>3. LocksExclusive'
    BY <1>1, <1>2 DEF LocksExclusive, WriteSetsInOrder
  <1>4. InsertsInOrder'
    <2> SUFFICES ASSUME NEW q \in Requests, pc'[q] = "commitSave"
                 PROVE  \E p \in Pairs : InsertInOrder(q, p)'
      BY DEF InsertsInOrder
    <2>1. q # r /\ pc[q] = "commitSave"
      OBVIOUS
    <2>2. PICK p \in Pairs : InsertInOrder(q, p)
      BY <2>1 DEF WriteSetsInOrder, InsertsInOrder
    <2>3. writes'[q] = [id \in RowIds |-> Insertion(q, p, id)']
      BY <2>1, <2>2 DEF InsertInOrder, Insertion, MyNewStatus, OthersNewStatus
    <2>4. ASSUME NEW id \in {<<p, "sender">>, <<p, "receiver">>}
          PROVE  ~Exists(id)' /\ \A s \in Requests : id \notin todo'[s]
      <3>1. id \in RowIds
        BY DEF RowIds
      <3>2. Wrote(q, id)
        <4>1. writes[q][id] = Insertion(q, p, id)
          BY <2>2, <3>1 DEF InsertInOrder
        <4>2. Insertion(q, p, id) \in Row
          BY <2>1, InsertionInserts DEF RequestsInOrder
        <4>q. QED BY <4>1, <4>2, FriendRequestAssumption DEF Wrote
      <3>3. rows'[id] = rows[id]
        BY <1>2, <2>1, <3>1, <3>2
      <3>q. QED BY <2>1, <2>2, <3>3 DEF InsertInOrder, Exists
    <2>q. QED BY <2>3, <2>4 DEF InsertInOrder
  <1>5. ASSUME NEW q \in Requests \ {r}, NEW id \in RowIds, id \in todo[q], Exists(id)'
        PROVE  /\ Exists(id)
               /\ rows'[id].sender = rows[id].sender /\ rows'[id].receiver = rows[id].receiver
    BY <1>5 DEF RowStep, Exists
  <1>6. UpdatesInOrder'
    <2> SUFFICES ASSUME NEW q \in Requests, NEW id \in RowIds,
                        pc'[q] \in {"firstRows", "secondRows"}
                 PROVE  UpdateInOrder(q, id)'
      BY DEF UpdatesInOrder, UpdateInOrder
    <2>1. q # r /\ pc'[q] = pc[q] /\ todo'[q] = todo[q]
      OBVIOUS
    <2>2. UpdateInOrder(q, id)
      BY DEF WriteSetsInOrder, UpdatesInOrder
    <2>3. /\ SenderId(q)' = SenderId(q) /\ ReceiverId(q)' = ReceiverId(q)
          /\ SenderFriendShipStatus(q)' = SenderFriendShipStatus(q)
          /\ ReceiverFriendShipStatus(q)' = ReceiverFriendShipStatus(q)
      BY <2>1 DEF SenderId, ReceiverId, SenderFriendShipStatus, ReceiverFriendShipStatus
    <2>4. Mirror(id) \in RowIds
      BY MirrorFacts
    <2>5. CASE Wrote(q, id)'
      <3>1. Wrote(q, id) /\ rows'[id] = rows[id]
        BY <1>2, <2>1, <2>5
      <3>2. writes'[q][id] = Updated(q, id)'
        BY <2>1, <2>2, <2>3, <3>1 DEF UpdateInOrder, Updated
      <3>q. QED BY <1>2, <1>5, <2>1, <2>2, <2>3, <2>4, <3>1, <3>2
                DEF UpdateInOrder, RowsFromTo, Exists
    <2>6. CASE ~Wrote(q, id)'
      BY <1>2, <1>5, <2>1, <2>2, <2>3, <2>6 DEF UpdateInOrder, RowsFromTo, Exists
    <2>q. QED BY <2>5, <2>6
  <1>7. RemovalsInOrder'
    BY <1>1, <1>2, <1>5, MirrorFacts DEF RemovalsInOrder, RemovalInOrder, WriteSetsInOrder, Exists
  <1>q. QED BY <1>3, <1>4, <1>6, <1>7 DEF WriteSetsInOrder

(* A step inside request r's transaction keeps all write sets in order when *)
(* r's own is, when it writes no row another transaction has written and    *)
(* when it aims only at committed rows.                                     *)
LEMMA StepKeepsOrder ==
  ASSUME TypeOK, RequestsInOrder, WriteSetsInOrder, NEW r \in Requests, rows' = rows,
         \A q \in Requests \ {r} : /\ pc'[q] = pc[q] /\ req'[q] = req[q]
                                   /\ todo'[q] = todo[q] /\ writes'[q] = writes[q],
         \A id \in RowIds, q \in Requests \ {r} : Wrote(r, id)' => ~Wrote(q, id),
         \A id \in todo'[r] : id \in todo[r] \/ Exists(id),
         pc'[r] = "commitSave" => \E p \in Pairs : InsertInOrder(r, p)',
         \A id \in RowIds : UpdateInOrder(r, id)' /\ RemovalInOrder(r, id)'
  PROVE  WriteSetsInOrder'
  <1>1. ASSUME NEW q \in Requests \ {r}, NEW id \in RowIds
        PROVE  (Wrote(q, id)' <=> Wrote(q, id)) /\ (Wrote(q, Mirror(id))' <=> Wrote(q, Mirror(id)))
    BY DEF Wrote
  <1>2. LocksExclusive'
    BY <1>1 DEF LocksExclusive, WriteSetsInOrder
  <1>3. InsertsInOrder'
    <2> SUFFICES ASSUME NEW q \in Requests \ {r}, pc'[q] = "commitSave"
                 PROVE  \E p \in Pairs : InsertInOrder(q, p)'
      BY DEF InsertsInOrder
    <2>1. PICK p \in Pairs : InsertInOrder(q, p)
      BY DEF WriteSetsInOrder, InsertsInOrder
    <2>2. writes'[q] = [id \in RowIds |-> Insertion(q, p, id)']
      BY <2>1 DEF InsertInOrder, Insertion, MyNewStatus, OthersNewStatus
    <2>3. ASSUME NEW id \in {<<p, "sender">>, <<p, "receiver">>}, NEW s \in Requests
          PROVE  ~Exists(id)' /\ id \notin todo'[s]
      BY <2>1 DEF InsertInOrder, Exists
    <2>q. QED BY <2>2, <2>3 DEF InsertInOrder
  <1>4. ASSUME NEW q \in Requests \ {r}, NEW id \in RowIds
        PROVE  UpdateInOrder(q, id)' /\ RemovalInOrder(q, id)'
    <2>1. UpdateInOrder(q, id) /\ RemovalInOrder(q, id)
      BY DEF WriteSetsInOrder, UpdatesInOrder, RemovalsInOrder
    <2>2. /\ SenderId(q)' = SenderId(q) /\ ReceiverId(q)' = ReceiverId(q)
          /\ SenderFriendShipStatus(q)' = SenderFriendShipStatus(q)
          /\ ReceiverFriendShipStatus(q)' = ReceiverFriendShipStatus(q)
      BY DEF SenderId, ReceiverId, SenderFriendShipStatus, ReceiverFriendShipStatus
    <2>3. UpdateInOrder(q, id)'
      BY <1>1, <2>1, <2>2 DEF UpdateInOrder, Updated, RowsFromTo, Exists
    <2>4. RemovalInOrder(q, id)'
      BY <1>1, <2>1 DEF RemovalInOrder, Exists
    <2>q. QED BY <2>3, <2>4
  <1>q. QED BY <1>2, <1>3, <1>4 DEF WriteSetsInOrder, UpdatesInOrder, RemovalsInOrder

(* createFriendRequestRelations, when it inserts.                           *)
LEMMA InsertKeepsOrder ==
  ASSUME TypeOK, RequestsInOrder, WriteSetsInOrder, NEW r \in Requests, NEW p \in Pairs,
         pc[r] = "save", Fresh(p),
         writes' = [writes EXCEPT ![r] = [id \in RowIds |-> Insertion(r, p, id)]],
         Go(r, "commitSave"), UNCHANGED <<rows, req, todo>>
  PROVE  WriteSetsInOrder'
  <1>1. \A id \in {<<p, "sender">>, <<p, "receiver">>} :
          ~Exists(id) /\ \A q \in Requests : id \notin todo[q] /\ ~Wrote(q, id)
    BY DEF Fresh, Wrote
  <1>2. writes'[r] = [id \in RowIds |-> Insertion(r, p, id)']
    BY DEF TypeOK, Insertion, MyNewStatus, OthersNewStatus
  <1>3. InsertInOrder(r, p)'
    BY <1>1, <1>2 DEF InsertInOrder, Exists
  <1>4. ASSUME NEW id \in RowIds, Wrote(r, id)' PROVE id \in {<<p, "sender">>, <<p, "receiver">>}
    BY <1>2, <1>4 DEF Wrote, Insertion
  <1>5. pc'[r] = "commitSave" /\ todo'[r] = todo[r]
    BY DEF Go, TypeOK
  <1>6. \A id \in RowIds : UpdateInOrder(r, id)' /\ RemovalInOrder(r, id)'
    BY <1>5 DEF UpdateInOrder, RemovalInOrder
  <1>7. \A q \in Requests \ {r} : /\ pc'[q] = pc[q] /\ req'[q] = req[q]
                                   /\ todo'[q] = todo[q] /\ writes'[q] = writes[q]
    BY DEF Go, TypeOK
  <1>q. QED BY <1>1, <1>3, <1>4, <1>5, <1>6, <1>7, StepKeepsOrder

(* A statement of a transaction starts: FirstUpdate, SecondUpdate and the   *)
(* deletion's select.  The second UPDATE aims at the mirror of every row    *)
(* the first has written, and the select at both rows one transaction       *)
(* inserted, because committed rows come in pairs.                          *)
LEMMA StartKeepsOrder ==
  ASSUME TypeOK, RequestsInOrder, WriteSetsInOrder, MirrorsExist, NEW r \in Requests,
         FirstUpdate(r) \/ SecondUpdate(r) \/ SelectForRemoval(r)
  PROVE  WriteSetsInOrder'
  <1>1. \A q \in Requests \ {r} : /\ pc'[q] = pc[q] /\ req'[q] = req[q]
                                   /\ todo'[q] = todo[q] /\ writes'[q] = writes[q]
    BY DEF FirstUpdate, SecondUpdate, SelectForRemoval, StartStatement, Go, TypeOK
  <1>2. /\ rows' = rows /\ req' = req /\ writes' = writes
        /\ pc'[r] \in {"firstRows", "secondRows", "removeRows"}
    BY DEF FirstUpdate, SecondUpdate, SelectForRemoval, StartStatement, Go, TypeOK
  <1>3. \A id \in RowIds, q \in Requests \ {r} : Wrote(r, id)' => ~Wrote(q, id)
    BY <1>2 DEF Wrote, WriteSetsInOrder, LocksExclusive
  <1>4. \A id \in todo'[r] : Exists(id)
    BY DEF FirstUpdate, SecondUpdate, SelectForRemoval, StartStatement, TypeOK, RowsFromTo
  <1>5. ASSUME NEW id \in RowIds PROVE UpdateInOrder(r, id)' /\ RemovalInOrder(r, id)'
    <2>1. Mirror(id) \in RowIds
      BY MirrorFacts
    <2>2. CASE FirstUpdate(r)
      <3>1. /\ pc[r] = "update" /\ pc'[r] = "firstRows"
            /\ todo'[r] = RowsFromTo(SenderId(r), ReceiverId(r))
        BY <2>2 DEF FirstUpdate, StartStatement, Go, TypeOK
      <3>2. ~Wrote(r, id)'
        BY <1>2, <3>1 DEF RequestsInOrder, NoWrites, Wrote
      <3>q. QED BY <1>2, <3>1, <3>2
                DEF UpdateInOrder, RemovalInOrder, RowsFromTo, Exists, SenderId, ReceiverId
    <2>3. CASE SecondUpdate(r)
      <3>1. /\ pc[r] = "firstRows" /\ pc'[r] = "secondRows"
            /\ todo'[r] = RowsFromTo(ReceiverId(r), SenderId(r))
        BY <2>3 DEF SecondUpdate, StartStatement, Go, TypeOK
      <3>2. UpdateInOrder(r, id)
        BY DEF WriteSetsInOrder, UpdatesInOrder
      <3>3. SenderId(r) # ReceiverId(r)
        BY <3>1 DEF RequestsInOrder, SenderId, ReceiverId
      <3>4. ASSUME Wrote(r, id) PROVE id \in RowsFromTo(SenderId(r), ReceiverId(r))
        BY <3>1, <3>2, <3>3, <3>4 DEF UpdateInOrder, RowsFromTo
      <3>5. ASSUME Wrote(r, id) PROVE Mirror(id) \in todo'[r]
        BY <2>1, <3>1, <3>4, <3>5 DEF RowsFromTo, MirrorsExist
      <3>q. QED BY <1>2, <3>1, <3>2, <3>5
                DEF UpdateInOrder, RemovalInOrder, RowsFromTo, Exists, Wrote, Updated, SenderId,
                    ReceiverId, SenderFriendShipStatus, ReceiverFriendShipStatus
    <2>4. CASE SelectForRemoval(r)
      <3>1. /\ pc[r] = "select" /\ pc'[r] = "removeRows"
            /\ todo'[r] = RowsFromTo(req[r].me, req[r].other)
                             \cup RowsFromTo(req[r].other, req[r].me)
        BY <2>4 DEF SelectForRemoval, StartStatement, Go, TypeOK
      <3>2. ~Wrote(r, id)'
        BY <1>2, <3>1 DEF RequestsInOrder, NoWrites, Wrote
      <3>3. id \in todo'[r] => Mirror(id) \in todo'[r]
        BY <2>1, <3>1 DEF RowsFromTo, MirrorsExist
      <3>q. QED BY <3>1, <3>2, <3>3 DEF UpdateInOrder, RemovalInOrder
    <2>q. QED BY <2>2, <2>3, <2>4
  <1>q. QED BY <1>1, <1>2, <1>3, <1>4, <1>5, StepKeepsOrder

(* A statement reaches a row, updates or deletes it, or skips it because it *)
(* is gone: then so is its mirror.                                          *)
LEMMA WriteKeepsOrder ==
  ASSUME TypeOK, RequestsInOrder, WriteSetsInOrder, MirrorsExist, NEW r \in Requests,
         NEW i \in RowIds, UpdateRow(r, i) \/ RemoveRow(r, i)
  PROVE  WriteSetsInOrder'
  <1> DEFINE value == IF pc[r] = "removeRows" THEN NoRow ELSE Updated(r, i)
  <1>0. pc[r] \in {"firstRows", "secondRows", "removeRows"}
    BY DEF UpdateRow, RemoveRow
  <1>1. SenderId(r) # ReceiverId(r)
    BY <1>0 DEF RequestsInOrder, SenderId, ReceiverId
  <1>2. UpdateInOrder(r, i) /\ RemovalInOrder(r, i)
    BY DEF WriteSetsInOrder, UpdatesInOrder, RemovalsInOrder
  <1>3. /\ i \in todo[r] /\ ~LockedFor(r, i)
        /\ todo' = [todo EXCEPT ![r] = @ \ {i}]
        /\ UNCHANGED <<rows, req, pc>>
    BY DEF UpdateRow, RemoveRow, WriteRow
  <1>4. ~Exists(i) => writes' = writes
    BY DEF UpdateRow, RemoveRow, WriteRow
  <1>5. Exists(i) => writes' = [writes EXCEPT ![r][i] = value]
    BY <1>1, <1>2, <1>3 DEF UpdateRow, RemoveRow, WriteRow, Updated, UpdateInOrder, RowsFromTo
  <1>6. value # Untouched \/ ~Exists(i)
    <2>1. ASSUME Exists(i), pc[r] # "removeRows" PROVE value \in Row
      <3>1. rows[i] \in Row
        BY <2>1 DEF Exists, TypeOK
      <3>2. SenderFriendShipStatus(r) \in Statuses /\ ReceiverFriendShipStatus(r) \in Statuses
        BY DEF SenderFriendShipStatus, ReceiverFriendShipStatus, Statuses
      <3>q. QED BY <2>1, <3>1, <3>2 DEF Updated, Row
    <2>q. QED BY <2>1, FriendRequestAssumption
  <1>7. \A q \in Requests \ {r} : /\ pc'[q] = pc[q] /\ req'[q] = req[q]
                                   /\ todo'[q] = todo[q] /\ writes'[q] = writes[q]
    BY <1>3, <1>4, <1>5 DEF TypeOK
  <1>8. \A id \in RowIds : id # i => writes'[r][id] = writes[r][id]
    BY <1>4, <1>5 DEF TypeOK
  <1>9. writes'[r][i] = IF Exists(i) THEN value ELSE writes[r][i]
    BY <1>4, <1>5 DEF TypeOK
  <1>10. todo'[r] = todo[r] \ {i}
    BY <1>3 DEF TypeOK
  <1>11. \A id \in RowIds, q \in Requests \ {r} : Wrote(r, id)' => ~Wrote(q, id)
    BY <1>3, <1>8 DEF LockedFor, Wrote, WriteSetsInOrder, LocksExclusive
  <1>12. /\ SenderId(r)' = SenderId(r) /\ ReceiverId(r)' = ReceiverId(r)
         /\ SenderFriendShipStatus(r)' = SenderFriendShipStatus(r)
         /\ ReceiverFriendShipStatus(r)' = ReceiverFriendShipStatus(r)
    BY <1>3 DEF SenderId, ReceiverId, SenderFriendShipStatus, ReceiverFriendShipStatus
  <1>13. \A id \in RowIds : Updated(r, id)' = Updated(r, id)
    BY <1>3, <1>12 DEF Updated
  <1>14. \A id \in RowIds : Wrote(r, id) => Wrote(r, id)'
    BY <1>6, <1>8, <1>9 DEF Wrote
  <1>15. ASSUME NEW id \in RowIds, Exists(id), Mirror(id) \in todo[r] \/ Wrote(r, Mirror(id))
         PROVE  Mirror(id) \in todo'[r] \/ Wrote(r, Mirror(id))'
    <2>1. Mirror(id) \in RowIds /\ Exists(Mirror(id))
      BY <1>15, MirrorFacts DEF MirrorsExist
    <2>q. QED BY <1>6, <1>9, <1>10, <1>14, <1>15, <2>1 DEF Wrote
  <1>16. ASSUME NEW id \in RowIds PROVE UpdateInOrder(r, id)' /\ RemovalInOrder(r, id)'
    <2>1. UpdateInOrder(r, id) /\ RemovalInOrder(r, id)
      BY DEF WriteSetsInOrder, UpdatesInOrder, RemovalsInOrder
    <2>2. CASE id # i
      <3>1. Wrote(r, id)' <=> Wrote(r, id)
        BY <1>8, <2>2 DEF Wrote
      <3>q. QED BY <1>3, <1>8, <1>10, <1>12, <1>13, <1>15, <2>1, <2>2, <3>1
                DEF UpdateInOrder, RemovalInOrder, RowsFromTo, Exists
    <2>3. CASE id = i /\ Exists(i)
      <3>1. writes'[r][id] = value /\ id \notin todo'[r] /\ id \in todo[r]
        BY <1>3, <1>9, <1>10, <2>3
      <3>q. QED BY <1>0, <1>1, <1>3, <1>12, <1>13, <1>15, <2>1, <2>3, <3>1
                DEF UpdateInOrder, RemovalInOrder, RowsFromTo, Exists
    <2>4. CASE id = i /\ ~Exists(i)
      BY <1>0, <1>3, <1>9, <1>10, <1>12, <2>1, <2>4 DEF UpdateInOrder, RemovalInOrder, Exists, Wrote
    <2>q. QED BY <2>2, <2>3, <2>4
  <1>q. QED BY <1>0, <1>3, <1>7, <1>10, <1>11, <1>16, StepKeepsOrder

LEMMA EndRemovalKeepsOrder ==
  ASSUME TypeOK, RequestsInOrder, WriteSetsInOrder, NEW r \in Requests, EndRemoval(r)
  PROVE  WriteSetsInOrder'
  <1>1. /\ pc[r] = "removeRows" /\ pc'[r] = "commitRemove"
        /\ UNCHANGED <<rows, req, todo, writes>> /\ \A q \in Requests \ {r} : pc'[q] = pc[q]
    BY DEF EndRemoval, Go, TypeOK
  <1>2. \A id \in RowIds : UpdateInOrder(r, id)' /\ RemovalInOrder(r, id)'
    BY <1>1 DEF WriteSetsInOrder, RemovalsInOrder, RemovalInOrder, UpdateInOrder, Exists, Wrote
  <1>3. \A id \in RowIds, q \in Requests \ {r} : Wrote(r, id)' => ~Wrote(q, id)
    BY <1>1 DEF Wrote, WriteSetsInOrder, LocksExclusive
  <1>q. QED BY <1>1, <1>2, <1>3, StepKeepsOrder

(* What the committed rows promise.                                         *)
Committed == MirrorsExist /\ OneBlocksInMirrors

LEMMA CommitSaveFacts ==
  ASSUME TypeOK, RequestsInOrder, WriteSetsInOrder, Committed, NEW r \in Requests,
         pc[r] = "commitSave", Commit(r)
  PROVE  Committed' /\ BlocksMirrored /\ \A id \in RowIds : RowStep(r, id)
  <1>1. PICK p \in Pairs : InsertInOrder(r, p)
    BY DEF WriteSetsInOrder, InsertsInOrder
  <1> DEFINE s == <<p, "sender">>
             t == <<p, "receiver">>
  <1>2. s \in RowIds /\ t \in RowIds /\ s # t /\ Mirror(s) = t /\ Mirror(t) = s
    BY DEF RowIds, Mirror
  <1>3. Insertion(r, p, s) \in Row /\ Insertion(r, p, t) \in Row
    BY InsertionInserts DEF RequestsInOrder
  <1>4. /\ rows'[s] = [sender |-> req[r].me, receiver |-> req[r].other, status |-> MyNewStatus(r)]
        /\ rows'[t] = [sender |-> req[r].other, receiver |-> req[r].me,
                       status |-> OthersNewStatus(r)]
    BY <1>1, <1>2, <1>3, FriendRequestAssumption DEF Commit, InsertInOrder, Insertion
  <1>5. rows'[s] # NoRow /\ rows'[t] # NoRow /\ Wrote(r, s) /\ Wrote(r, t)
    BY <1>1, <1>2, <1>3, <1>4, FriendRequestAssumption DEF InsertInOrder, Insertion, Wrote
  <1>6. \A id \in RowIds \ {s, t} : rows'[id] = rows[id]
    BY <1>1 DEF Commit, InsertInOrder, Insertion
  <1>7. ~Exists(s) /\ ~Exists(t) /\ \A q \in Requests : s \notin todo[q] /\ t \notin todo[q]
    BY <1>1 DEF InsertInOrder
  <1>8. ASSUME NEW id \in RowIds \ {s, t} PROVE Mirror(id) \in RowIds \ {s, t}
    BY <1>2, MirrorFacts
  <1>9. \A id \in RowIds : RowStep(r, id)
    BY <1>5, <1>6, <1>7 DEF RowStep
  <1>10. MirrorsExist'
    BY <1>2, <1>4, <1>5, <1>6, <1>8 DEF Committed, MirrorsExist, Exists
  <1>11. /\ MyNewStatus(r) # "ACCEPTED" /\ OthersNewStatus(r) \notin {"ACCEPTED", "BLOCKED_BY_ME"}
         /\ MyNewStatus(r) = "BLOCKED_BY_ME" => OthersNewStatus(r) = "BLOCKED_BY_OTHER_USER"
    BY DEF MyNewStatus, OthersNewStatus
  <1>12. OneBlocksInMirrors'
    BY <1>2, <1>4, <1>6, <1>8, <1>11 DEF Committed, OneBlocksInMirrors, Exists
  <1>14. BlocksMirrored
    <2> SUFFICES ASSUME NEW id \in RowIds, rows'[id] # NoRow, rows'[id].status = "BLOCKED_BY_ME",
                        ~(rows[id] # NoRow /\ rows[id].status = "BLOCKED_BY_ME")
                 PROVE  \E i \in RowIds : /\ rows'[i] # NoRow
                                          /\ rows'[i].status = "BLOCKED_BY_OTHER_USER"
                                          /\ rows'[i].sender = rows'[id].receiver
                                          /\ rows'[i].receiver = rows'[id].sender
      BY DEF BlocksMirrored
    <2>1. id = s
      BY <1>2, <1>4, <1>6, <1>11
    <2>q. QED BY <1>2, <1>4, <1>5, <1>11, <2>1
  <1>q. QED BY <1>9, <1>10, <1>12, <1>14 DEF Committed

LEMMA CommitRemoveFacts ==
  ASSUME TypeOK, RequestsInOrder, WriteSetsInOrder, Committed, NEW r \in Requests,
         pc[r] = "commitRemove", Commit(r)
  PROVE  Committed' /\ BlocksMirrored /\ \A id \in RowIds : RowStep(r, id)
  <1>1. \A id \in RowIds : RemovalInOrder(r, id) /\ todo[r] = {}
    BY DEF WriteSetsInOrder, RemovalsInOrder, RequestsInOrder
  <1>2. \A id \in RowIds : rows'[id] = IF Wrote(r, id) THEN NoRow ELSE rows[id]
    BY <1>1 DEF Commit, Wrote, RemovalInOrder
  <1>3. ASSUME NEW id \in RowIds, Wrote(r, Mirror(id)) PROVE Wrote(r, id)
    <2>1. Mirror(id) \in RowIds /\ Mirror(Mirror(id)) = id
      BY MirrorFacts
    <2>q. QED BY <1>1, <1>3, <2>1 DEF RemovalInOrder
  <1>4. \A id \in RowIds : Mirror(id) \in RowIds
    BY MirrorFacts
  <1>5. MirrorsExist'
    BY <1>2, <1>3, <1>4 DEF Committed, MirrorsExist, Exists
  <1>6. OneBlocksInMirrors'
    BY <1>2, <1>4 DEF Committed, OneBlocksInMirrors, Exists
  <1>8. BlocksMirrored /\ \A id \in RowIds : RowStep(r, id)
    BY <1>2 DEF BlocksMirrored, RowStep
  <1>q. QED BY <1>5, <1>6, <1>8 DEF Committed

LEMMA CommitUpdateFacts ==
  ASSUME TypeOK, RequestsInOrder, WriteSetsInOrder, Committed, NEW r \in Requests,
         CommitUpdate(r)
  PROVE  Committed' /\ BlocksMirrored /\ \A id \in RowIds : RowStep(r, id)
  <1>1. /\ pc[r] = "secondRows" /\ todo[r] = {} /\ Commit(r)
        /\ req[r].op \in {"accept", "block"} /\ req[r].me # req[r].other
    BY DEF CommitUpdate, RequestsInOrder
  <1>2. \A id \in RowIds : UpdateInOrder(r, id)
    BY DEF WriteSetsInOrder, UpdatesInOrder
  <1>3. \A id \in RowIds : rows'[id] = IF Wrote(r, id) THEN Updated(r, id) ELSE rows[id]
    BY <1>1, <1>2 DEF Commit, Wrote, UpdateInOrder
  <1>4. ASSUME NEW id \in RowIds, Wrote(r, id)
        PROVE  /\ Exists(id) /\ rows[id] \in Row /\ rows'[id] # NoRow
               /\ rows'[id].sender = rows[id].sender /\ rows'[id].receiver = rows[id].receiver
               /\ rows'[id].status = IF rows[id].sender = SenderId(r)
                                     THEN SenderFriendShipStatus(r)
                                     ELSE ReceiverFriendShipStatus(r)
               /\ {rows[id].sender, rows[id].receiver} = {req[r].me, req[r].other}
    <2>1. Exists(id) /\ rows[id] \in Row
      BY <1>1, <1>2, <1>4 DEF UpdateInOrder, TypeOK, Exists
    <2>2. rows'[id] = Updated(r, id)
      BY <1>3, <1>4
    <2>3. Updated(r, id) \in Row
      BY <2>1 DEF Updated, Row, SenderFriendShipStatus, ReceiverFriendShipStatus, Statuses
    <2>4. {rows[id].sender, rows[id].receiver} = {req[r].me, req[r].other}
      BY <1>1, <1>2, <1>4 DEF UpdateInOrder, RowsFromTo, SenderId, ReceiverId
    <2>q. QED BY <2>1, <2>2, <2>3, <2>4, FriendRequestAssumption DEF Updated, Row
  <1>5. \A id \in RowIds : Mirror(id) \in RowIds /\ Mirror(Mirror(id)) = id
    BY MirrorFacts
  <1>6. \A id \in RowIds : RowStep(r, id)
    BY <1>3, <1>4 DEF RowStep
  <1>7. \A id \in RowIds : /\ Exists(id)' <=> Exists(id)
                           /\ Exists(id) => /\ rows'[id].sender = rows[id].sender
                                            /\ rows'[id].receiver = rows[id].receiver
    BY <1>3, <1>4 DEF Exists
  <1>8. MirrorsExist'
    BY <1>5, <1>7 DEF Committed, MirrorsExist
  <1>9. ASSUME NEW id \in RowIds, Wrote(r, id), rows'[id].status = "BLOCKED_BY_ME"
        PROVE  /\ rows'[Mirror(id)] # NoRow
               /\ rows'[Mirror(id)].status = "BLOCKED_BY_OTHER_USER"
    <2>1. req[r].op = "block" /\ rows[id].sender = SenderId(r) /\ Exists(id)
      BY <1>1, <1>4, <1>9 DEF SenderFriendShipStatus, ReceiverFriendShipStatus
    <2>2. Wrote(r, Mirror(id))
      BY <1>1, <1>2, <1>9, <2>1 DEF UpdateInOrder
    <2>3. rows[Mirror(id)].sender = rows[id].receiver /\ rows[id].receiver # rows[id].sender
      BY <1>1, <1>4, <1>9, <2>1 DEF Committed, MirrorsExist
    <2>q. QED BY <1>4, <1>5, <2>1, <2>2, <2>3 DEF ReceiverFriendShipStatus
  <1>10. BlocksMirrored
    <2> SUFFICES ASSUME NEW id \in RowIds, rows'[id] # NoRow, rows'[id].status = "BLOCKED_BY_ME",
                        ~(rows[id] # NoRow /\ rows[id].status = "BLOCKED_BY_ME")
                 PROVE  \E i \in RowIds : /\ rows'[i] # NoRow
                                          /\ rows'[i].status = "BLOCKED_BY_OTHER_USER"
                                          /\ rows'[i].sender = rows'[id].receiver
                                          /\ rows'[i].receiver = rows'[id].sender
      BY DEF BlocksMirrored
    <2>1. Wrote(r, id)
      BY <1>3
    <2>2. Exists(id) /\ Mirror(id) \in RowIds
      BY <1>4, <1>5, <2>1
    <2>3. /\ rows'[Mirror(id)].sender = rows'[id].receiver
          /\ rows'[Mirror(id)].receiver = rows'[id].sender
      BY <1>8, <2>2 DEF MirrorsExist, Exists
    <2>q. QED BY <1>9, <2>1, <2>2, <2>3
  <1>11. OneBlocksInMirrors'
    BY <1>3, <1>5, <1>7, <1>9 DEF Committed, OneBlocksInMirrors, Exists
  <1>q. QED BY <1>6, <1>8, <1>10, <1>11 DEF Committed

(* Every step keeps the write sets in order and the committed rows whole.   *)
LEMMA StepFacts ==
  ASSUME IndInv, [Next]_vars
  PROVE  WriteSetsInOrder' /\ Committed' /\ (BlocksMirrored \/ UNCHANGED rows)
  <1>1. /\ TypeOK /\ RequestsInOrder /\ WriteSetsInOrder /\ Committed
        /\ TypeOK' /\ RequestsInOrder'
    BY TypeNext, RequestsInOrderNext DEF IndInv, WriteSetsInOrder, Committed
  <1>2. ASSUME UNCHANGED rows PROVE Committed'
    BY <1>1, <1>2 DEF Committed, MirrorsExist, OneBlocksInMirrors, Exists
  <1>3. ASSUME NEW r \in Requests, Finish(r)
        PROVE  /\ \A q \in Requests \ {r} : /\ pc'[q] = pc[q] /\ req'[q] = req[q]
                                           /\ todo'[q] = todo[q] /\ writes'[q] = writes[q]
               /\ writes'[r] = NoWrites /\ todo'[r] = {} /\ pc'[r] = "idle"
    BY <1>1, <1>3 DEF Finish, Go, TypeOK
  <1>4. ASSUME NEW r \in Requests, Finish(r), UNCHANGED rows PROVE WriteSetsInOrder'
    BY <1>1, <1>3, <1>4, EndKeepsOrder DEF RowStep
  <1>5. ASSUME NEW r \in Requests, Refuse(r)
        PROVE  WriteSetsInOrder' /\ Committed' /\ UNCHANGED rows
    BY <1>2, <1>4, <1>5 DEF Refuse
  <1>6. ASSUME NEW r \in Requests, UNCHANGED <<rows, todo, writes>>,
               pc[r] \in {"idle", "find"}, pc'[r] \in {"find", "save", "update", "select"},
               \A q \in Requests \ {r} : pc'[q] = pc[q] /\ req'[q] = req[q]
        PROVE  WriteSetsInOrder' /\ Committed' /\ UNCHANGED rows
    <2>1. writes'[r] = NoWrites /\ todo'[r] = {}
      BY <1>1, <1>6 DEF RequestsInOrder
    <2>q. QED BY <1>1, <1>2, <1>6, <2>1, EndKeepsOrder DEF RowStep
  <1>7. ASSUME NEW r \in Requests, pc[r] = "find", NEW step \in {"save", "update", "select"},
               Continue(r, step)
        PROVE  WriteSetsInOrder' /\ Committed' /\ UNCHANGED rows
    <2>1. pc'[r] = step /\ \A q \in Requests \ {r} : pc'[q] = pc[q] /\ req'[q] = req[q]
      BY <1>1, <1>7 DEF Continue, Go, TypeOK
    <2>q. QED BY <1>6, <1>7, <2>1 DEF Continue
  <1>8. ASSUME NEW r \in Requests, Handle(r)
        PROVE  WriteSetsInOrder' /\ Committed' /\ (BlocksMirrored \/ UNCHANGED rows)
    <2>1. CASE RefuseSelf(r)
      BY <1>5, <2>1 DEF RefuseSelf
    <2>2. CASE SendFriendRequest(r)
      <3>1. CASE /\ req' = [req EXCEPT ![r].op = "accept"]
                 /\ UNCHANGED <<rows, pc, todo, writes>>
        <4>1. \A q \in Requests \ {r} : pc'[q] = pc[q] /\ req'[q] = req[q]
          BY <1>1, <3>1 DEF TypeOK
        <4>q. QED BY <1>6, <2>2, <3>1, <4>1 DEF SendFriendRequest, Finding
      <3>q. QED BY <1>5, <1>7, <2>2, <3>1 DEF SendFriendRequest, Finding
    <2>3. CASE AcceptFriendRequest(r)
      BY <1>5, <1>7, <2>3 DEF AcceptFriendRequest, Finding
    <2>4. CASE CancelSentFriendRequest(r)
      BY <1>5, <1>7, <2>4 DEF CancelSentFriendRequest, Finding
    <2>5. CASE BlockFriend(r)
      BY <1>5, <1>7, <2>5 DEF BlockFriend, Finding
    <2>6. CASE UnblockFriend(r)
      BY <1>5, <1>7, <2>6 DEF UnblockFriend, Finding
    <2>7. CASE UnFriend(r)
      BY <1>5, <1>7, <2>7 DEF UnFriend, Finding
    <2>8. ASSUME NEW p \in Pairs, CreateFriendRequestRelations(r, p)
          PROVE  WriteSetsInOrder' /\ Committed' /\ UNCHANGED rows
      BY <1>1, <1>2, <1>5, <2>8, InsertKeepsOrder DEF CreateFriendRequestRelations
    <2>9. CASE FirstUpdate(r) \/ SecondUpdate(r) \/ SelectForRemoval(r)
      <3>1. UNCHANGED rows
        BY <2>9 DEF FirstUpdate, SecondUpdate, SelectForRemoval, StartStatement
      <3>q. QED BY <1>1, <1>2, <2>9, <3>1, StartKeepsOrder DEF Committed
    <2>10. ASSUME NEW id \in RowIds, UpdateRow(r, id) \/ RemoveRow(r, id)
           PROVE  WriteSetsInOrder' /\ Committed' /\ UNCHANGED rows
      <3>1. UNCHANGED rows
        BY <2>10 DEF UpdateRow, RemoveRow, WriteRow
      <3>q. QED BY <1>1, <1>2, <2>10, <3>1, WriteKeepsOrder DEF Committed
    <2>11. CASE EndRemoval(r)
      BY <1>1, <1>2, <2>11, EndRemovalKeepsOrder DEF EndRemoval
    <2>12. CASE CommitInBackground(r)
      <3>1. Committed' /\ BlocksMirrored /\ \A id \in RowIds : RowStep(r, id)
        BY <1>1, <2>12, CommitSaveFacts, CommitRemoveFacts DEF CommitInBackground
      <3>q. QED BY <1>1, <1>3, <2>12, <3>1, EndKeepsOrder DEF CommitInBackground
    <2>13. CASE CommitUpdate(r)
      <3>1. Committed' /\ BlocksMirrored /\ \A id \in RowIds : RowStep(r, id)
        BY <1>1, <2>13, CommitUpdateFacts
      <3>q. QED BY <1>1, <1>3, <2>13, <3>1, EndKeepsOrder DEF CommitUpdate
    <2>q. QED BY <1>8, <2>1, <2>2, <2>3, <2>4, <2>5, <2>6, <2>7, <2>8, <2>9, <2>10, <2>11, <2>12,
                 <2>13 DEF Handle
  <1>9. ASSUME NEW r \in Requests, NEW op \in Offered, NEW me \in Registered, NEW other \in Users,
               Receive(r, op, me, other)
        PROVE  WriteSetsInOrder' /\ Committed' /\ UNCHANGED rows
    <2>1. pc'[r] = "find" /\ \A q \in Requests \ {r} : pc'[q] = pc[q] /\ req'[q] = req[q]
      BY <1>1, <1>9 DEF Receive, Go, TypeOK
    <2>q. QED BY <1>6, <1>9, <2>1 DEF Receive
  <1>10. ASSUME NEW r \in Requests, QueryFails(r)
         PROVE  WriteSetsInOrder' /\ Committed' /\ UNCHANGED rows
    BY <1>2, <1>4, <1>10 DEF QueryFails
  <1>11. CASE Crash
    <2>1. \A q \in Requests : pc'[q] = "idle" /\ \A id \in RowIds : ~Wrote(q, id)'
      BY <1>11 DEF Crash, Wrote, NoWrites
    <2>2. LocksExclusive' /\ InsertsInOrder'
      BY <2>1 DEF LocksExclusive, InsertsInOrder
    <2>3. UpdatesInOrder' /\ RemovalsInOrder'
      BY <2>1 DEF UpdatesInOrder, UpdateInOrder, RemovalsInOrder, RemovalInOrder
    <2>q. QED BY <1>2, <1>11, <2>2, <2>3 DEF Crash, WriteSetsInOrder
  <1>12. CASE UNCHANGED vars
    <2>1. UNCHANGED <<rows, req, pc, todo, writes>>
      BY <1>12 DEF vars
    <2>2. LocksExclusive'
      BY <1>1, <2>1 DEF WriteSetsInOrder, LocksExclusive, Wrote
    <2>4. ASSUME NEW r \in Requests, NEW p \in Pairs, InsertInOrder(r, p)
          PROVE  InsertInOrder(r, p)'
      <3>1. \A id \in RowIds : Insertion(r, p, id)' = Insertion(r, p, id)
        BY <2>1 DEF Insertion, MyNewStatus, OthersNewStatus
      <3>2. writes'[r] = [id \in RowIds |-> Insertion(r, p, id)']
        BY <2>1, <2>4, <3>1 DEF InsertInOrder
      <3>q. QED BY <2>1, <2>4, <3>2 DEF InsertInOrder, Exists
    <2>5. InsertsInOrder'
      BY <1>1, <2>1, <2>4 DEF WriteSetsInOrder, InsertsInOrder
    <2>3. UpdatesInOrder' /\ RemovalsInOrder'
      BY <1>1, <2>1 DEF WriteSetsInOrder, Wrote, UpdatesInOrder, UpdateInOrder, RemovalsInOrder,
                        RemovalInOrder, Exists, Updated, SenderId, ReceiverId, RowsFromTo,
                        SenderFriendShipStatus, ReceiverFriendShipStatus
    <2>q. QED BY <1>2, <2>1, <2>2, <2>3, <2>5 DEF WriteSetsInOrder
  <1>q. QED BY <1>8, <1>9, <1>10, <1>11, <1>12 DEF Next

-----------------------------------------------------------------------------
(* The inductive invariant holds in every behaviour: whatever requests,     *)
(* failures and crashes interleave, open transactions and committed rows    *)
(* fit together.                                                            *)
THEOREM Invariant == Spec => []IndInv
  <1>1. Init => IndInv
    <2> SUFFICES ASSUME Init PROVE IndInv
      OBVIOUS
    <2>1. TypeOK
      BY TypeInit
    <2>2. /\ \A r \in Requests : /\ pc[r] = "idle" /\ todo[r] = {} /\ writes[r] = NoWrites
                                 /\ \A id \in RowIds : ~Wrote(r, id)
          /\ \A id \in RowIds : ~Exists(id)
      BY DEF Init, Wrote, NoWrites, Exists
    <2>3. LocksExclusive /\ InsertsInOrder /\ UpdatesInOrder /\ RemovalsInOrder
      BY <2>2 DEF LocksExclusive, InsertsInOrder, UpdatesInOrder, UpdateInOrder, RemovalsInOrder,
                  RemovalInOrder
    <2>4. RequestsInOrder
      BY <2>2 DEF RequestsInOrder
    <2>5. MirrorsExist /\ OneBlocksInMirrors
      BY <2>2 DEF Init, MirrorsExist, OneBlocksInMirrors, Exists
    <2>q. QED BY <2>1, <2>3, <2>4, <2>5 DEF IndInv
  <1>2. IndInv /\ [Next]_vars => IndInv'
    <2> SUFFICES ASSUME IndInv, [Next]_vars PROVE IndInv'
      OBVIOUS
    <2>1. TypeOK' /\ RequestsInOrder'
      BY TypeNext, RequestsInOrderNext DEF IndInv
    <2>q. QED BY <2>1, StepFacts DEF IndInv, WriteSetsInOrder, Committed
  <1>q. QED BY <1>1, <1>2, PTL DEF Spec

(* The types of the service's variables.                                    *)
THEOREM TypeCorrect == Spec => []TypeOK
  <1>1. IndInv => TypeOK
    BY DEF IndInv
  <1>q. QED BY <1>1, Invariant, PTL

(* The rows from one user to another and the rows back, inserted, updated   *)
(* and deleted in pairs, are in a bijection: Mirror.                        *)
LEMMA MirrorsCounted ==
  ASSUME TypeOK, MirrorsExist, NEW u \in Users, NEW v \in Users
  PROVE  Cardinality(RowsFromTo(u, v)) = Cardinality(RowsFromTo(v, u))
  <1> DEFINE S == RowsFromTo(u, v)
             T == RowsFromTo(v, u)
             f == [id \in S |-> Mirror(id)]
  <1>1. \A id \in S : Mirror(id) \in T
    BY MirrorFacts DEF RowsFromTo, MirrorsExist
  <1>2. \A id \in T : Mirror(id) \in S
    BY MirrorFacts DEF RowsFromTo, MirrorsExist
  <1>3. \A id \in S \cup T : id \in RowIds /\ Mirror(Mirror(id)) = id
    BY MirrorFacts DEF RowsFromTo
  <1>4. f \in Bijection(S, T)
    <2>1. f \in [S -> T]
      BY <1>1
    <2>2. \A i, j \in S : f[i] = f[j] => i = j
      BY <1>3
    <2>3. \A id \in T : \E i \in S : f[i] = id
      BY <1>2, <1>3
    <2>q. QED BY <2>1, <2>2, <2>3, Fun_IsBij
  <1>5. IsFiniteSet(RowIds)
    <2>1. IsFiniteSet({"sender", "receiver"})
      <3>1. {"sender", "receiver"} = {"sender"} \cup {"receiver"}
        OBVIOUS
      <3>2. IsFiniteSet({"sender"})
        BY FS_Singleton
      <3>3. IsFiniteSet({"sender"} \cup {"receiver"})
        BY <3>2, FS_AddElement
      <3>q. QED BY <3>1, <3>3
    <2>q. QED BY <2>1, FS_Product, FriendRequestAssumption DEF RowIds
  <1>6. IsFiniteSet(S) /\ IsFiniteSet(T)
    BY <1>5, FS_Subset DEF RowsFromTo
  <1>7. ExistsBijection(S, T)
    BY <1>4 DEF ExistsBijection
  <1>q. QED BY <1>6, <1>7, FS_Bijection

(* No interleaving of saves, deletions, failures and crashes leaves half a  *)
(* relation: two users have as many rows in one direction as in the other.  *)
THEOREM RowsAreTwins == Spec => []TwinRows
  <1>1. IndInv => TwinRows
    BY MirrorsCounted DEF IndInv, TwinRows
  <1>q. QED BY <1>1, Invariant, PTL

(* Two users both hold a BLOCKED_BY_ME row about the other only when they   *)
(* have more than one row in a direction.                                   *)
THEOREM OneBlocker == Spec => []OneBlockerUnlessDuplicates
  <1>1. ASSUME IndInv PROVE OneBlockerUnlessDuplicates
    <2> SUFFICES ASSUME NEW u \in Users, NEW v \in Users,
                        NEW i \in RowsFromTo(u, v), rows[i].status = "BLOCKED_BY_ME",
                        NEW j \in RowsFromTo(v, u), rows[j].status = "BLOCKED_BY_ME"
                 PROVE  \E k, l \in RowsFromTo(u, v) : k # l
      BY DEF OneBlockerUnlessDuplicates, WithStatus
    <2>1. i \in RowIds /\ j \in RowIds /\ Exists(i) /\ Exists(j)
      BY DEF RowsFromTo
    <2>2. Mirror(j) \in RowIds /\ Mirror(Mirror(j)) = j
      BY <2>1, MirrorFacts
    <2>3. Mirror(j) \in RowsFromTo(u, v)
      BY <1>1, <2>1, <2>2 DEF IndInv, MirrorsExist, RowsFromTo
    <2>4. i # Mirror(j)
      BY <1>1, <2>1, <2>2 DEF IndInv, MirrorsExist, OneBlocksInMirrors
    <2>q. QED BY <2>3, <2>4
  <1>q. QED BY <1>1, Invariant, PTL

(* Every commit that makes a row BLOCKED_BY_ME leaves a row the other way   *)
(* BLOCKED_BY_OTHER_USER.                                                   *)
THEOREM BlockReachesTheOther == Spec => BlockIsMirrored
  <1>1. IndInv /\ [Next]_vars => [BlocksMirrored]_vars
    <2> SUFFICES ASSUME IndInv, [Next]_vars PROVE BlocksMirrored
      OBVIOUS
    <2>1. CASE UNCHANGED rows
      BY <2>1 DEF BlocksMirrored
    <2>q. QED BY <2>1, StepFacts
  <1>q. QED BY <1>1, Invariant, PTL DEF Spec, BlockIsMirrored
=============================================================================
