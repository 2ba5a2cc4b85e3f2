------------------------ MODULE FriendRequestInvariant ------------------------
(***************************************************************************)
(* The inductive invariant of FriendRequest: TwinRows and its companions    *)
(* hold because of what every open transaction has written so far, and      *)
(* because of a fact of history no handler can read: the two rows one       *)
(* transaction inserted are updated and deleted together ever after.        *)
(***************************************************************************)
EXTENDS FriendRequest

(* The row inserted together with id. *)
Mirror(id) == <<id[1], IF id[2] = "sender" THEN "receiver" ELSE "sender">>

(* Rows inserted together exist together, one in each direction. *)
MirrorsExist ==
  \A id \in RowIds :
    Exists(id) => /\ Exists(Mirror(id))
                  /\ rows[Mirror(id)].sender = rows[id].receiver
                  /\ rows[Mirror(id)].receiver = rows[id].sender

(* Of rows inserted together, at most one is BLOCKED_BY_ME: each            *)
(* transaction of a block writes both.                                      *)
OneBlocksInMirrors ==
  \A id \in RowIds :
    Exists(id) /\ Exists(Mirror(id)) =>
      ~(rows[id].status = "BLOCKED_BY_ME" /\ rows[Mirror(id)].status = "BLOCKED_BY_ME")

Wrote(r, id) == writes[r][id] # Untouched

(* A statement waits for the rows another transaction has written. *)
LocksExclusive ==
  \A r, q \in Requests, id \in RowIds : r # q /\ Wrote(r, id) => ~Wrote(q, id)

(* What a request can be at each await, and when it has nothing to write.   *)
RequestsInOrder ==
  \A r \in Requests :
    /\ pc[r] # "idle" => req[r] # NoRequest
    /\ pc[r] \notin {"idle", "find"} => req[r].me # req[r].other
    /\ pc[r] \in {"save", "commitSave"} => req[r].op \in {"send", "block"}
    /\ pc[r] \in {"update", "firstRows", "secondRows"} => req[r].op \in {"accept", "block"}
    /\ pc[r] \notin {"firstRows", "secondRows", "removeRows"} => todo[r] = {}
    /\ pc[r] \in {"idle", "find", "save", "update", "select"} => writes[r] = NoWrites

(* A transaction that inserts has written the two rows of one id, which no  *)
(* one else knows.                                                          *)
InsertInOrder(r, p) ==
  /\ writes[r] = [id \in RowIds |-> Insertion(r, p, id)]
  /\ \A id \in {<<p, "sender">>, <<p, "receiver">>} :
       ~Exists(id) /\ \A q \in Requests : id \notin todo[q]

InsertsInOrder ==
  \A r \in Requests : pc[r] = "commitSave" => \E p \in Pairs : InsertInOrder(r, p)

Updated(r, id) ==
  [rows[id] EXCEPT !.status = IF rows[id].sender = SenderId(r)
                              THEN SenderFriendShipStatus(r)
                              ELSE ReceiverFriendShipStatus(r)]

(* A transaction that updates has changed the status of rows that exist.    *)
(* Every row it has written in its first statement has its mirror row among *)
(* the rows of the second: locked, neither can be deleted.                  *)
UpdateInOrder(r, id) ==
  /\ pc[r] \in {"firstRows", "secondRows"} /\ Wrote(r, id) =>
       /\ Exists(id)
       /\ id \in RowsFromTo(SenderId(r), ReceiverId(r))
            \cup RowsFromTo(ReceiverId(r), SenderId(r))
       /\ writes[r][id] = Updated(r, id)
  /\ pc[r] = "firstRows" /\ Wrote(r, id) => rows[id].sender = SenderId(r)
  /\ pc[r] = "firstRows" /\ id \in todo[r] /\ Exists(id) =>
       id \in RowsFromTo(SenderId(r), ReceiverId(r))
  /\ pc[r] = "secondRows" /\ id \in todo[r] /\ Exists(id) =>
       id \in RowsFromTo(ReceiverId(r), SenderId(r))
  /\ pc[r] = "secondRows" /\ Wrote(r, id) /\ rows[id].sender = SenderId(r) =>
       Mirror(id) \in todo[r] \/ Wrote(r, Mirror(id))

UpdatesInOrder == \A r \in Requests, id \in RowIds : UpdateInOrder(r, id)

(* A transaction that removes has deleted rows that exist, and holds or is  *)
(* about to write the mirror of each.                                       *)
RemovalInOrder(r, id) ==
  /\ pc[r] \in {"removeRows", "commitRemove"} /\ Wrote(r, id) =>
       /\ Exists(id)
       /\ writes[r][id] = NoRow
       /\ Mirror(id) \in todo[r] \/ Wrote(r, Mirror(id))
  /\ pc[r] = "removeRows" /\ id \in todo[r] /\ Exists(id) =>
       Mirror(id) \in todo[r] \/ Wrote(r, Mirror(id))

RemovalsInOrder == \A r \in Requests, id \in RowIds : RemovalInOrder(r, id)

(* At every step the open transactions can be committed in any order and    *)
(* leave rows in pairs, at most one of each a block.                        *)
IndInv ==
  /\ TypeOK
  /\ LocksExclusive
  /\ RequestsInOrder
  /\ InsertsInOrder
  /\ UpdatesInOrder
  /\ RemovalsInOrder
  /\ MirrorsExist
  /\ OneBlocksInMirrors
=============================================================================
