------------------------ MODULE FriendRequestExclusion ------------------------
(***************************************************************************)
(* FriendRequest when no two requests about the same two users are past     *)
(* their first SELECT at once, as if handlers held a lock on the couple     *)
(* from the check to the end of what they do in the background.  Requests   *)
(* about different couples interleave as ever.                              *)
(***************************************************************************)
EXTENDS FriendRequestRefinement, FriendRequestInvariant

CoupleOfRequest(r) == {req[r].me, req[r].other}

(* The request has read a row and acts on what it read. *)
Checked(r) == pc[r] \notin {"idle", "find"}

OnePerCouple ==
  \A r, q \in Requests :
    r # q /\ Checked(r) /\ Checked(q) => CoupleOfRequest(r) # CoupleOfRequest(q)

ExclusiveSpec == Init /\ [][Next /\ OnePerCouple']_vars
-----------------------------------------------------------------------------
(* All rows of two users say the same of how they stand.                    *)
RowsAgree ==
  \A id, i \in RowIds :
    Exists(id) /\ Exists(i) /\ CoupleOf(id) = CoupleOf(i) => View(rows[id]) = View(rows[i])

OfTwoUsers == \A id \in RowIds : Exists(id) => rows[id].sender # rows[id].receiver

(* What a request's check found still holds when its transaction commits.   *)
CheckHolds(r) ==
  LET me == req[r].me
      other == req[r].other
      relation == RelationOf({me, other})
  IN  /\ pc[r] \in {"save", "commitSave"} => relation = Abstract!Strangers
      /\ pc[r] \in {"update", "firstRows", "secondRows"} =>
           IF req[r].op = "accept" THEN relation = Abstract!RequestedBy(other)
           ELSE relation \notin {Abstract!Strangers, Abstract!BlockedBy(other)}
      /\ pc[r] \in {"select", "removeRows", "commitRemove"} =>
           \/ req[r].op = "cancel" /\ relation = Abstract!RequestedBy(me)
           \/ req[r].op = "unblock" /\ relation = Abstract!BlockedBy(me)
           \/ req[r].op = "unfriend" /\ relation = Abstract!Friends

ChecksHold == \A r \in Requests : CheckHolds(r)

(* A transaction leaves out no row of its couple.                           *)
Reaches(r, id) == id \in todo[r] \/ Wrote(r, id)

CoversCouple(r) ==
  /\ pc[r] = "firstRows" => \A id \in RowsFromTo(SenderId(r), ReceiverId(r)) : Reaches(r, id)
  /\ pc[r] = "secondRows" =>
       /\ \A id \in RowsFromTo(SenderId(r), ReceiverId(r)) : Wrote(r, id)
       /\ \A id \in RowsFromTo(ReceiverId(r), SenderId(r)) : Reaches(r, id)
  /\ pc[r] \in {"removeRows", "commitRemove"} =>
       \A id \in RowIds :
         Reaches(r, id) <=> id \in RowsOf(CoupleOfRequest(r))

CouplesCovered == \A r \in Requests : CoversCouple(r)

(* What a commit needs to move the relation of its couple, and of no other, *)
(* as the abstract specification allows.                                    *)
ExclusiveInv ==
  /\ OnePerCouple
  /\ RowsAgree
  /\ OfTwoUsers
  /\ ChecksHold
  /\ CouplesCovered
=============================================================================
