----------------------- MODULE FriendRequestRefinement -----------------------
(***************************************************************************)
(* The relation the friend_request table stands for, as seen by either user *)
(* and in either row, and the sense in which FriendRequest implements       *)
(* Friendship.                                                              *)
(***************************************************************************)
EXTENDS FriendRequest

CoupleOf(id) == {rows[id].sender, rows[id].receiver}

(* How a row's owner (its sender) sees the relation. *)
View(row) ==
  CASE row.status = "WAITING_FOR_CURRENT_USER_RESPONSE" -> [kind |-> "requested", by |-> row.sender]
    [] row.status = "PENDING" -> [kind |-> "requested", by |-> row.receiver]
    [] row.status = "ACCEPTED" -> [kind |-> "friends"]
    [] row.status = "BLOCKED_BY_ME" -> [kind |-> "blocked", by |-> row.sender]
    [] row.status = "BLOCKED_BY_OTHER_USER" -> [kind |-> "blocked", by |-> row.receiver]

RowsOf(c) == {id \in RowIds : Exists(id) /\ CoupleOf(id) = c}

Views(c) == {View(rows[id]) : id \in RowsOf(c)}

(* Rows that disagree stand for no relation of the abstract specification.  *)
Verdict(views) ==
  IF views = {} THEN [kind |-> "strangers"]
  ELSE IF \A v, w \in views : v = w THEN CHOOSE v \in views : TRUE
  ELSE [kind |-> "torn"]

RelationOf(c) == Verdict(Views(c))

TwoUsers == {c \in SUBSET Users : \E u, v \in c : u # v /\ c = {u, v}}

Abstract == INSTANCE Friendship WITH relation <- [c \in TwoUsers |-> RelationOf(c)]

(* Served one at a time, background work included, requests move a relation *)
(* only as Friendship allows: the users' rows agree at every commit, only   *)
(* the one asked accepts, only the blocker unblocks, and a failed           *)
(* transaction or a crash changes nothing.                                  *)
ImplementsFriendship == Abstract!Spec
=============================================================================
