------------------------------ MODULE Friendship ------------------------------
(***************************************************************************)
(* What the friend-request endpoints promise of the relation between two    *)
(* users: who may ask, accept, withdraw, block, unblock and end it.         *)
(***************************************************************************)
CONSTANT Users

VARIABLE relation  \* for each two users, how they stand

Couples == {c \in SUBSET Users : \E u, v \in c : u # v /\ c = {u, v}}

Strangers == [kind |-> "strangers"]
Friends == [kind |-> "friends"]
RequestedBy(u) == [kind |-> "requested", by |-> u]
BlockedBy(u) == [kind |-> "blocked", by |-> u]

Relations == {Strangers, Friends} \cup {RequestedBy(u) : u \in Users}
                                  \cup {BlockedBy(u) : u \in Users}

Init == relation = [c \in Couples |-> Strangers]

Change(c, from, to) == relation[c] = from /\ relation' = [relation EXCEPT ![c] = to]

Ask(c, u) == Change(c, Strangers, RequestedBy(u))

(* Only the one who was asked accepts. *)
Accept(c, u) == \E v \in c \ {u} : Change(c, RequestedBy(v), Friends)

Withdraw(c, u) == Change(c, RequestedBy(u), Strangers)

(* Either user may block, unless the other one has blocked before. *)
Block(c, u) ==
  \E from \in {Strangers, Friends} \cup {RequestedBy(v) : v \in c} : Change(c, from, BlockedBy(u))

(* Only the one who blocked lifts the block. *)
Unblock(c, u) == Change(c, BlockedBy(u), Strangers)

EndFriendship(c) == Change(c, Friends, Strangers)

Move(c) ==
  \/ EndFriendship(c)
  \/ \E u \in c : Ask(c, u) \/ Accept(c, u) \/ Withdraw(c, u) \/ Block(c, u) \/ Unblock(c, u)

(* Every move changes how its two users stand.                              *)
Next == \E c \in Couples : relation'[c] # relation[c] /\ Move(c)

Spec == Init /\ [][Next]_relation
=============================================================================
