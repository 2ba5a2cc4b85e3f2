----------------------------- MODULE Participants -----------------------------
(***************************************************************************)
(* What the chatroom endpoints promise of a room's participants: a room is  *)
(* created with some, others are added one by one, and nobody leaves.       *)
(***************************************************************************)
CONSTANTS Users, Rooms

VARIABLE members  \* {} for a room that is not there

Init == members \in [Rooms -> SUBSET Users]

Create(r, who) ==
  /\ members[r] = {} /\ who # {}
  /\ members' = [members EXCEPT ![r] = who]

Add(r, user) ==
  /\ members[r] # {} /\ user \notin members[r]
  /\ members' = [members EXCEPT ![r] = @ \cup {user}]

Next ==
  \E r \in Rooms :
    \/ \E who \in SUBSET Users : Create(r, who)
    \/ \E user \in Users : Add(r, user)

Spec == Init /\ [][Next]_members
=============================================================================
