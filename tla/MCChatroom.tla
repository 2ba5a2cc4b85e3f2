------------------------------ MODULE MCChatroom ------------------------------
EXTENDS ChatroomAdditions, TLC

CONSTANTS a, b, admin, ghost, room1, room2, m1, m2, m3, q1, q2

MCUsers == {a, b, admin, ghost}
MCRegistered == {a, b, admin}
MCAdmins == {admin}
MCRooms == {room1, room2}
MCMessages == {m1, m2, m3}
MCRequests == {q1, q2}

VARIABLE offered  \* what clients ask for in this behaviour, and how

(* Each scenario starts with the rooms whose participants it gives; in one, *)
(* clients add to a room one after the other.                               *)
Scenarios ==
  {[operations |-> {"findOrCreate", "accept"}, first |-> {}, second |-> {}, apart |-> FALSE],
   [operations |-> {"findOrCreate", "addParticipant"}, first |-> {a, b}, second |-> {a}, apart |-> FALSE],
   [operations |-> {"accept", "addParticipant"}, first |-> {a}, second |-> {}, apart |-> TRUE],
   [operations |-> {"addParticipant", "uploadImage"}, first |-> {a, b}, second |-> {}, apart |-> FALSE],
   [operations |-> {"deleteMessage", "readMessages", "chatJob"}, first |-> {a, b}, second |-> {}, apart |-> FALSE]}

MCInit ==
  \E scenario \in Scenarios :
    /\ Init
    /\ members = [r \in Rooms |-> IF r = room1 THEN scenario.first ELSE scenario.second]
    /\ offered = scenario

MCNext ==
  /\ NextOf(offered.operations) /\ UNCHANGED offered
  /\ offered.apart => AdditionsApart'

MCSpec == MCInit /\ [][MCNext]_<<vars, offered>>

(* addParticipantToChatroom where additions to a room do not overlap: a     *)
(* room is created once, one user joins it at a time and nobody is removed  *)
(* (ImplementsParticipants for that scenario).                              *)
AtomicAdditions == [][offered.apart => Abstract!Next]_members

Symmetry == Permutations(MCMessages) \cup Permutations(MCRequests) \cup Permutations({a, b})
=============================================================================
