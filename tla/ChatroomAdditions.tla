--------------------------- MODULE ChatroomAdditions ---------------------------
(***************************************************************************)
(* The sense in which Chatroom implements Participants: requests that add   *)
(* to different rooms, and all others, may overlap in any way; of those     *)
(* that add to one room only one is between its read of the participants    *)
(* and its write.                                                           *)
(***************************************************************************)
EXTENDS Chatroom

Adding(q, r) == req[q].step \in {"reread", "save"} /\ req[q].room = r

AdditionsApart ==
  \A r \in Rooms : \A p, q \in Requests : Adding(p, r) /\ Adding(q, r) => p = q

ApartSpec == Init /\ [][Next /\ AdditionsApart']_vars

Abstract == INSTANCE Participants WITH Users <- Registered

(* Additions that do not overlap are atomic: save(), which writes the whole *)
(* list it was given, inserts the one participant and removes nobody.       *)
ImplementsParticipants == Abstract!Spec

(* Why: a request that adds to a room names one user, and the copy it will  *)
(* save is the room as it is now with one more.                             *)
AddsOne(q) ==
  /\ req[q].step = "load" => \E p \in Users : req[q].who = {p}
  /\ \A r \in Rooms : Adding(q, r) =>
       \E p \in Registered \ members[r] : req[q].copy = members[r] \cup {p}
  /\ req[q].step = "save" => req[q].db = members[req[q].room]

AdditionsInv == AdditionsApart /\ \A q \in Requests : AddsOne(q)
=============================================================================
