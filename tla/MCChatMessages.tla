---------------------------- MODULE MCChatMessages ----------------------------
EXTENDS ChatMessages, TLC

CONSTANTS u1, u2, room1, room2, m1, m2, w1, w2

MCUsers == {u1, u2}
MCRooms == {room1, room2}
MCParticipants == room1 :> {u1, u2} @@ room2 :> {u2}
MCMessages == {m1, m2}
MCRoomOf == m1 :> room1 @@ m2 :> room2
MCSlots == {w1, w2}

Symmetry == Permutations(MCSlots)
=============================================================================
