----------------------------- MODULE MCChatGateway -----------------------------
EXTENDS ChatGateway, TLC

CONSTANTS u1, u2, room1, s1, s2, s3

MCUsers == {u1, u2}
MCSockets == {s1, s2, s3}

(* A chatroom and the id of a socket, which clients may name as a room too. *)
MCRooms == {room1, s1}

Symmetry == Permutations(MCUsers) \cup Permutations({s2, s3})
=============================================================================
