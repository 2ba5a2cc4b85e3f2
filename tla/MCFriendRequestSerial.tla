------------------------ MODULE MCFriendRequestSerial ------------------------
EXTENDS FriendRequestExclusion, TLC

CONSTANTS alice, bob, carol, r1, r2, p1

MCUsers == {alice, bob, carol}
MCRequests == {r1, r2}
MCPairs == {p1}

Symmetry == Permutations(MCUsers) \cup Permutations(MCRequests)
=============================================================================
