--------------------------- MODULE MCFriendRequest ---------------------------
EXTENDS FriendRequestInvariant, TLC

CONSTANTS alice, bob, ghost, r1, r2, p1, p2, p3

MCUsers == {alice, bob, ghost}
MCRegistered == {alice, bob}
MCRequests == {r1, r2}
MCPairs == {p1, p2, p3}

Symmetry == Permutations(MCRegistered) \cup Permutations(MCRequests) \cup Permutations(MCPairs)
=============================================================================
