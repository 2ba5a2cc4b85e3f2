------------------------- MODULE MCFriendRequestLive -------------------------
EXTENDS FriendRequest

CONSTANTS alice, bob, r1, r2, p1, p2

MCUsers == {alice, bob}
MCRequests == {r1, r2}
MCPairs == {p1, p2}
=============================================================================
