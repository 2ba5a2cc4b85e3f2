---------------------------- MODULE MCQueryRunners ----------------------------
EXTENDS QueryRunners

CONSTANTS r1, r2, r3

MCRequests == {r1, r2, r3}
=============================================================================
