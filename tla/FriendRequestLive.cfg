SPECIFICATION FairSpec
CONSTANTS
  alice = alice
  bob = bob
  r1 = r1
  r2 = r2
  p1 = p1
  p2 = p2
  Users <- MCUsers
  Registered <- MCUsers
  Requests <- MCRequests
  Pairs <- MCPairs
  Offered = {"block", "unblock"}
  NoRow = NoRow
  Untouched = Untouched
PROPERTIES OpenTransactionEnds
