SPECIFICATION ExclusiveSpec
CONSTANTS
  alice = alice
  bob = bob
  carol = carol
  r1 = r1
  r2 = r2
  p1 = p1
  Users <- MCUsers
  Registered <- MCUsers
  Requests <- MCRequests
  Pairs <- MCPairs
  Offered = {"send", "accept", "cancel", "block", "unblock", "unfriend"}
  NoRow = NoRow
  Untouched = Untouched
SYMMETRY Symmetry
INVARIANTS BlockedByOtherUser ExclusiveInv
PROPERTIES ImplementsFriendship AcceptsOnlyPending
