SPECIFICATION Spec
CONSTANTS
  alice = alice
  bob = bob
  ghost = ghost
  r1 = r1
  r2 = r2
  p1 = p1
  p2 = p2
  p3 = p3
  Users <- MCUsers
  Registered <- MCRegistered
  Requests <- MCRequests
  Pairs <- MCPairs
  Offered = {"send", "accept", "cancel", "block", "unblock", "unfriend"}
  NoRow = NoRow
  Untouched = Untouched
SYMMETRY Symmetry
INVARIANTS TwinRows OneBlockerUnlessDuplicates IndInv
PROPERTIES BlockIsMirrored
