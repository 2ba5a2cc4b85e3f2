SPECIFICATION MCSpec
CONSTANTS
  id1 = id1
  id2 = id2
  ann = ann
  emailA = emailA
  emailB = emailB
  phone = phone
  t1 = t1
  t2 = t2
  q1 = q1
  q2 = q2
  None = None
  Ended = Ended
  Ids <- MCIds
  Names <- MCNames
  Addresses <- MCAddresses
  MaxCodes = 2
  Tokens <- MCTokens
  Keyed <- MCKeyed
  Requests <- MCRequests
INVARIANTS TypeOK VerifiedUserHadCode
PROPERTIES RetiredCodesRefused SessionEndsByLogout
SYMMETRY Symmetry
CHECK_DEADLOCK FALSE
