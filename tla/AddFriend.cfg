CONSTANTS
  ann = ann
  bob = bob
  cai = cai
  r1 = r1
  r2 = r2
  User <- MCUser
  Request <- MCRequest
  Pairings <- MCPairings
  MaxAttempts = 2
  MaxWrites = 1
SPECIFICATION Spec
CHECK_DEADLOCK FALSE
INVARIANTS CopyInv DoneMeansFriends
PROPERTIES AtomicFriendship EveryRequestEnds
