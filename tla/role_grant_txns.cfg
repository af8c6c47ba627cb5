SPECIFICATION FairSpec
CONSTANTS
  Sessions = {s1, s2}
  Members = {m1, m2, m3}
  FirstTarget = m1
  GrantIds = {g1, g2, g3}
  ApprovalIds = {a1}
  TargetOf <- MCTargetOf
  Quota = 1
  Committed = Committed
  NoOne = NoOne
  NoRow = NoRow
INVARIANTS
  CommittedGrantsDoNotClash
  OverrunIsBounded
PROPERTIES
  LatchStopsOpenTransactions
  WaitersAreReleased
