SPECIFICATION Spec
CONSTANTS
  Sessions = {s1, s2}
  Members = {m1, m2, m3, m4}
  FirstTarget = m1
  GrantIds = {g1, g2, g3, g4}
  ApprovalIds = {}
  TargetOf <- MCTargetOf
  Quota = 3
  Committed = Committed
  NoOne = NoOne
  NoRow = NoRow
SYMMETRY Symmetry
INVARIANT SeatsWithinQuota
