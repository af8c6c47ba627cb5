SPECIFICATION Spec
CONSTANTS
  Members = {m1, m2}
  Roles = {admin}
  GrantsRoles = {admin}
  Quota = 2
  ApprovalIds = {a1}
  GrantIds = {g1, g2, g3}
  Expiries = {"none", "ahead"}
  MaxImport = 1
  Operator = Operator
  NoOne = NoOne
  NoRow = NoRow
SYMMETRY Symmetry
INVARIANTS
  QuotaHolds
  BoundGrantsStayJustified
  DecisionsKeepTheirPanel
PROPERTIES
  ImplementsLedger
  AdminsArriveByTheRule
