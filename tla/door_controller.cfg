SPECIFICATION FairSpec
CONSTANTS
  NUMUSERS = 2
  Cards = {c1}
  NoCard = NoCard
  Doors = {d1}
  NoDoor = NoDoor
  Threshold = 1
  MaxFailures = 1
  Threads = {t1, t2}
  NoThread = NoThread
  FIRST_ASSIGNABLE = 1
  CutTag <- MCCutTag
  ShortCard = c1
  MaxOps = 2
INVARIANTS
  NoStandingPrivilege
PROPERTIES
  AlarmMovesOnlyOnOpen
  VerifiedMeansHeld
  ReportedActionsRan
  LockIsReleased
