SPECIFICATION Spec
CONSTANTS
  NUMUSERS = 2
  Cards = {c1, c2}
  NoCard = NoCard
  Doors = {d1}
  NoDoor = NoDoor
  Threshold = 1
  MaxFailures = 1
  FIRST_ASSIGNABLE = 1
  NoSlot = NoSlot
  CutTag <- MCCutTag
  ShortCard = c1
INVARIANTS
  LockoutIsUnprivileged
PROPERTIES
  ImplementsKeeper
  WritesAreNeeded
