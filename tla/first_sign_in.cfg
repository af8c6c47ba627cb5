SPECIFICATION MCSpec
CONSTANTS
  Requests = {q1, q2}
  Subjects = {s1, s2}
  Known = s1
  Emails = {e1, e2}
  LegacyEmail = e1
  OtherEmail = e2
  AddressOf <- MCAddressOf
  RecordIds = {r1, r2, r3}
  Legacy = r1
  MaxHands = 2
  Null = Null
  Entries = {a, b, c}
  Times = {1, 2}
  MaxLimit = 2
  MaxIds = 4
INVARIANTS
  RecordsAreDistinct
  RemovedMembersAreTold
  WalkShowsEachOnce
PROPERTIES
  FirstSignInOnlyAdds
  EveryRequestIsAnswered
CHECK_DEADLOCK FALSE
