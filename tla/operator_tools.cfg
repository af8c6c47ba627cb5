SPECIFICATION Spec
CONSTANTS
  NPortals = 2
  MaxStops = 1
  MaxByHand = 1
  People = {p1, p2}
  Nobody = Nobody
  Subjects = {s1, s2}
  NoSubject = NoSubject
  Quota = 1
  ScreenLimit = 8
  MaxCuts = 1
  Patrons = {m1, m2}
  Files = 4
  NoArchive = NoArchive
  MaxBreaks = 2
INVARIANTS
  OneOfEach
  ConfiguredMeansWanted
  PasswordsAreHandedOver
  RowsHaveTheirSignIn
  ToldIsTrue
  CopyIsWatched
PROPERTIES
  RunAgainSettles
  WorkingSignInsStay
