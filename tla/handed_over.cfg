SPECIFICATION Spec
CONSTANTS
  NPortals = 1
  MaxStops = 0
  MaxByHand = 0
  People = {p1, p2}
  Nobody = Nobody
  Subjects = {s1, s2}
  NoSubject = NoSubject
  Quota = 1
  ScreenLimit = 8
  MaxCuts = 0
  Patrons = {m1}
  Files = 3
  NoArchive = NoArchive
  MaxBreaks = 0
INVARIANT
  HandedOverIsChanged
