SPECIFICATION MCSpec
CONSTANTS
  Tasks = {t1, t2}
  Sections = {me, other}
  Profile = me
  Texts = {a, b}
  MaxTokens = 2
  MaxAstray = 1
INVARIANTS
  RefreshSpentOnce
  SignedOutIsOut
  TroubleIsAskedAgain
  FormShowsTheRecord
PROPERTIES
  EveryViewSettles
