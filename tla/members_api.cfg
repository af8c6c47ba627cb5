SPECIFICATION FairSpec
CONSTANTS
  Keys = {k1}
  Requests = {r1, r2}
  NoRequest = NoRequest
  MaxAge = 1
  ReadTimeout = 1
  Connections = {x1}
  NoConnection = NoConnection
  Subjects = {s1, s2}
  Nobody = Nobody
  MaxHands = 1
INVARIANTS
  RowsAreTheCallers
  RefusedMeansUnchanged
  PoolIsWhole
  FreshSetsAreCurrent
PROPERTIES
  EveryRequestIsAnswered
