\* One user plays round after round with AIs, or loses its connection in a game.
CONSTANTS
  Users = {u1}
  Ais = {a1, a2, a3}
  Clients = {c1}
  AiIds = {i1, i2, i3}
  Null = Null
  WaitTime = 1
  AiDelay = 1
  Diffs = {1}
  PoolSize = 2
  Scores = {0, 1, 3}
  LogoutAt = {}
  DropAt = {4, 5, 6, 7, 8, 9}
  LateLeaves = FALSE
  StartAt = {0, 11}
  AnyOrder = TRUE
  FreshIds = TRUE
SPECIFICATION FairSpec
INVARIANTS
  NoFault
  PoolConserved
  NobodyStranded
  LandlordAgreed
PROPERTIES
  RoundsBegin
  TurnComes
