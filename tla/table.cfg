\* Three users meet, play a round, and any of them may leave before the deal or lose its connection at any time.
CONSTANTS
  Users = {u1, u2, u3}
  Ais = {}
  Clients = {c1, c2, c3}
  AiIds = {}
  Null = Null
  WaitTime = 1
  AiDelay = 0
  Diffs = {0}
  PoolSize = 0
  Scores = {0, 2}
  LogoutAt = {0, 1, 2}
  DropAt = {0, 1, 2, 4, 5, 6, 7, 8, 9}
  LateLeaves = FALSE
  StartAt = {0}
  AnyOrder = TRUE
  FreshIds = TRUE
SYMMETRY ClientSymmetry
SPECIFICATION Spec
INVARIANTS
  TypeOK
  SessionLink
  NoFault
  TablesAgree
