\* Two of three leave a table.
CONSTANTS
  Users = {u1, u2, u3}
  Ais = {}
  Clients = {c1, c2, c3}
  AiIds = {}
  Null = Null
  WaitTime = 1
  AiDelay = 0
  Diffs = {0}
  PoolSize = 0
  Scores = {}
  LogoutAt = {}
  DropAt = {0, 1, 2}
  LateLeaves = FALSE
  StartAt = {0}
  AnyOrder = TRUE
  FreshIds = TRUE
SYMMETRY ClientSymmetry
SPECIFICATION Spec
INVARIANTS
  WaitIsTimed
