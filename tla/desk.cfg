\* Two of three leave a table, and the third gets two new neighbours.
CONSTANTS
  Users = {u1, u2, u3, u4, u5}
  Ais = {}
  Clients = {c1, c2, c3}
  AiIds = {}
  Null = Null
  WaitTime = 1
  AiDelay = 0
  Diffs = {0}
  PoolSize = 0
  Scores = {}
  LogoutAt = {}
  DropAt = {0}
  LateLeaves = FALSE
  StartAt = {}
  AnyOrder = FALSE
  FreshIds = TRUE
SYMMETRY ClientSymmetry
SPECIFICATION Spec
INVARIANTS
  DeskKnown
