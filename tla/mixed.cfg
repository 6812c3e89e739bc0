\* Two users and an AI at a table, or a user and the AI that wait for a third.
\* The instance has one AI: time stands still while it plays (AiBound).
CONSTANTS
  Users = {u1, u2}
  Ais = {a1}
  Clients = {c1, c2}
  AiIds = {i1}
  Null = Null
  WaitTime = 1
  AiDelay = 0
  Diffs = {0, 1}
  PoolSize = 1
  Scores = {1, 3}
  LogoutAt = {}
  DropAt = {4, 5, 6, 7, 8, 9}
  LateLeaves = FALSE
  StartAt = {0}
  AnyOrder = TRUE
  FreshIds = TRUE
SYMMETRY ClientSymmetry
SPECIFICATION Spec
INVARIANTS
  NoFault
  DeskKnown
