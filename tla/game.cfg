\* One part of the game per behaviour; a deck of seven cards, accounts of bytes.  Two rooms
\* and a pool of one AI, so that it is empty for the second room, and an AI of one room may
\* be taken by the other in the same tick.
CONSTANTS
  Colors = 1
  Ranks = 5
  CardNumber = 2
  BasicCard = 2
  OutSize = 4
  AiDelay = 1
  Rands = {0}
  Orders <- BothWays
  Lords = {0}
  InitialAis <- SomeAis
  Leavers = {0, 1, 2}
  Word = 256
  LevelTable <- Levels
  BasicScore = 4
  RoomGold <- Golds
  Logins <- AnyLogins
  Reports <- WinsAndLosses
  MaxRounds = 4
  None = None
  Rooms = {r1, r2}
  Ais = {a1, a2, a3, a4}
  PoolSize = 1
  MaxSeats = 2
SPECIFICATION GameSpec
INVARIANTS
  TypesOK
  CardsAreTrue
  AccountAddsUp
  AisHaveOnePlace
PROPERTIES
  TurnsAreKept
CHECK_DEADLOCK FALSE
