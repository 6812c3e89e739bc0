\* Two connections; three threads that write two packets each; three messages read.
CONSTANTS
  t1 = t1
  t2 = t2
  t3 = t3
  c1 = c1
  c2 = c2
  a1 = a1
  a2 = a2
  None = None
  Conns = {c1, c2}
  Accounts = {a1, a2}
  TimeOut = 2
  MaxHandled = 1
  MaxGame = 1
  Logins = 2
  CanStop = TRUE
  HeaderSize = 3
  Least = 2
  Limit = 8
  WordMod = 16
  MaxLength = 8
  Block = 2
  Messages <- AnyMessages
  MaxSent = 3
  Threads = {t1, t2, t3}
  MaxPackets = 2
  MayDelay = TRUE
SPECIFICATION NetSpec
INVARIANTS
  TypesOK
  SessionsAreSound
  PacketsAreHandled
  FrontIsFlying
  NothingStuck
PROPERTIES
  SessionsProgress
  ImplementsChannel
  NothingWaits
CHECK_DEADLOCK FALSE
