\* One connection, which its session leaves open.
CONSTANTS
  c1 = c1
  None = None
  Conns = {c1}
  Accounts = {"a"}
  TimeOut = 2
  MaxHandled = 1
  MaxGame = 1
  Logins = 1
  CanStop = FALSE
SPECIFICATION SessionSpec
INVARIANT SocketClosed
CHECK_DEADLOCK FALSE
