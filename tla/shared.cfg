\* One part of shared/ per behaviour; the bounds are in MCShared.
CONSTANTS
  t1 = t1
  t2 = t2
  a = a
  b = b
  c = c
  None = None
SPECIFICATION SharedSpec
INVARIANTS
  TypesOK
  PacketsArrive
  TextIsKept
  LogsAreWhole
PROPERTIES
  EventsAreInTime
  EventsAreOwned
  TimeAddsUp
CHECK_DEADLOCK FALSE
