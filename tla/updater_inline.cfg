\* RoomUpdate.Threads = 0: the world thread updates the rooms itself.
CONSTANTS
  w1 = w1
  w2 = w2
  w3 = w3
  Workers <- NoWorkers
  NumRooms = 6
  Interval = 5
  MaxDiff = 12
  NoRequest = NoRequest
SPECIFICATION Spec
INVARIANT SessionsRunAlone
