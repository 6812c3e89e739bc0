\* Three workers for four rooms: several requests queued while others run.
CONSTANTS
  w1 = w1
  w2 = w2
  w3 = w3
  Workers <- ThreeWorkers
  NumRooms = 4
  Interval = 2
  MaxDiff = 3
  NoRequest = NoRequest
SPECIFICATION FairSpec
INVARIANTS
  CountIsExact
  SessionsRunAlone
  NoDanglingCall
  IndInv
PROPERTIES
  ImplementsBarrier
  WaitsEnd
