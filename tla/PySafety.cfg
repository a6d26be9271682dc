\* Two workers, two items, two failures of workers, one of the publisher and
\* one restart of the server.
SPECIFICATION Spec
CONSTANTS
  Worker = {w1, w2}
  Item = {1, 2}
  LeaseKey = {1, 2}
  NoItem = NoItem
  NoLease = NoLease
  KeyOf <- MCKeyOf
  MaxServerRestarts = 1
  Count = 3
  MaxCrashes = 2
  MaxPubRestarts = 1
INVARIANTS
  TypeOK
  InProgressAccounted
  LeasesNameHolders
  SingleDelivery
  CleanExit
  NothingVanishes
  SeenIsDone
PROPERTIES
  ReleasesOwnLease
  ImplementsPool
SYMMETRY WorkerSymmetry
