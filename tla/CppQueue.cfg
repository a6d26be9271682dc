\* Two workers, two items with the same hash, one failure of a worker, one of
\* the publisher and one restart of the server.
SPECIFICATION FairSpec
CONSTANTS
  Worker = {w1, w2}
  Item = {1, 2}
  LeaseKey = {1}
  NoItem = NoItem
  NoLease = NoLease
  KeyOf <- MCOneKey
  MaxServerRestarts = 1
  Count = 3
  MaxCrashes = 1
  MaxPubRestarts = 1
INVARIANTS
  TypeOK
  LeasesNameHolders
  SomeoneStays
PROPERTIES
  ImplementsPool
  WorksThroughUnlessOrphaned
