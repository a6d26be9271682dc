\* Three workers, two items and two EOQs of the same hash, one failure of a
\* worker and one of the publisher.
SPECIFICATION FairSpec
CONSTANTS
  Worker = {w1, w2, w3}
  Item = {1, 2, Eoq}
  Eoq = Eoq
  LeaseKey = {1}
  NoItem = NoItem
  NoLease = NoLease
  KeyOf <- MCOneKey
  Count = 3
  MaxEoqs = 2
  MaxCrashes = 1
  MaxPubRestarts = 1
INVARIANTS
  TypeOK
  OneEoqPerWorker
  StoppedByEach
PROPERTIES
  ImplementsPool
  WorksThrough
