\* Two workers, two items, one failure of a worker and one of the publisher.
SPECIFICATION FairSpec
CONSTANTS
  Worker = {w1, w2}
  Item = {1, 2}
  LeaseKey = {1, 2}
  NoItem = NoItem
  NoLease = NoLease
  KeyOf <- MCKeyOf
  MaxServerRestarts = 0
  Count = 3
  MaxCrashes = 1
  MaxPubRestarts = 1
PROPERTIES
  MainIsDrained
  CompletesUnlessOrphaned
