\* Two consumers, three items, two failures of consumers and one of the producer.
SPECIFICATION FairSpec
CONSTANTS
  Consumer = {c1, c2}
  Item = {1, 2, 3}
  LeaseKey = {1}
  NoLease = NoLease
  Count = 4
  MaxLosses = 2
  MaxPubRestarts = 1
INVARIANTS
  TypeOK
  NothingIsLost
  ExitLeavesItemsBehind
PROPERTIES
  SomeoneFinishes
