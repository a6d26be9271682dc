\* Two consumers, three items with the same hash, two failures of consumers
\* and one of the producer.
SPECIFICATION FairSpec
CONSTANTS
  Consumer = {c1, c2}
  Item = {1, 2, 3}
  LeaseKey = {1}
  NoLease = NoLease
  End = End
  KeyOf <- MCOneKey
  Count = 4
  MaxLosses = 2
  MaxPubRestarts = 1
INVARIANTS
  TypeOK
  ProcessingIsHeld
  LeaveNothingBehind
PROPERTIES
  ImplementsPool
  EveryoneLeaves
  DrainedAfterProducing
