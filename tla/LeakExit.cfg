\* No failures: a consumer leaves, and every item it took is in the processing list.
SPECIFICATION Spec
CONSTANTS
  Consumer = {c1, c2}
  Item = {1, 2, 3}
  LeaseKey = {1}
  NoLease = NoLease
  Count = 4
  MaxLosses = 0
  MaxPubRestarts = 0
PROPERTIES
  ExitMeansAllProcessed
