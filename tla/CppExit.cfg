\* No failures: a worker leaves while an item waits and another worker
\* holds one.
SPECIFICATION Spec
CONSTANTS
  Worker = {w1, w2}
  Item = {1, 2}
  LeaseKey = {1, 2}
  NoItem = NoItem
  NoLease = NoLease
  KeyOf <- MCKeyOf
  MaxServerRestarts = 0
  Count = 3
  MaxCrashes = 0
  MaxPubRestarts = 0
PROPERTIES
  ExitMeansLastItem
