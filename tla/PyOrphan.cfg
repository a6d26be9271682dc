\* One worker dies with the only item.
SPECIFICATION FairSpec
CONSTANTS
  Worker = {w1, w2}
  Item = {1}
  LeaseKey = {1}
  NoItem = NoItem
  NoLease = NoLease
  KeyOf <- MCKeyOf
  MaxServerRestarts = 0
  Count = 2
  MaxCrashes = 1
  MaxPubRestarts = 0
PROPERTIES
  ExpiredItemIsPickedUp
