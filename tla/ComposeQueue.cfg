\* Three consumers and two items, two failures of consumers and one of the
\* producer.
SPECIFICATION FairComposeSpec
CONSTANTS
  Worker = {w1, w2, w3}
  Item = {1, 2}
  LeaseKey = {1, 2}
  NoItem = NoItem
  NoLease = NoLease
  KeyOf <- MCDigest
  Count = 3
  MaxServerRestarts = 0
  MaxCrashes = 2
  MaxPubRestarts = 1
INVARIANTS
  ComposeTypeOK
  LateExitIsRight
  LeftBehind
PROPERTIES
  EndsUnlessOrphaned
  DrainedOrDead
