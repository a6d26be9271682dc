\* Two runs with every combination of arguments from -1 to 2, at most one
\* older entry and one failure.
SPECIFICATION FairSpec
CONSTANTS
  Runner = {r1, r2}
  Argument <- MCArgument
  NoGroup = NoGroup
  MaxOlder = 1
  MaxFailures = 1
INVARIANTS
  TypeOK
  Accounted
  ModestRunsReadAll
PROPERTIES
  ModestRunsEnd
