SPECIFICATION Spec
CONSTANTS
  s1 = s1
  s2 = s2
  s3 = s3
  c1 = c1
  c2 = c2
  Symbols <- MCSymbols
  Consumers <- MCConsumers
  Rank <- MCRank
INVARIANTS
  TypeOK
  ReportsExactlyTheDependents
  PathsAreEvidence
  ShortestPaths
PROPERTIES
  ImplementsReachability
CHECK_DEADLOCK FALSE
