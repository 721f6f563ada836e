SPECIFICATION Spec
CONSTANTS
  s1 = s1
  s2 = s2
  c1 = c1
  c2 = c2
  n1 = n1
  n2 = n2
  Symbols <- MCSymbols
  ConsumerIDs <- MCConsumerIDs
  ConsumerNames <- MCConsumerNames
  Discoveries <- MCDiscoveries
INVARIANTS
  TypeOK
  BuiltGraphIsTheEvidence
  RefusesExactlyContradictions
CHECK_DEADLOCK FALSE
