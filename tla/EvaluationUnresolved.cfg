SPECIFICATION Spec
CONSTANTS
  old = old
  old_count = old_count
  new = new
  rec = rec
  lab = lab
  newlab = newlab
  pattern = pattern
  none = none
  nosym = nosym
  rule = rule
  alert = alert
  Names <- MCNames
  Suffixed <- MCSuffixed
  ConsumerIDs <- MCConsumerIDs
  NoName = none
  NoSymbol = nosym
  Discoveries <- ResolvedDiscoveries
  Migrations <- MetricMigrations
  Policies <- StrictPolicies
INVARIANTS
  UnresolvedCriticalFailsClosed
CHECK_DEADLOCK FALSE
