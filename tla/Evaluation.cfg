SPECIFICATION Spec
CONSTANTS
  old = old
  old_count = old_count
  new = new
  rec = rec
  lab = lab
  newlab = newlab
  pattern = pattern
  none = none
  nosym = nosym
  rule = rule
  alert = alert
  Names <- MCNames
  Suffixed <- MCSuffixed
  ConsumerIDs <- MCConsumerIDs
  NoName = none
  NoSymbol = nosym
  Discoveries <- MCDiscoveries
  Migrations <- MCMigrations
  Policies <- MCPolicies
INVARIANTS
  TypeOK
  ReadyIsJustified
  BlockedExactlyWhenAConsumerBlocks
  SummaryAgreesWithStatus
  GlobalIsWorst
CHECK_DEADLOCK FALSE
