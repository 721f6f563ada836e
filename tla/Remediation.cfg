SPECIFICATION Spec
CONSTANTS
  old = old
  new = new
  rec = rec
  pattern = pattern
  none = none
  nosym = nosym
  noconsumer = noconsumer
  unreadable = unreadable
  redacted = redacted
  masked = masked
  first = first
  second = second
  hidden = hidden
  hidden2 = hidden2
  covered = covered
  rule = rule
  alert = alert
  slo = slo
  rules = rules
  slos = slos
  Names <- MCNames
  Suffixed = {}
  ConsumerIDs <- MCConsumerIDs
  NoName = none
  NoSymbol = nosym
  NoConsumer = noconsumer
  Unreadable = unreadable
  ChangeIDs <- MCChangeIDs
  Redaction <- MCRedaction
  Files <- MCFiles
  Patchable = {rules}
  RequiredFiles <- MCRequired
  SecondReader <- TwoReaders
  Expressions <- MCExpressions
  Contents <- MCContents
  Migrations <- MCMigrations
  Policies <- MCPolicies
  Responses <- MCResponses
INVARIANTS
  TypeOK
  SimulationIsReanalysis
  PatchHitsItsTarget
  ValidatedAnswersItsChange
  ValidatedMigrates
CHECK_DEADLOCK FALSE
