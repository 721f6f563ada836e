SPECIFICATION Spec
CONSTANTS
  old = old
  new = new
  attr = attr
  newattr = newattr
  none = none
  nosym = nosym
  file1 = file1
  file2 = file2
  url1 = url1
  url2 = url2
  alert1 = alert1
  alert2 = alert2
  panel = panel
  query = query
  Names <- MCNames
  Suffixed = {}
  ConsumerIDs <- MCConsumerIDs
  NoName = none
  NoSymbol = nosym
  Files <- MCFiles
  URLs <- MCURLs
  Invocations <- MCInvocations
  Configurations <- MCConfigurations
  Migrations <- MCMigrations
  Extractions <- MCExtractions
INVARIANTS
  TypeOK
  EvidenceIsComplete
  OnlyRequiredFailuresCount
  OverlapsAreHarmless
  ExitCodeIsTheVerdict
PROPERTIES
  Exits
CHECK_DEADLOCK FALSE
