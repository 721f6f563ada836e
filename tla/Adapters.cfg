SPECIFICATION Spec
CHECK_DEADLOCK FALSE
CONSTANTS
  old = old
  new = new
  any = any
  lab = lab
  newlab = newlab
  attr = attr
  none = none
  nosym = nosym
  readsOld = readsOld
  readsNew = readsNew
  opaque = opaque
  noQuery = noQuery
  q1 = q1
  q2 = q2
  team = team
  guild = guild
  noOwner = noOwner
  noConsumer = noConsumer
  noPath = noPath
  noPattern = noPattern
  panel = panel
  Names <- MCNames
  Suffixed <- MCSuffixed
  ConsumerIDs <- MCConsumerIDs
  NoName = none
  NoSymbol = nosym
  Queries <- MCQueries
  NoQuery = noQuery
  Analyses <- MCAnalyses
  MaxRecords = 3
  Logs <- MCLogs
  Manifests <- MCManifests
  ExpressionAnalyses <- MCExpressionAnalyses
  Services <- MCServices
  Owners <- MCOwners
  NoPath = noPath
  NoPattern = noPattern
  NoOwner = noOwner
  NoConsumer = noConsumer
  SortedPaths <- MCSortedPaths
  Repositories <- MCRepositories
  Changes <- MCChanges
  Policies <- MCPolicies
INVARIANTS
  NoObservationIsLost
  AttributesAreFound
  TypeOK
  QueriesAreAccounted
  DiscoveryIsTheEvidence
  PatternsFindTheirFiles
  OwnerIsTheBestEvidence
  ConsumersReachTheVerdict
