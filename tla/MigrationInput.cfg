SPECIFICATION Spec
CHECK_DEADLOCK FALSE
CONSTANTS
  a = a
  b = b
  m = m
  none = none
  nosym = nosym
  first = first
  second = second
  Names <- MCNames
  Suffixed = {}
  ConsumerIDs = {}
  NoName = none
  NoSymbol = nosym
  ChangeIDs <- MCChangeIDs
  Inputs <- MCInputs
INVARIANTS
  TypeOK
  ManifestMeansWhatItSays
  EveryChangeIsResolved
