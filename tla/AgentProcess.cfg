SPECIFICATION FairSpec
CONSTANTS
  Bytes <- MCBytes
  Limit <- MCLimit
  MaxWritten <- MCMaxWritten
INVARIANTS
  TypeOK
  BuffersHoldThePrefix
  SuccessIsGenuine
  ReportIsHowItEnded
PROPERTIES
  CallReturns
CHECK_DEADLOCK FALSE
