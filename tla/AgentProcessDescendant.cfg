SPECIFICATION FairSpec
CONSTANTS
  Bytes <- OneByte
  Limit <- MCLimit
  MaxWritten <- MCMaxWritten
PROPERTIES
  ExecutionTimeIsBounded
CHECK_DEADLOCK FALSE
