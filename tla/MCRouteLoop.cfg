CONSTANTS
  cont = cont
  single = single
  Accounts <- MCThreeAccounts
  Requests <- MCAlone
  Streaming <- MCStreaming
  Continuations <- MCContinuations
  StickyOwner <- MCStickyOwner
  RetryCount = 2
  Failover = TRUE
  ReservationTTL = 90
  UsageCycles <- MCUsageCycles
  InitialQuota <- MCThreeQuota
  Results <- Result
  MaxChanges = 1

SPECIFICATION Spec

INVARIANTS
  TypeOK
  FailedOnTheLiving
  NoTurnAfterOutput

PROPERTIES
  ContinuationStays
  EveryRequestEnds

CHECK_DEADLOCK FALSE
