CONSTANTS
  cont = cont
  single = single
  Accounts <- MCAccounts
  Requests <- MCRequests
  Streaming <- MCStreaming
  Continuations <- MCContinuations
  StickyOwner <- MCStickyOwner
  RetryCount = 2
  Failover = TRUE
  ReservationTTL = 0
  UsageCycles <- MCUsageCycles
  InitialQuota <- MCInitialQuota
  Results <- MCSharedResults
  MaxChanges = 0

SPECIFICATION Spec

PROPERTY UpstreamFailureKeepsStatus

CHECK_DEADLOCK FALSE
