CONSTANTS
  t1 = t1
  t2 = t2
  r1 = r1
  r2 = r2
  Accounts <- MCAccounts
  Triggers <- MCTriggers
  Spawned <- MCSpawned
  FirstBases <- MCFirstBases
  FirstPlans <- MCFirstPlans
  Replies <- MCReplies
  MaxEvents = 3

SPECIFICATION Spec

INVARIANTS
  TypeOK
  OneRefreshWhilePending
  BaseNotCutShort

PROPERTIES
  CountNeverFalls
  JobsSwitchNothingOn
  PendingEnds

CHECK_DEADLOCK FALSE
