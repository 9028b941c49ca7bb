CONSTANTS
  r1 = r1
  r2 = r2
  b1 = b1
  Accounts <- MCAccounts
  Requests <- MCRequests
  Borrowers <- MCBorrowers
  Exclusions <- MCExclusions
  PlanOf <- MCPlanOf
  Fresh <- MCFresh
  Volatile <- MCVolatile
  FailureStatus <- MCFailureStatus
  Coolable <- MCCoolable
  ReservationTTL = 90

SYMMETRY RequestSymmetry

SPECIFICATION Spec

PROPERTY PreferredPlanFirst
