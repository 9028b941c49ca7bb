SPECIFICATION ServicesSpec
CONSTANTS
  ToolIds = {"t1", "t2", "t3"}
  KindOf <- MCKind
  MaxEvents = 4
  MaxTries = 2
  KeyIds = {"k1"}
  Limits = {0, 1}
  Quotas = {1}
  MaxEdits = 1
  Fps = {"f1", "f2"}
  MaxEntries = 1
  TTL = 1
  Presents = {"k1", "service"}
  Visits = {v1, v2, v3}
  Costs = {1, 2}
  MaxCredits = 2
  LineCounts <- MCLines
  Jobs = 2
  Reps = 2
  Instances = {"i1", "i2"}
  Accounts = {"a1", "a2"}
  Prints = {1, 2}
  ConvIds = {"c1", "c2"}
  MaxPuts = 2
  MaxSweeps = 1
  TsRequests = {"r1", "r2"}
  TsAccounts = {"x", "y"}
  Rounds = 3
  PostTries = 2
  Mentions <- MCMentions
  Declares <- MCDeclares
  Clean <- MCClean
INVARIANTS
  ServicesTypeOK ClientSeesTheAnswer WellFormed SlotsAreHolders OverrunBounded
  DoneIsTrue  SweepsAreExact ToolsetsAnswer
PROPERTIES ReplayIsFresh
SYMMETRY ServicesSymmetry
CHECK_DEADLOCK FALSE
