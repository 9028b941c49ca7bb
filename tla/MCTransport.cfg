SPECIFICATION TransportSpec
CONSTANTS
  q1 = q1
  q2 = q2
  Calls = {q1, q2}
  Upload <- MCUpload
  StreamWin = {0, 2}
  FirstWin = 1
  MaxFrames = 2
  Requests = {"r1", "r2", "r3"}
  Conns = {"c1", "c2"}
INVARIANTS TransportTypeOK NoStreamLeak CleanEnd
PROPERTIES
  WithinWindows WrittenOnce UsableStaysPooled WriterFollowsItsCall LoopMovesOn
CHECK_DEADLOCK FALSE
