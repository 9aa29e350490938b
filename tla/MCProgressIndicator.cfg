SPECIFICATION FairSpec
CONSTANTS
  t1 = t1
  t2 = t2
  Thread <- MCThread
  Calls = 3
  spanStart_ = 0
  scale_ = 4
  backspace_ = TRUE
  MaxLogs = 2
  MaxRuns = 2
  None = None
INVARIANTS
  TypeOK
  NothingLost
  ShowsWhatIsDone
  LogIsKept
PROPERTIES
  Ends
